------------------------------ MODULE MCTxRing ------------------------------
(***************************************************************************)
(* TxRing with two history variables, for the properties that speak of     *)
(* what happened before.                                                   *)
(***************************************************************************)
EXTENDS TxRing

VARIABLES waited,     \* hang checks since the oldest packet moved, at most 2
          late_wake   \* the queue was woken inside an xmit call since the
                      \* last doorbell

hvars == <<vars, waited, late_wake>>

HInit == Init /\ waited = 0 /\ late_wake = FALSE

HangChecked == detect /\ ~detect'
Moved == next_to_clean' # next_to_clean \/ ~TxPending

HNext ==
    /\ Next
    /\ waited' = IF Moved THEN 0
                 ELSE IF HangChecked /\ waited < 2 THEN waited + 1 ELSE waited
    /\ late_wake' = IF tdt' = next_to_use' THEN FALSE
                    ELSE late_wake \/ (stopped /\ ~stopped' /\ xpc = xpc'
                                         /\ xpc # "idle")

HSpec == HInit /\ [][HNext]_hvars /\ Fairness

\* A queue at rest that the ring stopped has told the NIC of every packet
\* (netif_xmit_stopped in ixgbe_tx_map): no packet waits for a doorbell behind
\* a stopped queue, unless the queue was woken in the middle of an xmit call
\* or is about to be reset.
StoppedIsRung ==
    xpc = "idle" /\ stopped /\ carrier /\ ~reset_requested /\ ~late_wake
        => tdt = next_to_use

\* "make sure it is true for two checks in a row" (ixgbe_check_tx_hang): a
\* hang is reported only when the oldest packet already was in the ring,
\* uncleaned, at an earlier check.
HangSeenTwice ==
    [][(HangChecked /\ reset_requested' /\ ~reset_requested)
         => waited >= 1]_hvars

=============================================================================
