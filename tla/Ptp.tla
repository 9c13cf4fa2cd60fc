--------------------------------- MODULE Ptp --------------------------------
(***************************************************************************)
(* Hardware timestamps (ixgbe_ptp.c, ixgbe_ptp_e600.c, and the part of     *)
(* ixgbe_xmit_frame_ring in ixgbe_main.c that asks for one).               *)
(*                                                                         *)
(* There is one register for the timestamp of a sent packet, hence one     *)
(* packet at a time: __IXGBE_PTP_TX_IN_PROGRESS is taken by the transmit   *)
(* path of any queue, and given back by the work that polls the register,  *)
(* by the watchdog in the service task, by the error path of the           *)
(* transmission, and by the holder of the RTNL lock who sets the mode or   *)
(* resets or closes the device.                                            *)
(***************************************************************************)
EXTENDS Naturals, FiniteSets

CONSTANTS
    Queues,       \* transmit queues
    Phys,         \* the values of ptp_by_phy_ena
    MaxPackets,   \* bound: packets that ask for a timestamp
    MaxModes      \* bound: mode changes, resets and closes

VARIABLES
    phy,          \* adapter->ptp.ptp_by_phy_ena: the PHY of the E610 stamps
    clock,        \* adapter->ptp_clock
    running,      \* __IXGBE_PTP_RUNNING
    bit,          \* __IXGBE_PTP_TX_IN_PROGRESS
    ptp_tx_skb,   \* 0 = NULL
    late,         \* ptp_tx_start + IXGBE_PTP_TX_TIMEOUT has passed
    pending,      \* ptp_tx_work is queued
    at,           \* what the work, the service task and the RTNL holder do
    seenlate,     \* the local variable timeout of the work
    xm,           \* what the transmit path of a queue does, for which packet
    flight,       \* marked packets in the transmit queues
    txstmp,       \* the packet whose stamp is in the register, 0 = none
    txon,         \* IXGBE_TSYNCTXCTL_ENABLED
    asked, modes

tx == <<bit, ptp_tx_skb, late, pending, flight, txstmp>>
setup == <<phy, clock, running, txon>>
count == <<asked, modes>>
vars == <<setup, tx, at, seenlate, xm, count>>

Packets == 1 .. MaxPackets
Actors == {"work", "service", "rtnl"}
NoSkb == 0

TypeOK ==
    /\ {phy, clock, running, bit, late, pending, seenlate, txon} \subseteq BOOLEAN
    /\ ptp_tx_skb \in Packets \cup {NoSkb}
    /\ at \in [Actors -> {"idle", "valid", "null", "unlock", "cancel",
                          "clear", "bit", "clock", "down"}]
    /\ xm \in [Queues -> [at : {"idle", "lock", "get", "map", "free", "cancel",
                                "unlock"}, pkt : Packets \cup {NoSkb}]]
    /\ flight \subseteq Packets
    /\ txstmp \in Packets \cup {NoSkb}
    /\ asked \in 0 .. MaxPackets /\ modes \in 0 .. MaxModes

Init ==
    /\ phy \in Phys
    /\ clock = TRUE /\ running = TRUE
    /\ bit = FALSE /\ ptp_tx_skb = NoSkb /\ late = FALSE /\ pending = FALSE
    /\ at = [a \in Actors |-> "idle"] /\ seenlate = FALSE
    /\ xm = [q \in Queues |-> [at |-> "idle", pkt |-> NoSkb]]
    /\ flight = {} /\ txstmp = NoSkb
    /\ txon = FALSE
    /\ asked = 0 /\ modes = 0

Go(a, l) == at' = [at EXCEPT ![a] = l]
XGo(q, l) ==
    xm' = [xm EXCEPT ![q] = [at |-> l, pkt |-> IF l = "idle" THEN NoSkb ELSE @.pkt]]

-----------------------------------------------------------------------------
(* The transmit path                                                       *)

XmitAsk(q) ==
    /\ xm[q].at = "idle" /\ clock /\ asked < MaxPackets
    /\ at["rtnl"] # "down"
    /\ asked' = asked + 1
    /\ xm' = [xm EXCEPT ![q] = [at |-> "lock", pkt |-> asked + 1]]
    /\ UNCHANGED <<setup, tx, at, seenlate, modes>>

\* test_and_set_bit_lock; otherwise tx_hwtstamp_skipped
XmitLock(q) ==
    /\ xm[q].at = "lock"
    /\ bit' = TRUE
    /\ XGo(q, IF bit THEN "idle" ELSE "get")
    /\ UNCHANGED <<setup, ptp_tx_skb, late, pending, flight, txstmp, at,
                   seenlate, count>>

\* skb_get, ptp_tx_start, and ixgbe_ptp_is_tx_ptp: a PTP packet that the PHY
\* stamps needs no work, one with an invalid header clears the bit.
XmitGet(q) ==
    /\ xm[q].at = "get"
    /\ ptp_tx_skb' = xm[q].pkt
    /\ late' = FALSE
    /\ \/ pending' = TRUE /\ bit' = bit
       \/ phy /\ pending' = pending /\ bit' \in {bit, FALSE}
    /\ XGo(q, "map")
    /\ UNCHANGED <<setup, flight, txstmp, at, seenlate, count>>

\* ixgbe_tx_map succeeds, or the packet is dropped on the way
XmitMap(q) ==
    /\ xm[q].at = "map"
    /\ \/ flight' = flight \cup {xm[q].pkt} /\ XGo(q, "idle")
       \/ flight' = flight /\ XGo(q, "free")
    /\ UNCHANGED <<setup, bit, ptp_tx_skb, late, pending, txstmp, at, seenlate,
                   count>>

\* cleanup_tx_tstamp
XmitFree(q) ==
    /\ xm[q].at = "free"
    /\ ptp_tx_skb' = NoSkb
    /\ XGo(q, "cancel")
    /\ UNCHANGED <<setup, bit, late, pending, flight, txstmp, at, seenlate, count>>

XmitCancel(q) ==
    /\ xm[q].at = "cancel" /\ at["work"] = "idle"
    /\ pending' = FALSE
    /\ XGo(q, "unlock")
    /\ UNCHANGED <<setup, bit, ptp_tx_skb, late, flight, txstmp, at, seenlate,
                   count>>

XmitUnlock(q) ==
    /\ xm[q].at = "unlock"
    /\ bit' = FALSE
    /\ XGo(q, "idle")
    /\ UNCHANGED <<setup, ptp_tx_skb, late, pending, flight, txstmp, at,
                   seenlate, count>>

-----------------------------------------------------------------------------
(* The hardware and the passing of time                                    *)

\* A marked packet leaves; its stamp is latched when stamping is enabled and
\* the register is not occupied.
HwSend(p) ==
    /\ p \in flight
    /\ flight' = flight \ {p}
    /\ txstmp' = IF txon /\ txstmp = NoSkb THEN p ELSE txstmp
    /\ UNCHANGED <<setup, bit, ptp_tx_skb, late, pending, at, seenlate, xm, count>>

\* "it is reasonable to assume that it will never occur": a second is longer
\* than any packet stays in the queue.
TxLate ==
    /\ ptp_tx_skb # NoSkb /\ ~late
    /\ ptp_tx_skb \notin flight
    /\ late' = TRUE
    /\ UNCHANGED <<setup, bit, ptp_tx_skb, pending, flight, txstmp, at,
                   seenlate, xm, count>>

-----------------------------------------------------------------------------
(* ixgbe_ptp_clear_tx_timestamp, called by all three actors                *)

\* the register is read, which unlocks it, and the packet is freed
ClearSkb(a) ==
    /\ at[a] = "clear"
    /\ txstmp' = NoSkb
    /\ ptp_tx_skb' = NoSkb
    /\ Go(a, "bit")
    /\ UNCHANGED <<setup, bit, late, pending, flight, seenlate, xm, count>>

Closing == ~running /\ clock

\* clear_bit_unlock
BitKept == bit
BitCleared == FALSE

ClearBit(a) ==
    /\ at[a] = "bit"
    /\ bit' = BitCleared
    /\ Go(a, IF a = "rtnl" /\ Closing THEN "clock" ELSE "idle")
    /\ UNCHANGED <<setup, ptp_tx_skb, late, pending, flight, txstmp, seenlate,
                   xm, count>>

-----------------------------------------------------------------------------
(* ixgbe_ptp_tx_hwtstamp_work                                              *)

WorkStart ==
    /\ pending /\ at["work"] = "idle"
    /\ pending' = FALSE
    /\ seenlate' = late
    /\ Go("work", IF ptp_tx_skb = NoSkb THEN "clear" ELSE "valid")
    /\ UNCHANGED <<setup, bit, ptp_tx_skb, late, flight, txstmp, xm, count>>

\* The stamp is there (ixgbe_ptp_tx_hwtstamp), or it is too late for it, or
\* the work queues itself again.
WorkValid ==
    /\ at["work"] = "valid"
    /\ txstmp' = NoSkb
    /\ pending' = (pending \/ (txstmp = NoSkb /\ ~seenlate))
    /\ Go("work", IF txstmp # NoSkb THEN "null"
                  ELSE IF seenlate THEN "clear" ELSE "idle")
    /\ seenlate' = FALSE
    /\ UNCHANGED <<setup, bit, ptp_tx_skb, late, flight, xm, count>>

WorkNull ==
    /\ at["work"] = "null"
    /\ ptp_tx_skb' = NoSkb
    /\ Go("work", "unlock")
    /\ UNCHANGED <<setup, bit, late, pending, flight, txstmp, seenlate, xm, count>>

WorkUnlock ==
    /\ at["work"] = "unlock"
    /\ bit' = FALSE
    /\ Go("work", "idle")
    /\ UNCHANGED <<setup, ptp_tx_skb, late, pending, flight, txstmp, seenlate,
                   xm, count>>

\* ixgbe_ptp_tx_phytstamp_e600, in the interrupt handler: the PHY reports a
\* stamp, with the right sequence number or not, or one nobody waits for.
PhyStamp ==
    /\ phy /\ txstmp # NoSkb
    /\ txstmp' = NoSkb
    /\ ptp_tx_skb' = NoSkb
    /\ bit' = FALSE
    /\ UNCHANGED <<setup, late, pending, flight, at, seenlate, xm, count>>

-----------------------------------------------------------------------------
(* The service task: ixgbe_ptp_tx_hang                                     *)

TxHang ==
    /\ at["service"] = "idle" /\ running
    /\ late /\ ptp_tx_skb # NoSkb /\ bit
    /\ Go("service", "cancel")
    /\ UNCHANGED <<setup, tx, seenlate, xm, count>>

\* cancel_work_sync: the work does not run and is not queued
Cancel(a) ==
    /\ at[a] = "cancel" /\ at["work"] = "idle"
    /\ pending' = FALSE
    /\ Go(a, "clear")
    /\ UNCHANGED <<setup, bit, ptp_tx_skb, late, flight, txstmp, seenlate, xm,
                   count>>

-----------------------------------------------------------------------------
(* The holder of the RTNL lock                                             *)

\* ixgbe_ptp_set_timestamp_mode: the registers, then the Tx state is cleared
ModeSet(on) ==
    /\ txon' = on
    /\ Go("rtnl", "clear")

\* ixgbe_ptp_set_timestamp_mode_e600 writes the Tx register before it refuses a
\* receive filter.
ModeSetE600(on, accepted) ==
    /\ txon' = on
    /\ Go("rtnl", IF accepted THEN "clear" ELSE "idle")

\* SIOCSHWTSTAMP
SetTsConfig ==
    /\ at["rtnl"] = "idle" /\ modes < MaxModes
    /\ modes' = modes + 1
    /\ \E on \in BOOLEAN :
         IF phy THEN \E accepted \in BOOLEAN : ModeSetE600(on, accepted) ELSE ModeSet(on)
    /\ UNCHANGED <<phy, clock, running, tx, seenlate, xm, asked>>

Drained == \A q \in Queues : xm[q].at = "idle"

\* ixgbe_down and ixgbe_reset, with ixgbe_ptp_reset at the end
Reset ==
    /\ at["rtnl"] = "idle" /\ running /\ modes < MaxModes
    /\ Drained
    /\ modes' = modes + 1
    /\ flight' = {} /\ txstmp' = NoSkb
    /\ IF phy THEN ModeSetE600(txon, TRUE) ELSE ModeSet(txon)
    /\ UNCHANGED <<phy, clock, running, bit, ptp_tx_skb, late, pending,
                   seenlate, xm, asked>>

\* ixgbe_close: ixgbe_ptp_stop calls ixgbe_ptp_suspend, then unregisters
Suspend ==
    /\ at["rtnl"] = "idle" /\ running /\ ~phy /\ modes < MaxModes
    /\ modes' = modes + 1
    /\ running' = FALSE
    /\ Go("rtnl", "cancel")
    /\ UNCHANGED <<phy, clock, txon, tx, seenlate, xm, asked>>

StopClock ==
    /\ at["rtnl"] = "clock"
    /\ clock' = FALSE
    /\ Go("rtnl", "down")
    /\ UNCHANGED <<phy, running, txon, tx, seenlate, xm, count>>

\* ixgbe_down; afterwards ixgbe_open may call ixgbe_ptp_init, which makes the
\* clock and initialises the work
Closed ==
    /\ at["rtnl"] = "down" /\ Drained
    /\ flight' = {} /\ txstmp' = NoSkb
    /\ Go("rtnl", "idle")
    /\ UNCHANGED <<setup, bit, ptp_tx_skb, late, pending, seenlate, xm, count>>

PtpInit ==
    /\ at["rtnl"] = "idle" /\ ~clock
    /\ clock' = TRUE /\ running' = TRUE
    /\ pending' \in {FALSE, pending}
    /\ IF phy THEN ModeSetE600(FALSE, TRUE) ELSE ModeSet(FALSE)
    /\ UNCHANGED <<phy, bit, ptp_tx_skb, late, flight, txstmp, seenlate, xm,
                   count>>

XmitStep(q) ==
    XmitLock(q) \/ XmitGet(q) \/ XmitMap(q) \/ XmitFree(q) \/ XmitCancel(q)
    \/ XmitUnlock(q)
WorkStep == WorkStart \/ WorkValid \/ WorkNull \/ WorkUnlock
ClearStep(a) == ClearSkb(a) \/ ClearBit(a) \/ Cancel(a)
RtnlStep == StopClock \/ Closed

Next ==
    \/ \E q \in Queues : XmitAsk(q) \/ XmitStep(q)
    \/ \E p \in Packets : HwSend(p)
    \/ TxLate
    \/ \E a \in Actors : ClearStep(a)
    \/ WorkStep \/ PhyStamp
    \/ TxHang
    \/ SetTsConfig \/ Reset \/ Suspend \/ RtnlStep \/ PtpInit

\* Every thread goes on, the hardware sends, time passes, and the service
\* task comes round.
Fairness ==
    /\ \A q \in Queues : WF_vars(XmitStep(q))
    /\ \A p \in Packets : WF_vars(HwSend(p))
    /\ \A a \in Actors : WF_vars(ClearStep(a))
    /\ WF_vars(WorkStep) /\ WF_vars(RtnlStep)
    /\ WF_vars(TxLate) /\ WF_vars(TxHang)

Spec == Init /\ [][Next]_vars /\ Fairness

-----------------------------------------------------------------------------
\* However the work, the watchdog, the error path and a mode change meet, the
\* bit that keeps others from asking for a Tx timestamp is given back
\* ("we can unlock the timestamp bit when this occurs").
StampBitFreed == []<>~bit

\* "At most one packet in the queue may be marked for time stamping, otherwise
\* it would be impossible to tell for sure to which packet the hardware time
\* stamp belongs" (ixgbe_ptp_set_timestamp_mode).
OneMarked == Cardinality(flight) <= 1

=============================================================================
