------------------------------- MODULE FdirAtr ------------------------------
(***************************************************************************)
(* Signature filters of the Flow Director (ATR): the transmit path samples *)
(* flows into a hardware table (ixgbe_atr); when the table is nearly full  *)
(* the device interrupts, ixgbe_msix_other stops the sampling of every     *)
(* ring and masks the cause, and the service task empties the table        *)
(* (ixgbe_fdir_reinit_subtask).  Downs, ups and switches to the perfect    *)
(* filters cross it.                                                       *)
(***************************************************************************)
EXTENDS Naturals

CONSTANTS
    NRings,       \* num_tx_queues
    MaxFills,     \* bound: times the table fills up
    MaxResets     \* bound: downs

VARIABLES
    init_done,    \* rings with __IXGBE_TX_FDIR_INIT_DONE
    full,         \* fewer than 64 filters are left
    cause,        \* EICR.FLOW_DIR
    eims,         \* the cause is enabled in EIMS
    reinit,       \* IXGBE_FLAG2_FDIR_REQUIRES_REINIT
    sched,        \* the service task is queued
    svc,          \* Idle, Tables, or the next ring to mark
    irq,          \* "idle", or "enable": before the handler's last step
    rt,           \* the holder of RTNL: "idle", "down", "off", "conf"
    hash,         \* IXGBE_FLAG_FDIR_HASH_CAPABLE
    down,         \* __IXGBE_DOWN
    failed,       \* the table could not be emptied since the last up
    fills, resets

hw == <<full, cause, eims>>
bounds == <<fills, resets>>
avars == <<init_done, hw, reinit, sched, svc, irq, rt, hash, down, failed, bounds>>

Rings == 1 .. NRings
Idle == 0
Tables == NRings + 2

TypeOK ==
    /\ init_done \subseteq Rings
    /\ {full, cause, eims, reinit, sched, hash, down, failed} \subseteq BOOLEAN
    /\ svc \in 0 .. Tables
    /\ irq \in {"idle", "enable"}
    /\ rt \in {"idle", "down", "off", "conf"}
    /\ fills \in 0 .. MaxFills /\ resets \in 0 .. MaxResets

Init ==
    /\ init_done = Rings
    /\ full = FALSE /\ cause = FALSE /\ eims = TRUE
    /\ reinit = FALSE /\ sched = FALSE
    /\ svc = Idle /\ irq = "idle" /\ rt = "idle"
    /\ hash = TRUE /\ down = FALSE /\ failed = FALSE
    /\ fills = 0 /\ resets = 0

-----------------------------------------------------------------------------
(* Transmit path and interrupt                                             *)

\* ixgbe_xmit_frame_ring calls ixgbe_atr on a ring whose bit is set; the
\* sample rate of a ring is zero outside hash mode (ixgbe_configure_tx_ring).
Fill(r) ==
    /\ ~down /\ hash /\ r \in init_done /\ ~full
    /\ fills < MaxFills /\ fills' = fills + 1
    /\ full' = TRUE /\ cause' = TRUE
    /\ UNCHANGED <<init_done, eims, reinit, sched, svc, irq, rt, hash, down,
                   failed, resets>>

\* ixgbe_msix_other, for this cause or (other) for another one: EICR is read
\* and so cleared, the rings are stopped, and if one was running the cause is
\* masked and the service task asked for.
MsixOther(other) ==
    /\ irq = "idle" /\ (other \/ (cause /\ eims))
    /\ (~down \/ rt = "down")          \* the vector is requested and not masked
    /\ IF cause
       THEN /\ init_done' = {}
            /\ IF init_done # {}
               THEN eims' = FALSE /\ reinit' = TRUE /\ sched' = TRUE
               ELSE UNCHANGED <<eims, reinit, sched>>
       ELSE UNCHANGED <<init_done, eims, reinit, sched>>
    /\ cause' = FALSE
    /\ irq' = "enable"
    /\ UNCHANGED <<full, svc, rt, hash, down, failed, bounds>>

\* ixgbe_irq_enable(adapter, false, false) at the end of the handler.
IrqEnabled == hash /\ ~reinit

MsixOtherEnd ==
    /\ irq = "enable"
    /\ irq' = "idle"
    /\ eims' = (eims \/ (~down /\ IrqEnabled))
    /\ UNCHANGED <<init_done, full, cause, reinit, sched, svc, rt, hash, down,
                   failed, bounds>>

-----------------------------------------------------------------------------
(* The service task                                                        *)

\* ixgbe_service_timer.
Timer ==
    /\ ~down /\ ~sched
    /\ sched' = TRUE
    /\ UNCHANGED <<init_done, hw, reinit, svc, irq, rt, hash, down, failed, bounds>>

\* ixgbe_fdir_reinit_subtask: the request is taken first.
Take ==
    /\ svc = Idle /\ sched
    /\ sched' = FALSE
    /\ reinit' = FALSE
    /\ svc' = IF reinit /\ ~down /\ hash THEN Tables ELSE Idle
    /\ UNCHANGED <<init_done, hw, irq, rt, hash, down, failed, bounds>>

\* ixgbe_reinit_fdir_tables_82599 succeeds.
ReinitTables ==
    /\ svc = Tables
    /\ full' = FALSE
    /\ svc' = 1
    /\ UNCHANGED <<init_done, cause, eims, reinit, sched, irq, rt, hash, down,
                   failed, bounds>>

\* It times out: "ignored adding FDIR ATR filters".
ReinitFails ==
    /\ svc = Tables
    /\ failed' = TRUE
    /\ svc' = Idle
    /\ UNCHANGED <<init_done, hw, reinit, sched, irq, rt, hash, down, bounds>>

MarkRing ==
    /\ svc \in Rings
    /\ init_done' = init_done \cup {svc}
    /\ svc' = svc + 1
    /\ UNCHANGED <<hw, reinit, sched, irq, rt, hash, down, failed, bounds>>

\* "re-enable flow director interrupts"
Unmask ==
    /\ svc = NRings + 1
    /\ eims' = TRUE
    /\ svc' = Idle
    /\ UNCHANGED <<init_done, full, cause, reinit, sched, irq, rt, hash, down,
                   failed, bounds>>

-----------------------------------------------------------------------------
(* Down and up, under RTNL                                                 *)

\* ixgbe_reinit_locked, by ixgbe_do_reset of ixgbe_set_features when the
\* n-tuple or tc feature changed the mode, or by any other reset.
DownStart(mode) ==
    /\ rt = "idle" /\ resets < MaxResets
    /\ resets' = resets + 1
    /\ hash' = mode
    /\ down' = TRUE /\ rt' = "down"
    /\ UNCHANGED <<init_done, hw, reinit, sched, svc, irq, failed, fills>>

\* ixgbe_down: ixgbe_irq_disable waits for the handler, the request is
\* dropped, ixgbe_reset clears the table and the mask.
DownEnd ==
    /\ rt = "down" /\ irq = "idle"
    /\ reinit' = FALSE
    /\ full' = FALSE /\ cause' = FALSE /\ eims' = FALSE
    /\ rt' = "off"
    /\ UNCHANGED <<init_done, sched, svc, irq, hash, down, failed, bounds>>

\* A variant that leaves the bits as the interrupt left them.
RestartedNot(h) == init_done

\* ixgbe_configure_tx_ring for every ring, in hash mode.
Restarted(h) == IF h THEN Rings ELSE init_done

\* ixgbe_configure: ixgbe_init_fdir_signature_82599 and the rings.
Configure ==
    /\ rt = "off"
    /\ init_done' = Restarted(hash)
    /\ full' = FALSE
    /\ failed' = FALSE
    /\ rt' = "conf"
    /\ UNCHANGED <<cause, eims, reinit, sched, svc, irq, hash, down, bounds>>

\* ixgbe_up_complete: ixgbe_irq_enable(adapter, true, true).
UpComplete ==
    /\ rt = "conf"
    /\ down' = FALSE
    /\ eims' = (eims \/ IrqEnabled)
    /\ rt' = "idle"
    /\ UNCHANGED <<init_done, full, cause, reinit, sched, svc, irq, hash, failed,
                   bounds>>

Next ==
    \/ \E r \in Rings : Fill(r)
    \/ \E other \in BOOLEAN : MsixOther(other)
    \/ MsixOtherEnd
    \/ Timer \/ Take \/ ReinitTables \/ ReinitFails \/ MarkRing \/ Unmask
    \/ \E mode \in BOOLEAN : DownStart(mode)
    \/ DownEnd \/ Configure \/ UpComplete

Fairness ==
    /\ WF_avars(MsixOtherEnd) /\ WF_avars(Timer) /\ WF_avars(Take)
    /\ WF_avars(ReinitTables \/ ReinitFails)
    /\ WF_avars(MarkRing) /\ WF_avars(Unmask)
    /\ WF_avars(DownEnd) /\ WF_avars(Configure) /\ WF_avars(UpComplete)

Spec == Init /\ [][Next]_avars /\ Fairness

-----------------------------------------------------------------------------
Sampling == hash /\ ~down

(***************************************************************************)
(* A ring whose sampling the interrupt stopped samples again: whatever     *)
(* interrupts, resets and mode switches come between the handler's request *)
(* and ixgbe_fdir_reinit_subtask, the request is not lost, unless the      *)
(* device could not empty its table.                                       *)
(***************************************************************************)
AtrReturns == []<>(init_done = Rings \/ failed \/ ~Sampling)
=============================================================================
