------------------------------- MODULE NapiIrq ------------------------------
(***************************************************************************)
(* The interrupt masks and NAPI contexts of the queue vectors              *)
(* (ixgbe_main.c: ixgbe_msix_clean_rings, ixgbe_poll, ixgbe_irq_enable and *)
(* _disable, ixgbe_irq_rearm_queues, ixgbe_up_complete, ixgbe_down,        *)
(* ixgbe_txrx_ring_disable and _enable; ixgbe_xsk.c: ixgbe_xsk_wakeup).    *)
(*                                                                         *)
(* MSI-X: sending a vector's message clears its cause (EIAC) and masks it  *)
(* (EIAM); a write to EICS sets the cause and, for the bits in EIAM, the   *)
(* mask.  A NAPI context is scheduled at most once; scheduling it again    *)
(* while it is marks it missed, and a disabled one is not scheduled.       *)
(***************************************************************************)
EXTENDS Naturals, FiniteSets

CONSTANTS
    Vectors,
    MaxWork,      \* bound: frames waiting in the rings of a vector
    Budget,       \* frames that one poll may clean
    MaxArrivals,  \* bound: frames that arrive
    MaxOps        \* bound: downs and queue switches

VARIABLES
    down,         \* __IXGBE_DOWN
    eims, eicr,   \* mask and cause of every vector
    inirq,        \* the handler of the vector runs
    napi,         \* idle, scheduled, or disabled
    disabling,    \* napi_disable waits (NAPI_STATE_DISABLE)
    missed,       \* NAPI_STATE_MISSED
    poll,         \* where ixgbe_poll of the vector stands
    work,         \* frames that wait in the rings
    rxon,         \* the queue is enabled
    ctl,          \* what the holder of the RTNL lock does, and for whom
    rearm,        \* vectors that the service task is about to rearm
    arrivals, ops

rings == <<work, rxon, arrivals>>
kernel == <<napi, disabling, missed>>
vars == <<down, eims, eicr, inirq, kernel, poll, rings, ctl, rearm, ops>>

TypeOK ==
    /\ down \in BOOLEAN
    /\ eims \in [Vectors -> BOOLEAN] /\ eicr \in [Vectors -> BOOLEAN]
    /\ inirq \in [Vectors -> BOOLEAN]
    /\ napi \in [Vectors -> {"idle", "sched", "disabled"}]
    /\ disabling \subseteq Vectors /\ missed \subseteq Vectors
    /\ poll \in [Vectors -> {"out", "clean", "complete", "test", "enable"}]
    /\ work \in [Vectors -> 0 .. MaxWork]
    /\ rxon \subseteq Vectors
    /\ ctl.vs \subseteq Vectors
    /\ rearm \subseteq Vectors

Rest == [at |-> "rest", vs |-> {}]

Init ==
    /\ down = TRUE
    /\ eims = [v \in Vectors |-> FALSE] /\ eicr = [v \in Vectors |-> FALSE]
    /\ inirq = [v \in Vectors |-> FALSE]
    /\ napi = [v \in Vectors |-> "disabled"]
    /\ disabling = {} /\ missed = {}
    /\ poll = [v \in Vectors |-> "out"]
    /\ work = [v \in Vectors |-> 0]
    /\ rxon = {}
    /\ ctl = Rest
    /\ rearm = {}
    /\ arrivals = 0 /\ ops = 0

-----------------------------------------------------------------------------
(* Hardware, the interrupt handler and the poll routine                    *)

Arrive(v) ==
    /\ v \in rxon /\ work[v] < MaxWork /\ arrivals < MaxArrivals
    /\ work' = [work EXCEPT ![v] = @ + 1]
    /\ eicr' = [eicr EXCEPT ![v] = TRUE]
    /\ arrivals' = arrivals + 1
    /\ UNCHANGED <<down, eims, inirq, kernel, poll, rxon, ctl, rearm, ops>>

Fire(v) ==
    /\ eicr[v] /\ eims[v] /\ ~inirq[v]
    /\ eicr' = [eicr EXCEPT ![v] = FALSE]
    /\ eims' = [eims EXCEPT ![v] = FALSE]
    /\ inirq' = [inirq EXCEPT ![v] = TRUE]
    /\ UNCHANGED <<down, kernel, poll, rings, ctl, rearm, ops>>

\* napi_schedule_prep and __napi_schedule
Schedule(v) ==
    IF v \in disabling THEN UNCHANGED <<napi, missed>>
    ELSE IF napi[v] = "idle"
    THEN napi' = [napi EXCEPT ![v] = "sched"] /\ UNCHANGED missed
    ELSE missed' = missed \cup {v} /\ UNCHANGED napi

\* ixgbe_msix_clean_rings
CleanRings(v) ==
    /\ inirq[v]
    /\ inirq' = [inirq EXCEPT ![v] = FALSE]
    /\ Schedule(v)
    /\ UNCHANGED <<down, eims, eicr, disabling, poll, rings, ctl, rearm, ops>>

PollStart(v) ==
    /\ napi[v] = "sched" /\ poll[v] = "out"
    /\ poll' = [poll EXCEPT ![v] = "clean"]
    /\ UNCHANGED <<down, eims, eicr, inirq, kernel, rings, ctl, rearm, ops>>

\* The rings are cleaned; "if all work not completed, return budget and keep
\* polling".  The core takes a context that is being disabled off the list.
PollClean(v) ==
    /\ poll[v] = "clean"
    /\ work' = [work EXCEPT ![v] = IF @ > Budget THEN @ - Budget ELSE 0]
    /\ IF work[v] < Budget
       THEN poll' = [poll EXCEPT ![v] = "complete"] /\ UNCHANGED napi
       ELSE /\ poll' = [poll EXCEPT ![v] = "out"]
            /\ napi' = IF v \in disabling THEN [napi EXCEPT ![v] = "idle"]
                       ELSE napi
    /\ UNCHANGED <<down, eims, eicr, inirq, disabling, missed, rxon, arrivals,
                   ctl, rearm, ops>>

\* napi_complete_done: FALSE, and scheduled again, when one was missed
PollComplete(v) ==
    /\ poll[v] = "complete"
    /\ missed' = missed \ {v}
    /\ IF v \in missed
       THEN poll' = [poll EXCEPT ![v] = "out"] /\ UNCHANGED napi
       ELSE /\ poll' = [poll EXCEPT ![v] = "test"]
            /\ napi' = [napi EXCEPT ![v] = "idle"]
    /\ UNCHANGED <<down, eims, eicr, inirq, disabling, rings, ctl, rearm, ops>>

PollTest(v) ==
    /\ poll[v] = "test"
    /\ poll' = [poll EXCEPT ![v] = IF down THEN "out" ELSE "enable"]
    /\ UNCHANGED <<down, eims, eicr, inirq, kernel, rings, ctl, rearm, ops>>

\* ixgbe_irq_enable_queues of the vector
PollEnable(v) ==
    /\ poll[v] = "enable"
    /\ poll' = [poll EXCEPT ![v] = "out"]
    /\ eims' = [eims EXCEPT ![v] = TRUE]
    /\ UNCHANGED <<down, eicr, inirq, kernel, rings, ctl, rearm, ops>>

-----------------------------------------------------------------------------
(* The service task: ixgbe_check_hang_subtask                              *)

CheckHang ==
    /\ rearm = {} /\ ~down
    /\ rearm' = Vectors
    /\ UNCHANGED <<down, eims, eicr, inirq, kernel, poll, rings, ctl, ops>>

\* ixgbe_irq_rearm_queues
RearmedNone(vs, m) == m
Rearmed(vs, m) == [v \in Vectors |-> m[v] \/ v \in vs]

Rearm ==
    /\ rearm # {}
    /\ eicr' = Rearmed(rearm, eicr)
    /\ eims' = Rearmed(rearm, eims)
    /\ rearm' = {}
    /\ UNCHANGED <<down, inirq, kernel, poll, rings, ctl, ops>>

-----------------------------------------------------------------------------
(* The holder of the RTNL lock: up, down, and the switch of a queue to or  *)
(* from zero-copy (ixgbe_xsk_umem_enable and _disable)                     *)

At(a) == ctl.at = a
GoOn(a) == ctl' = [ctl EXCEPT !.at = a]

UpBegin ==
    /\ At("rest") /\ down
    /\ ctl' = [at |-> "up_napi", vs |-> Vectors]
    /\ down' = FALSE
    /\ rxon' = Vectors          \* ixgbe_configure, before ixgbe_up_complete
    /\ UNCHANGED <<eims, eicr, inirq, kernel, poll, work, arrivals, rearm, ops>>

NapiEnable ==
    /\ ctl.at \in {"up_napi", "sw_napi"}
    /\ napi' = [v \in Vectors |-> IF v \in ctl.vs THEN "idle" ELSE napi[v]]
    /\ GoOn(IF At("up_napi") THEN "up_eicr" ELSE "sw_config")
    /\ UNCHANGED <<down, eims, eicr, inirq, disabling, missed, poll, rings,
                   rearm, ops>>

\* "clear any pending interrupts, may auto mask"
UpReadEicr ==
    /\ At("up_eicr")
    /\ eicr' = [v \in Vectors |-> FALSE]
    /\ eims' = [v \in Vectors |-> FALSE]
    /\ GoOn("up_irq")
    /\ UNCHANGED <<down, inirq, kernel, poll, rings, rearm, ops>>

\* ixgbe_irq_enable(adapter, true, true)
UpIrqEnable ==
    /\ At("up_irq")
    /\ eims' = [v \in Vectors |-> TRUE]
    /\ ctl' = Rest
    /\ UNCHANGED <<down, eicr, inirq, kernel, poll, rings, rearm, ops>>

DownBegin ==
    /\ At("rest") /\ ~down /\ ops < MaxOps
    /\ ops' = ops + 1
    /\ down' = TRUE
    /\ rxon' = {}
    /\ ctl' = [at |-> "down_irq", vs |-> Vectors]
    /\ UNCHANGED <<eims, eicr, inirq, kernel, poll, work, arrivals, rearm>>

IrqDisable ==
    /\ At("down_irq")
    /\ eims' = [v \in Vectors |-> FALSE]
    /\ GoOn("down_sync")
    /\ UNCHANGED <<down, eicr, inirq, kernel, poll, rings, rearm, ops>>

SynchronizeIrq ==
    /\ At("down_sync") /\ \A v \in Vectors : ~inirq[v]
    /\ GoOn("disable")
    /\ UNCHANGED <<down, eims, eicr, inirq, kernel, poll, rings, rearm, ops>>

\* napi_disable asks, and takes the context once it is not scheduled
AskedFor(v) == v \in disabling
Unscheduled(v) == napi[v] = "idle"

NapiDisable ==
    /\ At("disable")
    /\ disabling' = ctl.vs
    /\ GoOn("wait")
    /\ UNCHANGED <<down, eims, eicr, inirq, napi, missed, poll, rings, rearm,
                   ops>>

NapiDisabled ==
    /\ At("wait") /\ \A v \in ctl.vs : Unscheduled(v)
    /\ napi' = [v \in Vectors |-> IF v \in ctl.vs THEN "disabled" ELSE napi[v]]
    /\ disabling' = {}
    /\ GoOn("clean")
    /\ UNCHANGED <<down, eims, eicr, inirq, missed, poll, rings, rearm, ops>>

\* the rings are emptied; ixgbe_reset masks all (ixgbe_stop_adapter)
CleanQueues ==
    /\ At("clean")
    /\ work' = [v \in Vectors |-> IF v \in ctl.vs THEN 0 ELSE work[v]]
    /\ IF down THEN /\ ctl' = Rest
                    /\ eims' = [v \in Vectors |-> FALSE]
                    /\ eicr' = [v \in Vectors |-> FALSE]
       ELSE GoOn("sw_napi") /\ UNCHANGED <<eims, eicr>>
    /\ UNCHANGED <<down, inirq, kernel, poll, rxon, arrivals, rearm, ops>>

\* ixgbe_txrx_ring_disable: the queue is stopped, its interrupt is not
SwitchBegin(v) ==
    /\ At("rest") /\ ~down /\ ops < MaxOps
    /\ ops' = ops + 1
    /\ rxon' = rxon \ {v}
    /\ ctl' = [at |-> "disable", vs |-> {v}]
    /\ UNCHANGED <<down, eims, eicr, inirq, kernel, poll, work, arrivals, rearm>>

\* ixgbe_txrx_ring_enable; enabling a pool goes on with ixgbe_xsk_wakeup
SwitchConfigure ==
    /\ At("sw_config")
    /\ rxon' = rxon \cup ctl.vs
    /\ \/ GoOn("sw_wake")
       \/ ctl' = Rest
    /\ UNCHANGED <<down, eims, eicr, inirq, kernel, poll, work, arrivals, rearm,
                   ops>>

\* napi_if_scheduled_mark_missed, or rearm the vector
XskWakeup ==
    /\ At("sw_wake")
    /\ LET sched == {v \in ctl.vs : napi[v] = "sched"}
       IN  /\ missed' = missed \cup sched
           /\ eicr' = Rearmed(ctl.vs \ sched, eicr)
           /\ eims' = Rearmed(ctl.vs \ sched, eims)
    /\ ctl' = Rest
    /\ UNCHANGED <<down, inirq, napi, disabling, poll, rings, rearm, ops>>

\* What the holder of the RTNL lock has begun goes on.
RtnlStep ==
    \/ NapiEnable \/ UpReadEicr \/ UpIrqEnable
    \/ IrqDisable \/ SynchronizeIrq \/ NapiDisable \/ NapiDisabled
    \/ CleanQueues \/ SwitchConfigure \/ XskWakeup

Driver == CheckHang \/ Rearm \/ UpBegin \/ RtnlStep
VectorStep(v) ==
    Fire(v) \/ CleanRings(v) \/ PollStart(v) \/ PollClean(v) \/ PollComplete(v)
    \/ PollTest(v) \/ PollEnable(v)

Next ==
    \/ Driver \/ DownBegin
    \/ \E v \in Vectors : VectorStep(v) \/ Arrive(v) \/ SwitchBegin(v)

\* Interrupts are delivered, softirqs run, the RTNL holder goes on, and the
\* service timer comes round every two seconds.
Fairness ==
    /\ \A v \in Vectors :
        /\ WF_vars(Fire(v)) /\ WF_vars(CleanRings(v)) /\ WF_vars(PollStart(v))
        /\ WF_vars(PollClean(v)) /\ WF_vars(PollComplete(v))
        /\ WF_vars(PollTest(v)) /\ WF_vars(PollEnable(v))
    /\ WF_vars(CheckHang) /\ WF_vars(Rearm)
    /\ WF_vars(RtnlStep)

Spec == Init /\ [][Next]_vars /\ Fairness

-----------------------------------------------------------------------------
\* napi_disable keeps the poll routine out of rings that ixgbe_down or
\* ixgbe_txrx_ring_disable frees: nobody cleans the same ring at the same time.
CleanedAlone ==
    At("clean") => \A v \in ctl.vs : poll[v] \notin {"clean", "complete"}

\* Frames that wait are polled, or the interface goes down: no interleaving of
\* the handler, the poll routine, the switch of a queue and an up leaves a
\* vector masked for good with work to do ("Cause software interrupt to ensure
\* rings are cleaned").
WorkPolled == \A v \in Vectors : []<>(work[v] = 0 \/ down)

=============================================================================
