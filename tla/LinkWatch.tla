----------------------------- MODULE LinkWatch -----------------------------
(***************************************************************************)
(* How a port that is up follows its link: the link status change (LSC)    *)
(* interrupt, the NEED_LINK_UPDATE flag and the watchdog of the service    *)
(* task.  The interrupt handler masks LSC and raises the flag; the         *)
(* watchdog reads the link, lowers the flag and unmasks LSC.  The two run  *)
(* on different processors and no lock protects the flag.                  *)
(***************************************************************************)
EXTENDS Naturals

CONSTANTS
    MaxNews,  \* bound on the times the port comes up or gets an SFP module
    Sfp       \* SFP modules may be plugged

ASSUME LinkAssumption == MaxNews \in Nat /\ Sfp \in BOOLEAN

VARIABLES
    phys,     \* the link, as the LINKS register shows it
    cause,    \* EICR.LSC is latched
    lsc,      \* EIMS.LSC is enabled
    need,     \* IXGBE_FLAG_NEED_LINK_UPDATE
    stale,    \* IXGBE_TRY_LINK_TIMEOUT has passed since link_check_timeout
    link_up,  \* adapter->link_up
    carrier,  \* netif_carrier_ok
    config,   \* IXGBE_FLAG_NEED_LINK_CONFIG
    sched,    \* __IXGBE_SERVICE_SCHED: the service task is queued or runs
    irq,      \* where ixgbe_msix_other is
    svc,      \* where the service task is
    seen,     \* the service task's local link_up
    news      \* how often the port came up or got a module

vars == <<phys, cause, lsc, need, stale, link_up, carrier, config, sched,
          irq, svc, seen, news>>

\* What a read of the LINKS register gives.
Reading(p) == IF p THEN "up" ELSE "down"

\* The port is up and has reported its link; nothing is pending.
Init ==
    /\ phys \in BOOLEAN
    /\ link_up = Reading(phys)
    /\ carrier = phys
    /\ cause = FALSE
    /\ lsc = TRUE
    /\ need = FALSE
    /\ stale = TRUE
    /\ config = FALSE
    /\ sched = FALSE
    /\ irq = "idle"
    /\ svc = "idle"
    /\ seen = "unset"
    /\ news = 0
-----------------------------------------------------------------------------
(* The hardware and the clock *)

LinkChange ==
    /\ phys' = ~phys
    /\ cause' = TRUE
    /\ UNCHANGED <<lsc, need, stale, link_up, carrier, config, sched, irq,
                   svc, seen, news>>

TimeoutPasses ==
    /\ need
    /\ stale' = TRUE
    /\ UNCHANGED <<phys, cause, lsc, need, link_up, carrier, config, sched,
                   irq, svc, seen, news>>

\* ixgbe_up_complete, after ixgbe_down: EICR is read, interrupts are enabled,
\* then the watchdog is asked to bring the link up.
UpComplete ==
    /\ news < MaxNews
    /\ news' = news + 1
    /\ irq = "idle"
    /\ cause' = FALSE
    /\ lsc' = TRUE
    /\ need' = TRUE
    /\ stale' = FALSE
    /\ carrier' = FALSE
    /\ UNCHANGED <<phys, link_up, config, sched, irq, svc, seen>>

\* ixgbe_check_sfp_event.
SfpPlugged ==
    /\ Sfp
    /\ news < MaxNews
    /\ news' = news + 1
    /\ config' = TRUE
    /\ sched' = TRUE
    /\ UNCHANGED <<phys, cause, lsc, need, stale, link_up, carrier, irq, svc,
                   seen>>
-----------------------------------------------------------------------------
(* ixgbe_msix_other with the LSC cause *)

\* Clear the cause; ixgbe_check_lsc raises the flag.
Irq ==
    /\ irq = "idle"
    /\ cause /\ lsc
    /\ cause' = FALSE
    /\ need' = TRUE
    /\ stale' = FALSE
    /\ irq' = "mask"
    /\ UNCHANGED <<phys, lsc, link_up, carrier, config, sched, svc, seen, news>>

IrqMask ==
    /\ irq = "mask"
    /\ lsc' = FALSE
    /\ sched' = TRUE
    /\ irq' = "enable"
    /\ UNCHANGED <<phys, cause, need, stale, link_up, carrier, config, svc,
                   seen, news>>

\* ixgbe_irq_enable: "don't reenable LSC while waiting for link".  EIMS only
\* sets bits.
ReenableNever == lsc
Reenable == lsc \/ ~need

IrqEnable ==
    /\ irq = "enable"
    /\ lsc' = Reenable
    /\ irq' = "idle"
    /\ UNCHANGED <<phys, cause, need, stale, link_up, carrier, config, sched,
                   svc, seen, news>>
-----------------------------------------------------------------------------
(* The service timer and the service task *)

ServiceTimer ==
    /\ sched' = TRUE
    /\ UNCHANGED <<phys, cause, lsc, need, stale, link_up, carrier, config,
                   irq, svc, seen, news>>

\* ixgbe_sfp_link_config_subtask sets up the link and asks for an update.
ServiceStart ==
    /\ sched
    /\ svc = "idle"
    /\ config' = FALSE
    /\ need' = (need \/ config)
    /\ stale' = (stale /\ ~config)
    /\ svc' = "watchdog"
    /\ UNCHANGED <<phys, cause, lsc, link_up, carrier, sched, irq, seen, news>>

SkipStores == "store"
\* Without a pending update ixgbe_watchdog_update_link returns at once.
Skip == "report"

\* ixgbe_watchdog_update_link: nothing to do, or read the link.
CheckLink ==
    /\ svc = "watchdog"
    /\ IF need THEN seen' = Reading(phys) /\ svc' = "decide"
               ELSE svc' = Skip /\ UNCHANGED seen
    /\ UNCHANGED <<phys, cause, lsc, need, stale, link_up, carrier, config,
                   sched, irq, news>>

DoneUp == seen = "up"
\* The link is up or the driver has waited long enough.
Done == seen = "up" \/ stale

Decide ==
    /\ svc = "decide"
    /\ svc' = IF Done THEN "clear" ELSE "store"
    /\ UNCHANGED <<phys, cause, lsc, need, stale, link_up, carrier, config,
                   sched, irq, seen, news>>

ClearNeed ==
    /\ svc = "clear"
    /\ need' = FALSE
    /\ svc' = "unmask"
    /\ UNCHANGED <<phys, cause, lsc, stale, link_up, carrier, config, sched,
                   irq, seen, news>>

Unmask ==
    /\ svc = "unmask"
    /\ lsc' = TRUE
    /\ svc' = "store"
    /\ UNCHANGED <<phys, cause, need, stale, link_up, carrier, config, sched,
                   irq, seen, news>>

Store ==
    /\ svc = "store"
    /\ link_up' = seen
    /\ svc' = "report"
    /\ UNCHANGED <<phys, cause, lsc, need, stale, carrier, config, sched, irq,
                   seen, news>>

\* ixgbe_watchdog_link_is_up and _down, and the end of the service task.
Report ==
    /\ svc = "report"
    /\ carrier' = (link_up = "up")
    /\ seen' = "unset"
    /\ sched' = FALSE
    /\ svc' = "idle"
    /\ UNCHANGED <<phys, cause, lsc, need, stale, link_up, config, irq, news>>
-----------------------------------------------------------------------------
Next ==
    \/ LinkChange \/ TimeoutPasses \/ UpComplete \/ SfpPlugged
    \/ Irq \/ IrqMask \/ IrqEnable
    \/ ServiceTimer \/ ServiceStart
    \/ CheckLink \/ Decide \/ ClearNeed \/ Unmask \/ Store \/ Report

Spec == Init /\ [][Next]_vars

\* An enabled interrupt is delivered, its handler and the service task run,
\* the timer is periodic and time passes.
FairSpec ==
    /\ Spec
    /\ WF_vars(Irq) /\ WF_vars(IrqMask) /\ WF_vars(IrqEnable)
    /\ WF_vars(ServiceTimer) /\ WF_vars(ServiceStart)
    /\ WF_vars(CheckLink) /\ WF_vars(Decide) /\ WF_vars(ClearNeed)
    /\ WF_vars(Unmask) /\ WF_vars(Store) /\ WF_vars(Report)
    /\ WF_vars(TimeoutPasses)
-----------------------------------------------------------------------------
\* Types of all variables; the watchdog never stores a link state it has not
\* read.
TypeOK ==
    /\ phys \in BOOLEAN /\ cause \in BOOLEAN /\ lsc \in BOOLEAN
    /\ need \in BOOLEAN /\ stale \in BOOLEAN /\ carrier \in BOOLEAN
    /\ config \in BOOLEAN /\ sched \in BOOLEAN
    /\ link_up \in {"up", "down"}
    /\ seen \in {"up", "down", "unset"}
    /\ irq \in {"idle", "mask", "enable"}
    /\ svc \in {"idle", "watchdog", "decide", "clear", "unmask", "store",
                "report"}
    /\ news \in 0 .. MaxNews

\* LSC is never left masked with no update pending: otherwise the port would
\* never hear of its link again.  The handler's mask may land after the
\* watchdog's unmask; ixgbe_irq_enable at the end of the handler repairs it.
LscNotStuck == ~lsc => need \/ irq # "idle" \/ svc = "unmask"

\* Every request for a link update ends, link or no link, while interrupts
\* keep renewing link_check_timeout.
UpdateEnds == []<>~need

\* The stack learns the state the link settles in: the race of the watchdog
\* with a link interrupt "shouldn't be a problem".
LinkFollows ==
    /\ <>[]phys => <>[]carrier
    /\ <>[]~phys => <>[]~carrier
=============================================================================
