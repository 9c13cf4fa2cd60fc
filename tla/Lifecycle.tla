----------------------------- MODULE Lifecycle -----------------------------
(***************************************************************************)
(* The life of one ixgbe port: open, close, re-initialisation, traffic     *)
(* class setup, suspend/resume, freeze/thaw, PCI error recovery, surprise  *)
(* removal and driver removal, against the service task, the service timer *)
(* and the interrupt handlers that run beside them.                        *)
(*                                                                         *)
(* Every thread runs a program: the sequence of steps it still has to do.  *)
(* A call puts the callee's steps in front of the caller's; a return drops *)
(* the head.  A step is what the code does without giving another thread a *)
(* chance to see the difference.  The rtnl mutex, the __IXGBE_RESETTING    *)
(* and __IXGBE_IN_SFP_INIT bits and napi_disable really block.             *)
(***************************************************************************)
EXTENDS Naturals, Sequences, FiniteSets

CONSTANTS
    Ops,       \* the operations of the kernel that may be started
    Faults,    \* the calls that may fail or the hardware events that may occur
    HotOps,    \* the same two sets for an E610 that runs too hot; without
    HotFaults  \* "tca" there is no such adapter

ASSUME LifecycleAssumption ==
    /\ Ops \cup HotOps \subseteq
           {"open", "close", "reinit", "setup_tc", "suspend", "freeze", "aer",
            "remove"}
    /\ Faults \cup HotFaults \subseteq
           {"alloc", "reopen", "irq", "enable", "resume", "surprise",
            "fw_error", "sfp", "bad_sfp", "tca", "reset_irq", "hung"}

VARIABLES
    ad,    \* struct ixgbe_adapter: state bits and resources
    net,   \* struct net_device
    prog,  \* what is left to do, for every thread
    err,   \* the error a call returned to the thread
    rtnl,  \* holder of the rtnl mutex
    work,  \* adapter->service_task in the workqueue
    core,  \* where the PCI and PM cores are in their protocol with the driver
    hot    \* the adapter is an E610 whose firmware may report over-temperature

vars == <<ad, net, prog, err, rtnl, work, core>>

MayStart(op) == op \in IF hot THEN HotOps ELSE Ops
MayOccur(fault) == fault \in IF hot THEN HotFaults ELSE Faults

Threads == {"user", "pci", "svc", "timer", "irq", "reader"}

\* The steps that only run between rtnl_lock and the end of an up or a down.
DownSteps == {"stop_tx", "quiesce", "clear_requests", "del_timer",
              "stop_dma", "clean"}
UpSteps == {"configure", "up_clear", "up_napi", "up_start"}

Steps == DownSteps \cup UpSteps \cup
    {"lock", "unlock", "down", "reset", "reset_online", "init_hw", "up", "reinit",
     "clear_resetting", "open", "setup", "request_irq", "set_queues",
     "failed", "opened", "close", "close_suspend", "free_irq", "free_rings",
     "queue", "top", "fw_events", "reset_task", "reset_check", "sfp",
     "sfp_done", "watchdog", "update_link", "link_test", "carrier_on",
     "wake", "carrier_off", "flush_tx", "complete", "unregister",
     "unregistered", "detach", "quit_running", "freeze_running",
     "disable_pci", "aer_disable", "enable_pci", "reopen", "attach",
     "attach_ok", "thaw_irq", "set_removing", "cancel_work",
     "unregister_if", "teardown"}

Adapter == [down : BOOLEAN, resetting : BOOLEAN, removing : BOOLEAN,
            disabled : BOOLEAN, sfp_init : BOOLEAN, service_sched : BOOLEAN,
            reset_requested : BOOLEAN, timer : BOOLEAN, napi : BOOLEAN,
            irq : BOOLEAN, rings : BOOLEAN, dma : BOOLEAN,
            removed : BOOLEAN, pci_enabled : 0 .. 2]

NetDevice == [running : BOOLEAN, present : BOOLEAN, listed : BOOLEAN,
              registered : BOOLEAN, carrier : BOOLEAN, queues : BOOLEAN]

\* State after a successful ixgbe_probe: registered, closed, no work queued.
Init ==
    /\ ad = [down |-> TRUE, resetting |-> FALSE, removing |-> FALSE,
             disabled |-> FALSE, sfp_init |-> FALSE, service_sched |-> FALSE,
             reset_requested |-> FALSE, timer |-> FALSE, napi |-> FALSE,
             irq |-> FALSE, rings |-> FALSE, dma |-> FALSE,
             removed |-> FALSE, pci_enabled |-> 1]
    /\ net = [running |-> FALSE, present |-> TRUE, listed |-> TRUE,
              registered |-> TRUE, carrier |-> FALSE, queues |-> FALSE]
    /\ prog = [t \in Threads |-> <<>>]
    /\ err = [t \in Threads |-> FALSE]
    /\ rtnl = "free"
    /\ work = "idle"
    /\ core = "on"
    /\ hot \in {h \in BOOLEAN : h => "tca" \in HotFaults}

Idle(t) == prog[t] = <<>>
At(t, s) == prog[t] # <<>> /\ Head(prog[t]) = s

\* The head of t's program is done; the steps of next take its place.
Then(t, next) == prog' = [prog EXCEPT ![t] = next \o Tail(@)]
Return(t) == Then(t, <<>>)

OnlyProg == UNCHANGED <<ad, net, err, rtnl, work, core>>
OnlyAdapter == UNCHANGED <<net, err, rtnl, work, core>>
OnlyNet == UNCHANGED <<ad, err, rtnl, work, core>>
-----------------------------------------------------------------------------
(* rtnl_lock, rtnl_unlock *)

Lock(t) ==
    /\ At(t, "lock")
    /\ rtnl = "free"
    /\ rtnl' = t
    /\ Return(t)
    /\ UNCHANGED <<ad, net, err, work, core>>

Unlock(t) ==
    /\ At(t, "unlock")
    /\ rtnl' = "free"
    /\ Return(t)
    /\ UNCHANGED <<ad, net, err, work, core>>
-----------------------------------------------------------------------------
(* ixgbe_reset: exclusive with SFP setup through __IXGBE_IN_SFP_INIT *)

Reset(t) ==
    /\ At(t, "reset")
    /\ IF ad.removed
       THEN Return(t) /\ OnlyProg
       ELSE /\ ~ad.sfp_init
            /\ ad' = [ad EXCEPT !.sfp_init = TRUE]
            /\ Then(t, <<"init_hw">>)
            /\ OnlyAdapter

InitHw(t) ==
    /\ At(t, "init_hw")
    /\ ad' = [ad EXCEPT !.sfp_init = FALSE, !.dma = FALSE]
    /\ Return(t)
    /\ OnlyAdapter
-----------------------------------------------------------------------------
(* ixgbe_down *)

DownBodyCleanFirst == <<"stop_tx", "quiesce", "clear_requests", "del_timer",
                        "clean", "stop_dma", "reset_online">>
DownBody == <<"stop_tx", "quiesce", "clear_requests", "del_timer",
              "stop_dma", "reset_online", "clean">>

\* test_and_set_bit(__IXGBE_DOWN): the second caller is turned away.
Down(t) ==
    /\ At(t, "down")
    /\ IF ad.down
       THEN Return(t) /\ OnlyProg
       ELSE /\ ad' = [ad EXCEPT !.down = TRUE]
            /\ Then(t, DownBody)
            /\ OnlyAdapter

StopTx(t) ==
    /\ At(t, "stop_tx")
    /\ net' = [net EXCEPT !.queues = FALSE, !.carrier = FALSE]
    /\ Return(t)
    /\ OnlyNet

\* ixgbe_irq_disable waits for running handlers, napi_disable for the poll;
\* on an instance that is already disabled napi_disable never returns.
Quiesce(t) ==
    /\ At(t, "quiesce")
    /\ Idle("irq")
    /\ ad.napi
    /\ ad' = [ad EXCEPT !.napi = FALSE]
    /\ Return(t)
    /\ OnlyAdapter

ClearRequests(t) ==
    /\ At(t, "clear_requests")
    /\ ad' = [ad EXCEPT !.reset_requested = FALSE]
    /\ Return(t)
    /\ OnlyAdapter

\* timer_delete_sync waits for a running callback.
DelTimer(t) ==
    /\ At(t, "del_timer")
    /\ Idle("timer")
    /\ ad' = [ad EXCEPT !.timer = FALSE]
    /\ Return(t)
    /\ OnlyAdapter

StopDma(t) ==
    /\ At(t, "stop_dma")
    /\ ad' = [ad EXCEPT !.dma = FALSE]
    /\ Return(t)
    /\ OnlyAdapter

\* A frozen PCI channel cannot be written to; a non-fatal error leaves it on.
ResetOnline(t) ==
    /\ At(t, "reset_online")
    /\ \/ Then(t, <<"reset">>)
       \/ core \in {"slot", "dead"} /\ Return(t)
    /\ OnlyProg

\* ixgbe_clean_all_tx_rings, ixgbe_clean_all_rx_rings: buffers are unmapped
\* and freed, the descriptor memory stays.
Clean(t) ==
    /\ At(t, "clean")
    /\ Return(t)
    /\ OnlyProg
-----------------------------------------------------------------------------
(* ixgbe_up = ixgbe_configure; ixgbe_up_complete, and ixgbe_reinit_locked *)

Up(t) ==
    /\ At(t, "up")
    /\ Then(t, <<"configure", "up_clear", "up_napi", "up_start">>)
    /\ OnlyProg

\* Writes to hardware that is gone are dropped.
Configure(t) ==
    /\ At(t, "configure")
    /\ ad' = [ad EXCEPT !.dma = ~ad.removed]
    /\ Return(t)
    /\ OnlyAdapter

UpClear(t) ==
    /\ At(t, "up_clear")
    /\ ad' = [ad EXCEPT !.down = FALSE]
    /\ Return(t)
    /\ OnlyAdapter

UpNapi(t) ==
    /\ At(t, "up_napi")
    /\ ad' = [ad EXCEPT !.napi = TRUE]
    /\ Return(t)
    /\ OnlyAdapter

UpStart(t) ==
    /\ At(t, "up_start")
    /\ net' = [net EXCEPT !.queues = TRUE]
    /\ ad' = [ad EXCEPT !.timer = TRUE]
    /\ Return(t)
    /\ UNCHANGED <<err, rtnl, work, core>>

ReinitUpOnly == <<"up", "clear_resetting">>
ReinitBody == <<"down", "up", "clear_resetting">>

Reinit(t) ==
    /\ At(t, "reinit")
    /\ ~ad.resetting
    /\ ad' = [ad EXCEPT !.resetting = TRUE]
    /\ Then(t, ReinitBody)
    /\ OnlyAdapter

ResettingLeftSet(a) == a
ResettingCleared(a) == [a EXCEPT !.resetting = FALSE]

ClearResetting(t) ==
    /\ At(t, "clear_resetting")
    /\ ad' = ResettingCleared(ad)
    /\ Return(t)
    /\ OnlyAdapter
-----------------------------------------------------------------------------
(* ixgbe_open and its unwinding, ixgbe_close_suspend, ixgbe_close *)

Open(t) ==
    /\ At(t, "open")
    /\ net' = [net EXCEPT !.carrier = FALSE]
    /\ Then(t, <<"setup">>)
    /\ OnlyNet

\* An allocation fails: for the open the stack asked for ("alloc") or for one
\* the driver does on its own ("reopen").
AllocFails(t) == IF \E i \in DOMAIN prog[t] : prog[t][i] = "opened"
                 THEN MayOccur("alloc") ELSE MayOccur("reopen")

Setup(t) ==
    /\ At(t, "setup")
    /\ \/ /\ AllocFails(t)
          /\ Then(t, <<"reset", "failed">>)
          /\ OnlyProg
       \/ /\ ad' = [ad EXCEPT !.rings = TRUE]
          /\ Then(t, <<"configure", "request_irq">>)
          /\ OnlyAdapter

IrqUnwindKeepsRings == <<"reset", "failed">>
IrqUnwind == <<"free_rings", "reset", "failed">>

RequestIrq(t) ==
    /\ At(t, "request_irq")
    /\ \/ /\ AllocFails(t)
          /\ Then(t, IrqUnwind)
          /\ OnlyProg
       \/ /\ ad' = [ad EXCEPT !.irq = TRUE]
          /\ Then(t, <<"set_queues">>)
          /\ OnlyAdapter

SetQueues(t) ==
    /\ At(t, "set_queues")
    /\ \/ /\ AllocFails(t)
          /\ Then(t, <<"free_irq", "free_rings", "reset", "failed">>)
       \/ Then(t, <<"up_clear", "up_napi", "up_start">>)
    /\ OnlyProg

Failed(t) ==
    /\ At(t, "failed")
    /\ err' = [err EXCEPT ![t] = TRUE]
    /\ Return(t)
    /\ UNCHANGED <<ad, net, rtnl, work, core>>

FreeIrq(t) ==
    /\ At(t, "free_irq")
    /\ ad' = [ad EXCEPT !.irq = FALSE]
    /\ Return(t)
    /\ OnlyAdapter

FreeRings(t) ==
    /\ At(t, "free_rings")
    /\ ad' = [ad EXCEPT !.rings = FALSE]
    /\ Return(t)
    /\ OnlyAdapter

CloseSuspendIrqFirst == <<"free_irq", "down", "free_rings">>
CloseSuspendSteps == <<"down", "free_irq", "free_rings">>

CloseSuspend(t) ==
    /\ At(t, "close_suspend")
    /\ Then(t, CloseSuspendSteps)
    /\ OnlyProg

StopAlways == TRUE
\* A detached device was quiesced by whoever detached it.
StopNeeded == net.present

Close(t) ==
    /\ At(t, "close")
    /\ Then(t, IF StopNeeded THEN <<"close_suspend">> ELSE <<>>)
    /\ OnlyProg
-----------------------------------------------------------------------------
(* The stack, under rtnl: ndo_open, ndo_stop, ndo_change_mtu and the ethtool *)
(* operations that call ixgbe_reinit_locked, ndo_setup_tc.  User threads are *)
(* frozen while the PM core has the device suspended.                        *)

UserRuns == core \notin {"suspended", "resuming", "frozen", "thawing"}

UserCalls(p) ==
    /\ Idle("user")
    /\ UserRuns
    /\ net.listed
    /\ rtnl = "free"
    /\ rtnl' = "user"
    /\ prog' = [prog EXCEPT !["user"] = p]
    /\ UNCHANGED <<ad, err, work, core>>

UserOpen ==
    /\ MayStart("open")
    /\ ~net.running
    /\ net.present
    /\ UserCalls(<<"open", "opened", "unlock">>)
    /\ net' = [net EXCEPT !.running = TRUE]

UserClose ==
    /\ MayStart("close")
    /\ net.running
    /\ UserCalls(<<"close", "unlock">>)
    /\ net' = [net EXCEPT !.running = FALSE]

UserReinit ==
    /\ MayStart("reinit")
    /\ net.running
    /\ net.present
    /\ UserCalls(<<"reinit", "unlock">>)
    /\ UNCHANGED net

\* ixgbe_setup_tc closes and opens a running port and drops the result of
\* the open; a port that is not running is reset.
UserSetupTc ==
    /\ MayStart("setup_tc")
    /\ net.present
    /\ UserCalls(IF net.running THEN <<"close", "open", "unlock">>
                                ELSE <<"reset", "unlock">>)
    /\ UNCHANGED net

\* __dev_open takes a failed ndo_open back.
Opened(t) ==
    /\ At(t, "opened")
    /\ net' = IF err[t] THEN [net EXCEPT !.running = FALSE] ELSE net
    /\ err' = [err EXCEPT ![t] = FALSE]
    /\ Return(t)
    /\ UNCHANGED <<ad, rtnl, work, core>>
-----------------------------------------------------------------------------
(* ixgbe_service_event_schedule: the state test and the queueing are not     *)
(* atomic.  A caller passes the test and queues one step later.              *)

MayQueue == ~ad.down /\ ~ad.removing

Schedule(t) == prog' = [prog EXCEPT ![t] = IF MayQueue THEN <<"queue">> ELSE <<>>]

\* test_and_set_bit(__IXGBE_SERVICE_SCHED) and queue_work.
Queue(t) ==
    /\ At(t, "queue")
    /\ ad' = [ad EXCEPT !.service_sched = TRUE]
    /\ work' = IF ad.service_sched THEN work ELSE "queued"
    /\ Return(t)
    /\ UNCHANGED <<net, err, rtnl, core>>

\* ixgbe_service_timer re-arms itself and schedules.
TimerFires ==
    /\ ad.timer
    /\ Idle("timer")
    /\ Schedule("timer")
    /\ OnlyProg

\* ixgbe_msix_other or the Tx hang test ask for a reset and schedule.
IrqResetRequest ==
    /\ MayOccur("reset_irq")
    /\ ad.napi /\ ad.irq
    /\ Idle("irq")
    /\ ad' = [ad EXCEPT !.reset_requested = TRUE]
    /\ Schedule("irq")
    /\ OnlyAdapter

\* ixgbe_check_remove finds all ones: ixgbe_remove_adapter drops hw_addr and
\* schedules the service task.
SurpriseRemoved ==
    /\ MayOccur("surprise")
    /\ ~ad.removed
    /\ core # "gone"
    /\ Idle("reader")
    /\ ad' = [ad EXCEPT !.removed = TRUE, !.dma = FALSE]
    /\ Schedule("reader")
    /\ OnlyAdapter
-----------------------------------------------------------------------------
(* ixgbe_service_task *)

UnregisterSteps == <<"lock", "unregister", "unlock", "unregistered">>

ServiceStart ==
    /\ work = "queued"
    /\ Idle("svc")
    /\ work' = "running"
    /\ prog' = [prog EXCEPT !["svc"] = <<"top">>]
    /\ UNCHANGED <<ad, net, err, rtnl, core>>

\* Removed hardware, firmware in recovery mode, or the list of subtasks.
ServiceTop(t) ==
    /\ At(t, "top")
    /\ \/ /\ ad.removed
          /\ Then(t, (IF ad.down THEN <<>> ELSE <<"lock", "down", "unlock">>)
                     \o <<"complete">>)
       \/ /\ ~ad.removed
          /\ MayOccur("fw_error")
          /\ Then(t, (IF ad.down THEN <<>> ELSE UnregisterSteps)
                     \o <<"complete">>)
       \/ /\ ~ad.removed
          /\ Then(t, <<"fw_events", "reset_task", "sfp", "watchdog",
                       "complete">>)
    /\ OnlyProg

\* An E610 over-temperature event closes the port from the service task.
FwEvents(t) ==
    /\ At(t, "fw_events")
    /\ \/ Return(t)
       \/ MayOccur("tca") /\ Then(t, <<"close">>)
    /\ OnlyProg

ResetUnlocked == <<"reset_check">>
ResetLocked == <<"lock", "reset_check", "unlock">>

ResetTask(t) ==
    /\ At(t, "reset_task")
    /\ ad' = [ad EXCEPT !.reset_requested = FALSE]
    /\ Then(t, IF ad.reset_requested THEN ResetLocked ELSE <<>>)
    /\ OnlyAdapter

\* "If we're already down, removing or resetting, just bail".
ResetBails == ad.down \/ ad.removing \/ ad.resetting

ResetCheck(t) ==
    /\ At(t, "reset_check")
    /\ Then(t, IF ResetBails THEN <<>> ELSE <<"reinit">>)
    /\ OnlyProg

\* ixgbe_sfp_detection_subtask and ixgbe_sfp_link_config_subtask: only when
\* a module is searched for or was plugged, and only when nobody else is in.
Sfp(t) ==
    /\ At(t, "sfp")
    /\ \/ Return(t) /\ UNCHANGED ad
       \/ /\ MayOccur("sfp")
          /\ ~ad.sfp_init
          /\ ad' = [ad EXCEPT !.sfp_init = TRUE]
          /\ Then(t, <<"sfp_done">>)
    /\ OnlyAdapter

\* An unsupported module unregisters the interface.
SfpDone(t) ==
    /\ At(t, "sfp_done")
    /\ ad' = [ad EXCEPT !.sfp_init = FALSE]
    /\ \/ Return(t)
       \/ /\ MayOccur("bad_sfp")
          /\ net.registered
          /\ Then(t, UnregisterSteps)
    /\ OnlyAdapter

Watchdog(t) ==
    /\ At(t, "watchdog")
    /\ Then(t, IF ad.down \/ ad.removing \/ ad.resetting THEN <<>>
               ELSE <<"update_link", "flush_tx">>)
    /\ OnlyProg

\* ixgbe_watchdog_update_link: the link is up or it is not.
UpdateLink(t) ==
    /\ At(t, "update_link")
    /\ \/ Then(t, <<"link_test">>)
       \/ Then(t, IF net.carrier THEN <<"carrier_off">> ELSE <<>>)
    /\ OnlyProg

\* ixgbe_watchdog_link_is_up: tests __IXGBE_DOWN, later acts on the answer.
LinkTest(t) ==
    /\ At(t, "link_test")
    /\ Then(t, IF ad.down \/ net.carrier THEN <<>> ELSE <<"carrier_on", "wake">>)
    /\ OnlyProg

CarrierOn(t) ==
    /\ At(t, "carrier_on")
    /\ net' = [net EXCEPT !.carrier = TRUE]
    /\ Return(t)
    /\ OnlyNet

Wake(t) ==
    /\ At(t, "wake")
    /\ net' = [net EXCEPT !.queues = TRUE]
    /\ Return(t)
    /\ OnlyNet

\* ixgbe_watchdog_link_is_down.
CarrierOff(t) ==
    /\ At(t, "carrier_off")
    /\ net' = [net EXCEPT !.carrier = FALSE, !.queues = FALSE]
    /\ Return(t)
    /\ OnlyNet

\* ixgbe_watchdog_flush_tx: descriptors left without carrier.
FlushTx(t) ==
    /\ At(t, "flush_tx")
    /\ \/ UNCHANGED ad
       \/ /\ MayOccur("hung")
          /\ ~net.carrier
          /\ ad' = [ad EXCEPT !.reset_requested = TRUE]
    /\ Return(t)
    /\ OnlyAdapter

SchedLeftSet(a) == a
SchedCleared(a) == [a EXCEPT !.service_sched = FALSE]

\* ixgbe_service_event_complete.
Complete(t) ==
    /\ At(t, "complete")
    /\ ad' = SchedCleared(ad)
    /\ work' = "idle"
    /\ Return(t)
    /\ UNCHANGED <<net, err, rtnl, core>>

\* unregister_netdev closes a running interface.
Unregister(t) ==
    /\ At(t, "unregister")
    /\ net' = [net EXCEPT !.running = FALSE, !.listed = FALSE]
    /\ Then(t, IF net.running THEN <<"close">> ELSE <<>>)
    /\ OnlyNet

Unregistered(t) ==
    /\ At(t, "unregistered")
    /\ net' = [net EXCEPT !.registered = FALSE]
    /\ Return(t)
    /\ OnlyNet
-----------------------------------------------------------------------------
(* The PCI and PM cores, serialised by the device lock.  core records where  *)
(* their protocol is: "suspended" after suspend, "frozen" after freeze,      *)
(* "slot" after error_detected asked for a reset, "resume" after slot_reset, *)
(* "dead" when recovery gave up, "gone" after remove.                        *)

PciCalls(p, c) ==
    /\ Idle("pci")
    /\ prog' = [prog EXCEPT !["pci"] = p]
    /\ core' = c
    /\ UNCHANGED <<ad, net, err, rtnl, work>>

\* The PM core starts with the user threads frozen.
PmCalls(p, c) == Idle("user") /\ PciCalls(p, c)

Suspend ==
    /\ MayStart("suspend")
    /\ core = "on"
    /\ PmCalls(<<"lock", "detach", "quit_running", "unlock", "disable_pci">>,
               "suspended")

Resume ==
    /\ core = "suspended"
    /\ PciCalls(<<"enable_pci", "reset", "lock", "reopen", "attach_ok",
                  "unlock">>, "resuming")

Freeze ==
    /\ MayStart("freeze")
    /\ core = "on"
    /\ PmCalls(<<"lock", "detach", "freeze_running", "unlock">>, "frozen")

Thaw ==
    /\ core = "frozen"
    /\ PciCalls(<<"thaw_irq">>, "thawing")

\* The PM core is done with the device and lets the user threads go.
PmDone ==
    /\ core \in {"resuming", "thawing"}
    /\ PciCalls(<<>>, "on")

\* ixgbe_io_error_detected: a detached device is given up.
ErrorDetected ==
    /\ MayStart("aer")
    /\ core = "on"
    /\ \/ /\ net.present
          /\ PciCalls(<<"lock", "detach", "quit_running", "aer_disable",
                        "unlock">>, "slot")
       \/ ~net.present /\ PciCalls(<<>>, "dead")

\* ixgbe_io_slot_reset.
SlotReset ==
    /\ core = "slot"
    /\ PciCalls(<<"enable_pci", "reset">>, "resume")

\* ixgbe_io_resume drops the result of ixgbe_open.
IoResume ==
    /\ core = "resume"
    /\ PciCalls(<<"lock", "reopen", "attach", "unlock">>, "on")

Remove ==
    /\ MayStart("remove")
    /\ core \in {"on", "dead"}
    /\ PciCalls(<<"set_removing", "cancel_work", "unregister_if", "teardown">>,
                "gone")

Detach(t) ==
    /\ At(t, "detach")
    /\ net' = [net EXCEPT !.present = FALSE, !.queues = FALSE]
    /\ Return(t)
    /\ OnlyNet

QuitRunning(t) ==
    /\ At(t, "quit_running")
    /\ Then(t, IF net.running THEN <<"close_suspend">> ELSE <<>>)
    /\ OnlyProg

FreezeRunning(t) ==
    /\ At(t, "freeze_running")
    /\ Then(t, IF net.running THEN <<"down", "free_irq">> ELSE <<>>)
    /\ OnlyProg

\* test_and_set_bit(__IXGBE_DISABLED) guards pci_disable_device.
DisableAlways == ad.pci_enabled - 1
DisableOnce == IF ad.disabled THEN ad.pci_enabled ELSE ad.pci_enabled - 1

DisablePci(t) ==
    /\ At(t, "disable_pci")
    /\ ad' = [ad EXCEPT !.disabled = TRUE, !.pci_enabled = DisableOnce]
    /\ Return(t)
    /\ OnlyAdapter

\* A permanent failure disconnects without disabling the device.
AerDisable(t) ==
    /\ At(t, "aer_disable")
    /\ \/ /\ ad' = [ad EXCEPT !.disabled = TRUE, !.pci_enabled = DisableOnce]
          /\ UNCHANGED core
       \/ core' = "dead" /\ UNCHANGED ad
    /\ Return(t)
    /\ UNCHANGED <<net, err, rtnl, work>>

EnabledStillMarked(a) == [a EXCEPT !.removed = FALSE, !.pci_enabled = @ + 1]
Enabled(a) == [a EXCEPT !.disabled = FALSE, !.removed = FALSE,
                        !.pci_enabled = @ + 1]

\* pci_enable_device_mem; its failure ends the slot reset, or the resume,
\* which has put hw_addr back before.
EnablePci(t) ==
    /\ At(t, "enable_pci")
    /\ \/ /\ ad' = Enabled(ad)
          /\ Return(t)
          /\ UNCHANGED core
       \/ /\ IF core = "resume" THEN MayOccur("enable")
                             ELSE MayOccur("resume")
          /\ prog' = [prog EXCEPT ![t] = <<>>]
          /\ core' = IF core = "resume" THEN "dead" ELSE core
          /\ ad' = IF core = "resume" THEN ad ELSE [ad EXCEPT !.removed = FALSE]
    /\ UNCHANGED <<net, err, rtnl, work>>

Reopen(t) ==
    /\ At(t, "reopen")
    /\ Then(t, IF net.running THEN <<"open">> ELSE <<>>)
    /\ OnlyProg

\* netif_device_attach wakes the queues of a running interface.
AttachTo(n) == [n EXCEPT !.present = TRUE, !.queues = @ \/ n.running]

Attach(t) ==
    /\ At(t, "attach")
    /\ net' = AttachTo(net)
    /\ err' = [err EXCEPT ![t] = FALSE]
    /\ Return(t)
    /\ UNCHANGED <<ad, rtnl, work, core>>

AttachOk(t) ==
    /\ At(t, "attach_ok")
    /\ net' = IF err[t] THEN net ELSE AttachTo(net)
    /\ err' = [err EXCEPT ![t] = FALSE]
    /\ Return(t)
    /\ UNCHANGED <<ad, rtnl, work, core>>

\* ixgbe_thaw runs without rtnl; a failed request_irq leaves the device
\* detached.
ThawIrq(t) ==
    /\ At(t, "thaw_irq")
    /\ \/ /\ net.running
          /\ ad' = [ad EXCEPT !.irq = TRUE]
          /\ Then(t, <<"up", "attach">>)
       \/ ~net.running /\ Then(t, <<"attach">>) /\ UNCHANGED ad
       \/ net.running /\ MayOccur("irq") /\ Return(t) /\ UNCHANGED ad
    /\ OnlyAdapter

\* ixgbe_remove.
SetRemoving(t) ==
    /\ At(t, "set_removing")
    /\ ad' = [ad EXCEPT !.removing = TRUE]
    /\ Return(t)
    /\ OnlyAdapter

\* cancel_work_sync takes queued work off the queue, waits for running work.
CancelWork(t) ==
    /\ At(t, "cancel_work")
    /\ work # "running"
    /\ work' = "idle"
    /\ Return(t)
    /\ UNCHANGED <<ad, net, err, rtnl, core>>

UnregisterIf(t) ==
    /\ At(t, "unregister_if")
    /\ Then(t, IF net.registered THEN UnregisterSteps ELSE <<>>)
    /\ OnlyProg

Teardown(t) ==
    /\ At(t, "teardown")
    /\ ad' = [ad EXCEPT !.disabled = TRUE, !.pci_enabled = DisableOnce]
    /\ Return(t)
    /\ OnlyAdapter
-----------------------------------------------------------------------------
Call(t) ==
    \/ Lock(t) \/ Unlock(t) \/ Reset(t) \/ InitHw(t)
    \/ Down(t) \/ StopTx(t) \/ Quiesce(t) \/ ClearRequests(t) \/ DelTimer(t)
    \/ StopDma(t) \/ ResetOnline(t) \/ Clean(t)
    \/ Up(t) \/ Configure(t) \/ UpClear(t) \/ UpNapi(t) \/ UpStart(t)
    \/ Reinit(t) \/ ClearResetting(t)
    \/ Open(t) \/ Setup(t) \/ RequestIrq(t) \/ SetQueues(t) \/ Failed(t)
    \/ FreeIrq(t) \/ FreeRings(t) \/ CloseSuspend(t) \/ Close(t)

UserStep ==
    \/ Call("user") \/ Opened("user")

ServiceStep ==
    \/ Call("svc")
    \/ ServiceTop("svc") \/ FwEvents("svc") \/ ResetTask("svc")
    \/ ResetCheck("svc") \/ Sfp("svc") \/ SfpDone("svc") \/ Watchdog("svc")
    \/ UpdateLink("svc") \/ LinkTest("svc") \/ CarrierOn("svc") \/ Wake("svc")
    \/ CarrierOff("svc") \/ FlushTx("svc") \/ Complete("svc")
    \/ Unregister("svc") \/ Unregistered("svc")

PciStep ==
    \/ Call("pci")
    \/ Detach("pci") \/ QuitRunning("pci") \/ FreezeRunning("pci")
    \/ DisablePci("pci") \/ AerDisable("pci") \/ EnablePci("pci")
    \/ Reopen("pci") \/ Attach("pci") \/ AttachOk("pci") \/ ThawIrq("pci")
    \/ SetRemoving("pci") \/ CancelWork("pci") \/ UnregisterIf("pci")
    \/ Unregister("pci") \/ Unregistered("pci") \/ Teardown("pci")

User == UserOpen \/ UserClose \/ UserReinit \/ UserSetupTc

Pci == \/ Suspend \/ Resume \/ Freeze \/ Thaw \/ PmDone
       \/ ErrorDetected \/ SlotReset \/ IoResume \/ Remove

Callbacks == TimerFires \/ IrqResetRequest \/ SurpriseRemoved

\* The driver is gone, or over-temperature closed its port, and nothing of
\* it is left to run.
Finished ==
    /\ core = "gone" \/ (hot /\ ad.down)
    /\ \A t \in Threads : Idle(t)
    /\ work = "idle"
    /\ UNCHANGED vars

Next ==
    \/ User \/ UserStep
    \/ Pci \/ PciStep
    \/ ServiceStart \/ ServiceStep
    \/ Callbacks
    \/ \E t \in {"timer", "irq", "reader"} : Queue(t)
    \/ Finished

Spec == Init /\ [][Next /\ UNCHANGED hot]_<<vars, hot>>

\* The rtnl mutex is handed on, the spins on __IXGBE_IN_SFP_INIT and the waits
\* for a callback sleep between tries, the workqueue runs what is queued and
\* an armed timer expires.  Nobody has to start an operation.
FairSpec ==
    /\ Spec
    /\ SF_vars(UserStep) /\ SF_vars(PciStep) /\ SF_vars(ServiceStep)
    /\ WF_vars(ServiceStart)
    /\ WF_vars(TimerFires)
    /\ \A t \in {"timer", "irq", "reader"} : WF_vars(Queue(t))
-----------------------------------------------------------------------------
\* Types of all variables.
TypeOK ==
    /\ ad \in Adapter
    /\ net \in NetDevice
    /\ prog \in [Threads -> Seq(Steps)]
    /\ err \in [Threads -> BOOLEAN]
    /\ rtnl \in Threads \cup {"free"}
    /\ work \in {"idle", "queued", "running"}
    /\ core \in {"on", "suspended", "resuming", "frozen", "thawing", "slot",
                 "resume", "dead", "gone"}
    /\ hot \in BOOLEAN

\* A thread is inside ixgbe_down, ixgbe_up or ixgbe_up_complete.
UpOrDown(t) == \E i \in DOMAIN prog[t] : prog[t][i] \in DownSteps \cup UpSteps

\* Two threads are never inside ixgbe_up or ixgbe_down together, although
\* user ioctls, the service task's reset and its removal path, error
\* recovery and driver removal all call them.  (An over-temperature event is
\* the exception: the service task closes the port without the rtnl mutex.)
Serialised ==
    ~hot => \A t, u \in Threads : UpOrDown(t) /\ UpOrDown(u) => t = u

\* A port that is not __IXGBE_DOWN has its rings and interrupts: what open
\* allocates "for transmit and receive operations" is there whenever the
\* interrupt handler, the poll and the service task may use it.
UpIsBacked == ~ad.down => ad.irq /\ ad.rings

\* ixgbe_napi_enable_all only meets disabled NAPI instances (napi_enable
\* stops the kernel on an enabled one).
NapiPaired == \A t \in Threads : At(t, "up_napi") => ~ad.napi

\* ixgbe_free_irq frees "only the irqs that were actually requested".
FreesOnlyRequested == \A t \in Threads : At(t, "free_irq") => ad.irq

\* The error path of ixgbe_open, which resets the hardware after it has freed
\* the rings.
Unwinding(t) == \E i \in DOMAIN prog[t] : prog[t][i] = "failed"

\* Ring buffers are unmapped (ixgbe_clean_all_*_rings) and ring memory is
\* freed only when the device no longer does DMA into it, except while
\* ixgbe_open unwinds.
FreedOnlyStopped ==
    \A t \in Threads :
        (At(t, "clean") \/ At(t, "free_rings")) /\ ~Unwinding(t) => ~ad.dma

\* pci_enable_device and pci_disable_device stay balanced through suspend,
\* error recovery and removal: __IXGBE_DISABLED says which comes next.
PciBalanced == ad.pci_enabled = IF ad.disabled THEN 0 ELSE 1

\* What a port that is up rests on, while threads take it up and down: NAPI
\* is enabled once, and rings and interrupts are there until __IXGBE_DOWN is
\* set.
UpSound == UpIsBacked /\ NapiPaired

Resting == rtnl = "free" /\ Idle("pci") /\ Idle("user")

\* After ixgbe_close, by whatever path the interface was taken down, "all
\* transmit and receive resources are freed": no ring, no interrupt, no
\* timer and no DMA is left.
ClosedIsFreed ==
    Resting /\ ~net.running =>
        ad.down /\ ~ad.irq /\ ~ad.rings /\ ~ad.timer /\ ~ad.dma

\* Whatever is taken down is taken down by one thread, once, in a safe order
\* and completely: interrupts that were requested, rings the device no longer
\* uses, PCI access as often as it was enabled, and nothing is left behind by
\* ixgbe_close.
DownSound ==
    /\ Serialised
    /\ FreesOnlyRequested /\ FreedOnlyStopped /\ PciBalanced
    /\ ClosedIsFreed

\* The watchdog's use of __IXGBE_DOWN "as a semaphore": the carrier is not
\* turned on while the port is down.
CarrierKept == [][ad.down => (net'.carrier => net.carrier)]_vars

\* Nothing waits for ever: every operation of the stack, of the PCI core and
\* every run of the service task ends, whatever mutex, bit or callback it
\* waits for.
OpsFinish == \A t \in {"user", "pci", "svc"} : ~Idle(t) ~> Idle(t)

\* A reset requested by an interrupt or the Tx hang test on a port that is up
\* takes the port down; it is not lost between ixgbe_reset_subtask's
\* test_and_clear_bit and its second look at the state.
ResetServed == ad.reset_requested /\ ~ad.down ~> ad.down
=============================================================================
