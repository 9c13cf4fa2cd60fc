------------------------------- MODULE Probe -------------------------------
(***************************************************************************)
(* ixgbe_probe, ixgbe_recovery_probe and ixgbe_remove: what the driver     *)
(* holds of one PCI function as it binds, when one of the steps fails, and *)
(* when it unbinds, possibly after the error handler has disabled the      *)
(* device. The error path is a ladder of labels that fall through to the   *)
(* ones below; a step that fails jumps to its label.                       *)
(* The kernel is one without pci_enable_pcie_error_reporting and with      *)
(* devlink parameters that are registered before the instance.             *)
(***************************************************************************)
EXTENDS Naturals, Sequences

CONSTANT
    Kinds    \* the devices: "82599", "X550" and "E610"

VARIABLES
    kind,
    pstep,   \* "probe", "recovery", "unwind", "bound", "failed", "gone"
    at,      \* the next stage, or the label reached
    holds,   \* what is held
    off      \* __IXGBE_DISABLED

pvars == <<kind, pstep, at, holds, off>>

E610Only == {"devlink", "aci", "fwlog", "port", "params", "dlreg", "ptp"}

\* The stages of ixgbe_probe: what each one gets and the label it jumps to when
\* it fails. A stage that cannot fail, or whose failure is only reported, has none.
Stage(gets, fails) == [gets |-> gets, fails |-> fails]
BusStages == <<
    Stage({"pci"}, "return"),
    Stage({}, "err_dma"),
    Stage({"regions"}, "err_dma"),
    Stage({"netdev"}, "err_alloc_etherdev"),
    Stage({"map"}, "err_ioremap"),
    Stage({"devlink"}, "err_ioremap"),
    Stage({"hwctl"}, "none") >>

DeviceStages == <<
    Stage({"tables"}, "err_sw_init"),
    Stage({}, "recovery"),                 \* ixgbe_check_fw_error
    Stage({"aci"}, "none"),
    Stage({"fwlog"}, "ignored"),
    Stage({}, "err_sw_init") >>            \* reset_hw

NetdevStages == <<
    Stage({"vfs"}, "ignored"),
    Stage({}, "err_sw_init"),              \* the EEPROM checksum and the address
    Stage({}, "err_aci_lock"),             \* the device is gone
    Stage({"irq"}, "err_aci_lock"),
    Stage({}, "err_hw_init"),              \* start_hw
    Stage({"port"}, "ignored"),
    Stage({"registered"}, "err_register") >>

LateStages == <<
    Stage({"files"}, "none"),              \* SAN address, sysfs, debugfs
    Stage({"params"}, "err_devlink_register"),
    Stage({"dlreg"}, "none"),
    Stage({"ptp"}, "none") >>

Stages == BusStages \o DeviceStages \o NetdevStages \o LateStages

RecoveryStages == <<
    Stage({"aci"}, "none"),
    Stage({}, "shutdown_aci"),             \* ixgbe_init_nvm
    Stage({"port"}, "ignored"),
    Stage({"params"}, "unregister_devlink"),
    Stage({"dlreg"}, "none") >>

\* The labels in the order of the code, with what each one releases.
Label(name, frees) == [name |-> name, frees |-> frees]
Labels == <<
    Label("err_devlink_register", {}),
    Label("err_register", {"port"}),
    Label("err_hw_init", {"irq", "fwlog"}),
    Label("err_aci_lock", {"aci"}),
    Label("err_sw_init", {"hwctl", "vfs", "tables", "map", "devlink"}),
    Label("err_ioremap", {"netdev"}),
    Label("err_alloc_etherdev", {"regions"}),
    Label("err_dma", {"pci"}) >>

RecoveryLabels == <<
    Label("unregister_devlink", {"port"}),
    Label("shutdown_aci", {"aci", "devlink"}),
    Label("clean_up_probe", {"hwctl", "netdev", "regions", "pci"}) >>

Ladder == Labels \o RecoveryLabels
Place(l) == CHOOSE i \in 1..Len(Ladder) : Ladder[i].name = l
EndOf(i) == IF i <= Len(Labels) THEN Len(Labels) ELSE Len(Ladder)

\* The stages of the probe that is running, for this device.
Running == IF pstep = "recovery" THEN RecoveryStages ELSE Stages
Skipped(s) == s.gets # {} /\ s.gets \subseteq E610Only /\ kind # "E610"

-----------------------------------------------------------------------------
Init ==
    /\ kind \in Kinds
    /\ pstep = "probe" /\ at = 1
    /\ holds = {} /\ off = FALSE

\* The stage succeeds, or fails without consequence.
StageDone ==
    /\ pstep \in {"probe", "recovery"}
    /\ at <= Len(Running)
    /\ LET s == Running[at]
       IN \E got \in IF Skipped(s) THEN {{}}
                     ELSE IF s.fails = "ignored" THEN {s.gets, {}} ELSE {s.gets} :
            holds' = holds \cup got
    /\ at' = at + 1
    /\ UNCHANGED <<kind, pstep, off>>

StageFails ==
    /\ pstep \in {"probe", "recovery"}
    /\ at <= Len(Running)
    /\ LET s == Running[at]
       IN /\ ~Skipped(s)
          /\ s.fails \notin {"none", "ignored", "recovery"}
          /\ IF s.fails = "return" THEN pstep' = "failed" /\ at' = 0
             ELSE pstep' = "unwind" /\ at' = Place(s.fails)
    /\ UNCHANGED <<kind, holds, off>>

\* ixgbe_check_fw_error: the device is only kept if it can be managed. The
\* 82599 has no fw_recovery_mode.
FwRecovery ==
    /\ pstep = "probe"
    /\ at <= Len(Stages)
    /\ Stages[at].fails = "recovery"
    /\ kind # "82599"
    /\ IF kind = "E610" THEN pstep' = "recovery" /\ at' = 1
       ELSE pstep' = "unwind" /\ at' = Place("clean_up_probe")
    /\ UNCHANGED <<kind, holds, off>>

Bind ==
    /\ pstep \in {"probe", "recovery"}
    /\ at > Len(Running)
    /\ pstep' = "bound" /\ at' = 0
    /\ UNCHANGED <<kind, holds, off>>

\* One label; the labels under it follow.
UnwindShort(i) == Ladder[i].frees \ {"irq"}
UnwindOne(i) == Ladder[i].frees
Unwind ==
    /\ pstep = "unwind"
    /\ holds' = holds \ UnwindOne(at)
    /\ IF at = EndOf(at) THEN pstep' = "failed" /\ at' = 0
       ELSE at' = at + 1 /\ UNCHANGED pstep
    /\ UNCHANGED <<kind, off>>

\* ixgbe_io_error_detected, or a suspend, disables the device, and slot_reset or
\* resume enables it.
Detach ==
    /\ pstep = "bound" /\ ~off
    /\ off' = TRUE
    /\ holds' = holds \ {"pci"}
    /\ UNCHANGED <<kind, pstep, at>>

Reattach ==
    /\ pstep = "bound" /\ off
    /\ off' = FALSE
    /\ holds' = holds \cup {"pci"}
    /\ UNCHANGED <<kind, pstep, at>>

\* ixgbe_remove. What was not taken is skipped: the netdev by its own flag,
\* the device by __IXGBE_DISABLED, the rest because their release accepts it.
RemoveFrees ==
    {"ptp", "dlreg", "params", "fwlog", "files", "aci", "vfs", "registered",
     "port", "devlink", "irq", "hwctl", "map", "regions", "tables", "netdev"}
RemoveAll == RemoveFrees \cup (IF off THEN {} ELSE {"pci"})
Remove ==
    /\ pstep = "bound"
    /\ pstep' = "gone"
    /\ holds' = holds \ RemoveAll
    /\ off' = TRUE
    /\ UNCHANGED <<kind, at>>

Next ==
    \/ StageDone \/ StageFails \/ FwRecovery \/ Bind
    \/ Unwind \/ Detach \/ Reattach \/ Remove

Spec == Init /\ [][Next]_pvars

-----------------------------------------------------------------------------
Things == UNION {Stages[i].gets : i \in 1..Len(Stages)}
TypeOK ==
    /\ kind \in Kinds
    /\ pstep \in {"probe", "recovery", "unwind", "bound", "failed", "gone"}
    /\ holds \subseteq Things
    /\ off \in BOOLEAN

\* Nothing of the function is held once ixgbe_remove has run, whichever probe
\* bound it, whichever of its parts failed, and whether or not the error handler
\* had disabled the device before; nor after any failed probe of an 82599.
Unbound ==
    /\ pstep = "gone" => holds = {}
    /\ pstep = "failed" /\ kind = "82599" => holds = {}

\* A probe that fails has released what it had taken: ixgbe_remove relies on it
\* ("if !adapter then we already cleaned up in probe").
ProbeCleans == pstep = "failed" => holds = {}
=============================================================================
