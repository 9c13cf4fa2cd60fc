------------------------------ MODULE NvmUpdate -----------------------------
(***************************************************************************)
(* Flashing the E610 (ixgbe_fw_update.c, devlink of ixgbe_devlink.c, the   *)
(* NVM commands of ixgbe_e610.c).  The functions of one device share the   *)
(* flash; each runs one devlink operation at a time and takes the NVM      *)
(* resource, which the firmware takes back when its time (180 s, less than *)
(* an erase may last) is over.  An image is written to the inactive banks  *)
(* of its components, which the firmware marks for activation at the end   *)
(* and boots from after the next reset.                                    *)
(*                                                                         *)
(* The firmware is external: it carries out flash commands of the owner of *)
(* the resource only, and erases a bank that is marked for activation only *)
(* after the mark was reverted ("In order to allow overwriting a previous  *)
(* pending update, notify firmware to cancel that update").                *)
(***************************************************************************)
EXTENDS Naturals, FiniteSets

CONSTANTS
    PFs,          \* the functions of the device
    NComps,       \* components of an image, in its order; 1 is fw.mgmt
    NBlocks,      \* blocks of a component
    Levels,       \* IXGBE_ACI_NVM_*_FLAG: the resets that the firmware may require
    MaxUpdates,   \* bound: operations of devlink
    MaxFaults     \* bound: commands that fail, expiries and resets

VARIABLES
    fn,           \* per function: where its operation stands
    disabled,     \* per function: fw_emp_reset_disabled
    owner,        \* firmware: the function that owns the NVM, or Nobody
    bank,         \* firmware: the writer and the blocks of an inactive bank
    pending,      \* firmware: components marked for activation
    required,     \* firmware: the reset that the new fw.mgmt requires
    avoidance,    \* common_cap.pcie_reset_avoidance
    told,         \* the reset that the user was told to make
    updates, faults

flash == <<owner, bank, pending>>
caps == <<required, avoidance>>
nvars == <<fn, disabled, flash, caps, told, updates, faults>>

Comps == 1 .. NComps
Nobody == "nobody"
Factory == [by |-> Nobody, n |-> NBlocks]
Idle == [at |-> "idle", c |-> 1, b |-> 0, seen |-> {}, level |-> 0]

Points == {"idle", "pending", "cacquire", "revert", "crelease", "acquire",
           "package", "table", "erase", "write", "finalize", "release",
           "macquire", "mread", "mwrite", "mactivate"}

TypeOK ==
    /\ fn \in [PFs -> [at : Points, c : Comps, b : 0 .. NBlocks - 1,
                       seen : SUBSET Comps, level : 0 .. 3]]
    /\ disabled \in [PFs -> BOOLEAN]
    /\ owner \in PFs \cup {Nobody} /\ pending \subseteq Comps
    /\ bank \in [Comps -> [by : PFs \cup {Nobody, "mixed"}, n : 0 .. NBlocks]]
    /\ required \in Levels /\ avoidance \in BOOLEAN /\ told \in 0 .. 4
    /\ updates \in 0 .. MaxUpdates /\ faults \in 0 .. MaxFaults

Untold == 4

Init ==
    /\ fn = [p \in PFs |-> Idle] /\ disabled = [p \in PFs |-> FALSE]
    /\ owner = Nobody /\ bank = [c \in Comps |-> Factory] /\ pending = {}
    /\ required \in Levels /\ avoidance \in BOOLEAN /\ told = Untold
    /\ updates = 0 /\ faults = 0

-----------------------------------------------------------------------------
At(p, l) == fn[p].at = l
Go(p, l) == fn' = [fn EXCEPT ![p] = IF l = "idle" THEN Idle ELSE [@ EXCEPT !.at = l]]

\* ixgbe_aci_send_cmd: the answer to a command of p.  "ok": the firmware did
\* it; "refused": it did not; "late": it did, and the driver saw an error.
Answers == {"ok", "refused", "late"}
Command(p, ans) ==
    /\ ans = "ok" => owner = p
    /\ ans = "late" => owner = p /\ faults < MaxFaults
    /\ ans = "refused" => owner # p \/ faults < MaxFaults
    /\ faults' = IF ans = "ok" \/ owner # p THEN faults ELSE faults + 1
Done(ans) == ans \in {"ok", "late"}

\* ixgbe_flash_pldm_image, ixgbe_devlink_minsrev_set.
Begin(p, l) ==
    /\ At(p, "idle") /\ updates < MaxUpdates
    /\ updates' = updates + 1
    /\ Go(p, l)
    /\ UNCHANGED <<disabled, flash, caps, told, faults>>

\* ixgbe_get_pending_updates, without the resource.
Pending(p) ==
    /\ At(p, "pending")
    /\ fn' = [fn EXCEPT ![p] = [@ EXCEPT !.seen = pending,
                    !.at = IF pending = {} THEN "acquire" ELSE "cacquire"]]
    /\ UNCHANGED <<disabled, flash, caps, told, updates, faults>>

\* ixgbe_acquire_nvm: polls while another function owns the resource, and
\* gives up when the time that the firmware named is over.
NextPoint(l) ==
    CASE l = "acquire" -> "package" [] l = "cacquire" -> "revert" [] OTHER -> "mread"

Acquire(p, ok) ==
    /\ fn[p].at \in {"acquire", "cacquire", "macquire"}
    /\ IF ok THEN owner = Nobody /\ owner' = p /\ Go(p, NextPoint(fn[p].at))
             ELSE owner # Nobody /\ owner' = owner /\ Go(p, "idle")
    /\ UNCHANGED <<disabled, bank, pending, caps, told, updates, faults>>

\* ixgbe_release_nvm: the firmware ignores a function that is not the owner;
\* if the command keeps timing out, the owner keeps the resource.
Released(p) == IF owner = p THEN Nobody ELSE owner

Release(p) ==
    /\ At(p, "release")
    /\ owner' = Released(p)
    /\ Go(p, "idle")
    /\ UNCHANGED <<disabled, bank, pending, caps, told, updates, faults>>

\* ixgbe_cancel_pending_update.
Revert(p, ans) ==
    /\ At(p, "revert") /\ Command(p, ans)
    /\ pending' = IF Done(ans) THEN pending \ fn[p].seen ELSE pending
    /\ Go(p, IF ans = "ok" THEN "crelease" ELSE "release")
    /\ disabled' = [disabled EXCEPT ![p] = FALSE]
    /\ UNCHANGED <<owner, bank, caps, told, updates>>

CancelRelease(p) ==
    /\ At(p, "crelease")
    /\ owner' = Released(p)
    /\ Go(p, "acquire")
    /\ UNCHANGED <<disabled, bank, pending, caps, told, updates, faults>>

\* ixgbe_send_package_data.
SendPackage(p, ans) ==
    /\ At(p, "package") /\ Command(p, ans)
    /\ Go(p, IF ans = "ok" THEN "table" ELSE "release")
    /\ UNCHANGED <<disabled, flash, caps, told, updates>>

\* ixgbe_check_component_response: what the firmware says of a component. A
\* partial check is enough in recovery mode only.
Responses == {"can", "may", "cannot", "partial"}
Accepted(response, recovery) ==
    \/ response \in {"can", "may"}
    \/ response = "partial" /\ recovery

\* ixgbe_send_component_table, one component after the other; nothing is
\* erased before all are accepted.
SendTable(p, ans, response, recovery) ==
    /\ At(p, "table") /\ Command(p, ans)
    /\ fn' = [fn EXCEPT ![p] =
           IF ans # "ok" \/ ~Accepted(response, recovery) THEN [@ EXCEPT !.at = "release"]
           ELSE IF @.c < NComps THEN [@ EXCEPT !.c = fn[p].c + 1]
           ELSE [@ EXCEPT !.c = 1, !.at = "erase"]]
    /\ UNCHANGED <<disabled, flash, caps, told, updates>>

\* ixgbe_erase_nvm_module.
Erase(p, ans) ==
    /\ At(p, "erase") /\ Command(p, ans)
    /\ ans # "refused" => fn[p].c \notin pending
    /\ bank' = IF Done(ans) THEN [bank EXCEPT ![fn[p].c] = [by |-> p, n |-> 0]] ELSE bank
    /\ Go(p, IF ans = "ok" THEN "write" ELSE "release")
    /\ UNCHANGED <<disabled, owner, pending, caps, told, updates>>

\* The firmware refuses to erase a marked bank.
EraseRefused(p) ==
    /\ At(p, "erase") /\ owner = p /\ fn[p].c \in pending
    /\ Go(p, "release")
    /\ UNCHANGED <<disabled, flash, caps, told, updates, faults>>

BlockWritten(p, b, n) ==
    IF b.by = p /\ b.n = n THEN [by |-> p, n |-> n + 1] ELSE [by |-> "mixed", n |-> 0]

AfterBlockAny(p, ans) == TRUE

\* ixgbe_write_nvm_module leaves its loop at the first error.
AfterBlock(p, ans) == ans = "ok"

LastBlock(p) == fn[p].b = NBlocks - 1

\* ixgbe_write_one_nvm_block: the reset level of fw.mgmt is set with its last
\* block, IXGBE_ACI_NVM_RESET_LVL_M (3) or IXGBE_ACI_NVM_POR_FLAG (0).
LevelSet(p) == IF avoidance THEN 3 ELSE 0

WriteBlock(p, ans) ==
    /\ At(p, "write") /\ Command(p, ans)
    /\ bank' = IF Done(ans)
               THEN [bank EXCEPT ![fn[p].c] = BlockWritten(p, @, fn[p].b)]
               ELSE bank
    /\ fn' = [fn EXCEPT ![p] =
           IF ~AfterBlock(p, ans) THEN [@ EXCEPT !.at = "release"]
           ELSE IF ~LastBlock(p) THEN [@ EXCEPT !.b = fn[p].b + 1]
           ELSE [@ EXCEPT !.b = 0,
                          !.c = IF fn[p].c < NComps THEN fn[p].c + 1 ELSE fn[p].c,
                          !.at = IF fn[p].c < NComps THEN "erase" ELSE "finalize",
                          !.level = IF fn[p].c = 1 THEN LevelSet(p) ELSE fn[p].level]]
    /\ UNCHANGED <<disabled, owner, pending, caps, told, updates>>

\* ixgbe_finalize_update: ixgbe_switch_flash_banks marks what was flashed.
\* empr: the firmware allows the reset of its own processor.
Finalize(p, ans, empr) ==
    /\ At(p, "finalize") /\ Command(p, ans)
    /\ pending' = IF Done(ans) THEN Comps ELSE pending
    /\ told' = IF ans # "ok" THEN told
               ELSE IF fn[p].level = 2 /\ ~empr THEN 1 ELSE fn[p].level
    /\ disabled' = IF ans = "ok" THEN [disabled EXCEPT ![p] = ~empr] ELSE disabled
    /\ Go(p, "release")
    /\ UNCHANGED <<owner, bank, caps, updates>>

\* ixgbe_update_nvm_minsrevs: read, write, ixgbe_nvm_write_activate(hw, 0, NULL).
MinSrev(p, ans) ==
    /\ fn[p].at \in {"mread", "mwrite", "mactivate"} /\ Command(p, ans)
    /\ Go(p, IF ans = "ok" /\ At(p, "mread") THEN "mwrite"
             ELSE IF ans = "ok" /\ At(p, "mwrite") THEN "mactivate" ELSE "release")
    /\ UNCHANGED <<disabled, flash, caps, told, updates>>

-----------------------------------------------------------------------------
(* Firmware                                                                *)

\* The time of the owner is over.
Expire ==
    /\ owner # Nobody /\ faults < MaxFaults
    /\ faults' = faults + 1
    /\ owner' = Nobody
    /\ UNCHANGED <<fn, disabled, bank, pending, caps, told, updates>>

\* A reset boots from the marked banks; the others become the inactive ones.
Booted ==
    /\ bank' = [c \in Comps |-> IF c \in pending THEN Factory ELSE bank[c]]
    /\ pending' = {} /\ owner' = Nobody /\ told' = Untold

\* ixgbe_devlink_reload_empr_start of an idle function.
Reload(p) ==
    /\ At(p, "idle") /\ pending # {} /\ ~disabled[p] /\ faults < MaxFaults
    /\ faults' = faults + 1
    /\ Booted
    /\ UNCHANGED <<fn, disabled, caps, updates>>

\* The machine loses power: the driver starts anew.
PowerCycle ==
    /\ faults < MaxFaults /\ faults' = faults + 1
    /\ Booted
    /\ fn' = [p \in PFs |-> Idle] /\ disabled' = [p \in PFs |-> FALSE]
    /\ UNCHANGED <<caps, updates>>

Next ==
    \/ \E p \in PFs :
         \/ Begin(p, "pending") \/ Begin(p, "macquire")
         \/ Pending(p) \/ Release(p) \/ CancelRelease(p) \/ EraseRefused(p) \/ Reload(p)
         \/ \E ok \in BOOLEAN : Acquire(p, ok)
         \/ \E ans \in Answers :
              \/ Revert(p, ans) \/ SendPackage(p, ans) \/ Erase(p, ans)
              \/ \E r \in Responses, rec \in BOOLEAN : SendTable(p, ans, r, rec)
              \/ WriteBlock(p, ans) \/ MinSrev(p, ans)
              \/ \E empr \in BOOLEAN : Finalize(p, ans, empr)
    \/ Expire \/ PowerCycle

Spec == Init /\ [][Next]_nvars

-----------------------------------------------------------------------------
(***************************************************************************)
(* A bank that the device would boot from after a reset at this moment was *)
(* written in full, by one update: whichever function's commands fail, come *)
(* late or are cut short by the expiry of the resource, and although the    *)
(* marks are read before the resource is taken (ixgbe_get_pending_updates,  *)
(* ixgbe_flash_pldm_image).                                                *)
(***************************************************************************)
BootsWhole == \A c \in pending : bank[c].n = NBlocks /\ bank[c].by # "mixed"

\* ixgbe_write_one_nvm_block: "On successful return, reset level indicates the
\* device reset required to complete the update".
LevelTold == (avoidance /\ told # Untold /\ required # 2) => told = required
=============================================================================
