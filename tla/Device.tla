------------------------------- MODULE Device -------------------------------
(***************************************************************************)
(* The parts of the driver that keep a copy of what the device holds, for  *)
(* any size: the virtual functions and what was set up for them, the rules *)
(* of the Flow Director, and the banks of the flash.  They share no state  *)
(* with each other, so a behaviour is about one of them (part).            *)
(***************************************************************************)
EXTENDS Integers, FiniteSets

CONSTANTS
    TotalVfs, MaxOps, MaxErrs,                      \* see SrIov
    NVfs, McHashes, VfWorlds, MaxVfOps,             \* see VfConfig
    PFs, NComps, NBlocks, Levels, MaxUpdates, MaxFaults,   \* see NvmUpdate
    Locs, FdHashes, Masks, BadMask, RingCounts      \* see FdirRules

\* Numbers of things are natural numbers, an image has a component and a
\* component a block, and what stands for nothing is none of the things.
ASSUME DeviceAssumption ==
    /\ TotalVfs \in Nat
    /\ NVfs \in Nat
    /\ NComps \in Nat \ {0} /\ NBlocks \in Nat \ {0}
    /\ {"nobody", "mixed"} \cap PFs = {}
    /\ "none" \notin FdHashes /\ "none" \notin Masks

\* The variables of the part: which ones they are is said where the part is
\* instantiated. Those that a part does not need stay 0.
VARIABLES
    part,
    x1, x2, x3, x4, x5, x6, x7, x8, x9, x10, x11, x12, x13, x14, x15, x16,
    x17, x18, x19, x20

mcvars == <<part, x1, x2, x3, x4, x5, x6, x7, x8, x9, x10, x11, x12, x13, x14,
            x15, x16, x17, x18, x19, x20>>

\* The variables from the n-th on are not used; nor do they change.
Zero21 == TRUE
Zero16 == x16 = 0 /\ x17 = 0 /\ x18 = 0 /\ x19 = 0 /\ x20 = 0 /\ Zero21
Zero15 == x15 = 0 /\ Zero16
Zero14 == x14 = 0 /\ Zero15
Zero13 == x13 = 0 /\ Zero14
Zero12 == x12 = 0 /\ Zero13
Zero11 == x11 = 0 /\ Zero12
Zero10 == x10 = 0 /\ Zero11
Zero9 == x9 = 0 /\ Zero10
Zero7 == x7 = 0 /\ x8 = 0 /\ Zero9
Zero6 == x6 = 0 /\ Zero7
Zero5 == x5 = 0 /\ Zero6
Keep21 == UNCHANGED part
Keep16 == UNCHANGED <<x16, x17, x18, x19, x20>> /\ Keep21
Keep15 == UNCHANGED <<x15>> /\ Keep16
Keep14 == UNCHANGED <<x14>> /\ Keep15
Keep13 == UNCHANGED <<x13>> /\ Keep14
Keep12 == UNCHANGED <<x12>> /\ Keep13
Keep11 == UNCHANGED <<x11>> /\ Keep12
Keep10 == UNCHANGED <<x10>> /\ Keep11
Keep9 == UNCHANGED <<x9>> /\ Keep10
Keep7 == UNCHANGED <<x7, x8>> /\ Keep9
Keep6 == UNCHANGED <<x6>> /\ Keep7
Keep5 == UNCHANGED <<x5>> /\ Keep6

Iov == INSTANCE SrIov WITH
    MaxVfs <- TotalVfs, Retry <- FALSE, sriov <- x1,
    num_vfs <- x2, vfinfo <- x3, stray <- x4, vfdevs <- x5, hwvfs <- x6,
    assigned <- x7, cfg <- x8, svc <- x9, aer <- x10, vferr_refcount <- x11,
    attached <- x12, sops <- x13, errs <- x14
Vf == INSTANCE VfConfig WITH
    Hashes <- McHashes, Worlds <- VfWorlds, MaxOps <- MaxVfOps,
    vf <- x1, regs <- x2, pf <- x3, wiped <- x4, vworld <- x5, vops <- x6
Nvm == INSTANCE NvmUpdate WITH
    fn <- x1, disabled <- x2, owner <- x3,
    bank <- x4, pending <- x5, required <- x6, avoidance <- x7, told <- x8,
    updates <- x9, faults <- x10
Fd == INSTANCE FdirRules WITH
    Hashes <- FdHashes, Rings <- RingCounts, list <- x1, fdir_mask <- x2,
    table <- x3, hwmask <- x4, perfect <- x5, running <- x6, rt <- x7,
    nrx <- x8, missed <- x9, hnode <- x10, jump <- x11, child <- x12

DeviceInit ==
    \/ part = "iov" /\ Iov!Init /\ Zero15
    \/ part = "vf" /\ Vf!Init /\ Zero7
    \/ part = "nvm" /\ Nvm!Init /\ Zero11
    \/ part = "rules" /\ Fd!Init /\ Zero13

DeviceNext ==
    \/ part = "iov" /\ Iov!Next /\ Keep15
    \/ part = "vf" /\ Vf!Next /\ Keep7
    \/ part = "nvm" /\ Nvm!Next /\ Keep11
    \/ part = "rules" /\ Fd!Next /\ Keep13

DeviceSpec == DeviceInit /\ [][DeviceNext]_mcvars
-----------------------------------------------------------------------------
(* Properties *)

\* The storage of the VFs is there as long as num_vfs says so
\* (__ixgbe_enable_sriov, ixgbe_disable_sriov), and what was set up for the VFs
\* survives what happens to the PF: errors that a VF caused
\* (ixgbe_io_error_detected, ixgbe_io_resume), resets, link changes and changes
\* of the MTU (ixgbe_configure_virtualization, ixgbe_set_vf_multicasts,
\* ixgbe_check_vf_rate_limit).
VfsKept ==
    /\ part = "iov" => Iov!VfsBacked /\ Iov!Reattached
    /\ part = "vf" => Vf!McastShared /\ Vf!VfCfgApplied /\ Vf!LegacyOff

\* The tables of the device hold what the driver takes them to hold: Flow
\* Director the listed rules (ixgbe_update_ethtool_fdir_entry,
\* ixgbe_fdir_filter_restore), the flash a whole image in each bank that it
\* would boot from (ixgbe_flash_component, ixgbe_write_nvm_module).
TablesTrue ==
    /\ part = "rules" => Fd!RulesMirror
    /\ part = "nvm" => Nvm!BootsWhole
=============================================================================
