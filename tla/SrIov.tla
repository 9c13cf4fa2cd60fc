------------------------------- MODULE SrIov -------------------------------
(***************************************************************************)
(* Creating and removing VFs (ixgbe_sriov.c: ixgbe_pci_sriov_enable and    *)
(* _disable, __ixgbe_enable_sriov, ixgbe_disable_sriov, ixgbe_get_vfs)     *)
(* beside what loops over the per-VF storage, ixgbe_msg_task in the        *)
(* interrupt handler (ixgbe_msix_other) and ixgbe_check_for_bad_vf in the  *)
(* service task, and the PCI error handlers, which forgive errors that a   *)
(* VF caused (ixgbe_main.c: ixgbe_io_error_detected, _slot_reset,          *)
(* _resume).                                                               *)
(*                                                                         *)
(* sysfs serialises the configuration; nothing serialises it with the      *)
(* interrupt, the service task or the error handlers.                      *)
(***************************************************************************)
EXTENDS Naturals, FiniteSets, TLAPS

CONSTANTS
    MaxVfs,
    MaxOps,     \* bound: writes to sriov_numvfs
    MaxErrs,    \* bound: PCI errors
    Retry       \* the administrator asks for another number of VFs after a
                \* failure without asking for none first

VARIABLES
    sriov,      \* IXGBE_FLAG_SRIOV_ENABLED
    num_vfs,
    vfinfo,     \* VFs that vfinfo has room for, 0: NULL
    stray,      \* a vfinfo was dropped without being freed
    vfdevs,     \* VFs whose device vfinfo refers to (with a reference)
    hwvfs,      \* pci_num_vf
    assigned,   \* a VF is assigned to a guest
    cfg,        \* where the sysfs writer stands, and the number it wrote
    svc,        \* where a loop over the VFs stands, and the VF it looks at
    aer,        \* where the PCI error recovery stands
    vferr_refcount,
    attached,   \* netif_device_present
    sops, errs

svars == <<sriov, num_vfs, vfinfo, stray, vfdevs, hwvfs, assigned, cfg, svc,
           aer, vferr_refcount, attached, sops, errs>>
vfs == <<sriov, num_vfs, vfinfo, stray, vfdevs, hwvfs>>
pci == <<aer, vferr_refcount, attached, errs>>

TypeOK ==
    /\ sriov \in BOOLEAN /\ stray \in BOOLEAN /\ assigned \in BOOLEAN
    /\ num_vfs \in 0 .. MaxVfs /\ vfinfo \in 0 .. MaxVfs /\ hwvfs \in 0 .. MaxVfs
    /\ vfdevs \subseteq 0 .. MaxVfs - 1
    /\ cfg.n \in 0 .. MaxVfs
    /\ svc.at \in {"idle", "loop", "use"} /\ svc.vf \in 0 .. MaxVfs
    /\ vferr_refcount \in 0 .. MaxErrs /\ attached \in BOOLEAN

Rest == [at |-> "rest", n |-> 0]
Idle == [at |-> "idle", vf |-> 0]

Init ==
    /\ sriov = FALSE /\ num_vfs = 0 /\ vfinfo = 0 /\ stray = FALSE
    /\ vfdevs = {} /\ hwvfs = 0 /\ assigned \in BOOLEAN
    /\ cfg = Rest /\ svc = Idle /\ aer = "none"
    /\ vferr_refcount = 0 /\ attached = TRUE /\ sops = 0 /\ errs = 0

Go(at) == cfg' = [cfg EXCEPT !.at = at]
Done == cfg' = Rest
-----------------------------------------------------------------------------
(* ixgbe_pci_sriov_configure: one of ixgbe_pci_sriov_enable and _disable.  *)

Configure(n) ==
    /\ cfg = Rest /\ sops < MaxOps /\ sops' = sops + 1
    /\ IF n = 0 THEN num_vfs > 0 \/ hwvfs > 0
                ELSE num_vfs # n /\ hwvfs # n
    /\ Retry \/ n = 0 \/ num_vfs = hwvfs
    /\ cfg' = [at |-> IF n = 0 \/ hwvfs > 0 THEN "forget" ELSE "alloc", n |-> n]
    /\ UNCHANGED <<vfs, assigned, svc, pci>>

\* ixgbe_disable_sriov, in four steps.
ForgetNot == num_vfs
Forgotten == 0
Forget ==
    /\ cfg.at = "forget" /\ Go("put")
    /\ num_vfs' = Forgotten
    /\ UNCHANGED <<sriov, vfinfo, stray, vfdevs, hwvfs, assigned, svc, pci, sops>>
Put ==
    /\ cfg.at = "put" /\ Go("free")
    /\ vfdevs' = {}
    /\ UNCHANGED <<sriov, num_vfs, vfinfo, stray, hwvfs, assigned, svc, pci, sops>>

Free ==
    /\ cfg.at = "free"
    /\ vfinfo' = 0
    /\ CASE ~sriov -> IF cfg.n = 0 THEN Done ELSE Go("alloc")
         [] sriov /\ assigned /\ hwvfs > 0 -> Done
         [] OTHER -> Go("off")
    /\ UNCHANGED <<sriov, num_vfs, stray, vfdevs, hwvfs, assigned, svc, pci, sops>>

\* pci_disable_sriov, the registers and the flags; then, under the RTNL lock,
\* ixgbe_sriov_reinit.
Off ==
    /\ cfg.at = "off"
    /\ hwvfs' = 0 /\ sriov' = FALSE
    /\ IF cfg.n = 0 THEN Done ELSE Go("alloc")
    /\ UNCHANGED <<num_vfs, vfinfo, stray, vfdevs, assigned, svc, pci, sops>>

\* __ixgbe_enable_sriov: the flags, the storage (the old one is not looked
\* at), the number.
Alloc(ok) ==
    /\ cfg.at = "alloc"
    /\ sriov' = TRUE
    /\ stray' = (stray \/ vfinfo > 0)
    /\ vfinfo' = IF ok THEN cfg.n ELSE 0
    /\ IF ok THEN Go("count") ELSE Done
    /\ UNCHANGED <<num_vfs, vfdevs, hwvfs, assigned, svc, pci, sops>>

Count ==
    /\ cfg.at = "count" /\ Go("enable")
    /\ num_vfs' = cfg.n
    /\ UNCHANGED <<sriov, vfinfo, stray, vfdevs, hwvfs, assigned, svc, pci, sops>>

\* ixgbe_sriov_reinit and pci_enable_sriov, then ixgbe_get_vfs.
Enable(ok) ==
    /\ cfg.at = "enable"
    /\ hwvfs' = IF ok THEN cfg.n ELSE 0
    /\ IF ok THEN Go("get") ELSE Done
    /\ UNCHANGED <<sriov, num_vfs, vfinfo, stray, vfdevs, assigned, svc, pci, sops>>

GetVfs ==
    /\ cfg.at = "get" /\ Done
    /\ vfdevs' = 0 .. num_vfs - 1
    /\ UNCHANGED <<sriov, num_vfs, vfinfo, stray, hwvfs, assigned, svc, pci, sops>>

\* A guest takes or returns a VF.
Assign ==
    /\ hwvfs > 0 /\ assigned' = ~assigned
    /\ UNCHANGED <<vfs, cfg, svc, pci, sops>>
-----------------------------------------------------------------------------
(* ixgbe_msg_task; the loop of ixgbe_check_for_bad_vf is the same.         *)

MsgTask ==
    /\ svc = Idle /\ vfinfo > 0
    /\ svc' = [at |-> "loop", vf |-> 0]
    /\ UNCHANGED <<vfs, assigned, cfg, pci, sops>>

MsgLoop ==
    /\ svc.at = "loop"
    /\ svc' = IF svc.vf < num_vfs THEN [svc EXCEPT !.at = "use"] ELSE Idle
    /\ UNCHANGED <<vfs, assigned, cfg, pci, sops>>

MsgUse ==
    /\ svc.at = "use"
    /\ svc' = [at |-> "loop", vf |-> svc.vf + 1]
    /\ UNCHANGED <<vfs, assigned, cfg, pci, sops>>
-----------------------------------------------------------------------------
(* PCI errors.  The PCI core runs one recovery at a time: it tells every   *)
(* port, resets the slot when one asks for it, and lets all of them        *)
(* resume; a port that voted "recovered" is resumed, as the comment in     *)
(* ixgbe_io_error_detected has it.                                         *)

\* ixgbe_io_error_detected.  An error that a VF caused, on this port or on the
\* other one, is forgiven: the VF is reset, ixgbe_io_resume is to do nothing.
Forgiven(byvf) == byvf /\ num_vfs > 0

CountedAll(byvf) == 1
Counted(byvf) == IF Forgiven(byvf) THEN 1 ELSE 0

io_error_detected(byvf) ==
    /\ aer = "none" /\ errs < MaxErrs /\ errs' = errs + 1
    /\ vferr_refcount' = vferr_refcount + Counted(byvf)
    /\ attached' = (attached /\ Forgiven(byvf))
    /\ aer' = IF Forgiven(byvf) THEN "recovered"
              ELSE IF attached THEN "reset" ELSE "none"
    /\ UNCHANGED <<vfs, assigned, cfg, svc, sops>>

io_slot_reset(ok) ==
    /\ aer = "reset"
    /\ aer' = IF ok THEN "recovered" ELSE "lost"
    /\ UNCHANGED <<vfs, assigned, cfg, svc, vferr_refcount, attached, sops, errs>>

io_resume ==
    /\ aer = "recovered" /\ aer' = "none"
    /\ vferr_refcount' = IF vferr_refcount > 0 THEN vferr_refcount - 1 ELSE 0
    /\ attached' = (attached \/ vferr_refcount = 0)
    /\ UNCHANGED <<vfs, assigned, cfg, svc, sops, errs>>
-----------------------------------------------------------------------------
Next ==
    \/ \E n \in 0 .. MaxVfs : Configure(n)
    \/ Forget \/ Put \/ Free \/ Off \/ Count \/ GetVfs \/ Assign
    \/ \E ok \in BOOLEAN : Alloc(ok) \/ Enable(ok) \/ io_slot_reset(ok)
    \/ MsgTask \/ MsgLoop \/ MsgUse
    \/ \E byvf \in BOOLEAN : io_error_detected(byvf)
    \/ io_resume

Spec == Init /\ [][Next]_svars

\* __ixgbe_enable_sriov and ixgbe_disable_sriov: num_vfs is raised after the
\* storage exists and dropped before it goes, so a reader of num_vfs finds
\* room for all of them; nothing but a VF of this port is referred to, and
\* every storage that was allocated is still known.
VfsBacked ==
    /\ num_vfs > 0 => vfinfo = num_vfs
    /\ vfdevs \subseteq 0 .. hwvfs - 1
    /\ vfdevs # {} => vfinfo > 0
    /\ ~stray

\* ixgbe_io_resume: "the I/O resume function will be called for both of
\* them", so that every forgiven error is matched by one resume, and the
\* recovery of an error that was not forgiven ends with the port attached.
Reattached ==
    /\ aer = "none" => attached /\ vferr_refcount = 0
    /\ aer = "reset" => ~attached /\ vferr_refcount = 0

\* ixgbe_disable_sriov: "set num VFs to 0 to prevent access to vfinfo".  A
\* loop over the VFs finds the storage of the VF that it works on.
NoStaleUse == svc.at = "use" => svc.vf < vfinfo
-----------------------------------------------------------------------------
(* The storage of the VFs, for every value of the constants.               *)

Ats == {"rest", "forget", "put", "free", "off", "alloc", "count", "enable",
        "get"}

\* The variables that VfsBacked speaks of.  (The bounds of the model are not
\* needed: numbers of VFs are natural numbers.)
Typed ==
    /\ sriov \in BOOLEAN /\ stray \in BOOLEAN
    /\ num_vfs \in Nat /\ vfinfo \in Nat /\ hwvfs \in Nat
    /\ cfg \in [at : Ats, n : Nat]

\* What the writer of sriov_numvfs has and has not done yet, step by step: the
\* storage is of the size that num_vfs says except between the two, references
\* to VF devices exist only in between GetVfs and Put, and the hardware has no
\* VFs where new storage is made.
Stage ==
    /\ cfg.at \in {"rest", "forget", "enable", "get"} => vfinfo = num_vfs
    /\ cfg.at \in {"put", "free", "off", "alloc", "count"} => num_vfs = 0
    /\ cfg.at \in {"free", "off", "alloc", "count", "enable", "get"} => vfdevs = {}
    /\ cfg.at \in {"off", "alloc"} => vfinfo = 0
    /\ cfg.at \in {"alloc", "count", "enable"} => hwvfs = 0 /\ cfg.n > 0
    /\ cfg.at \in {"count", "enable", "get"} => vfinfo = cfg.n
    /\ cfg.at \in {"count", "enable", "get"} => sriov
    /\ cfg.at = "get" => hwvfs = cfg.n /\ cfg.n > 0
    /\ hwvfs > 0 => sriov

IInv == Typed /\ Stage /\ VfsBacked

LEMMA StageInit == ASSUME MaxVfs \in Nat PROVE Init => IInv
<1> SUFFICES ASSUME Init PROVE IInv
  OBVIOUS
<1>1. Typed
  BY DEF Init, Typed, Rest, Ats
<1>2. Stage
  BY DEF Init, Stage, Rest
<1>3. VfsBacked
  BY DEF Init, VfsBacked
<1>4. QED
  BY <1>1, <1>2, <1>3 DEF IInv

LEMMA StageKept ==
    ASSUME MaxVfs \in Nat, ~Retry, IInv, [Next]_svars
    PROVE  IInv'
<1> USE DEF IInv, Ats, Go, Done, Rest
<1>1. ASSUME NEW n \in 0 .. MaxVfs, Configure(n) PROVE IInv'
  BY <1>1 DEF Configure, vfs, Typed, Stage, VfsBacked
<1>2. CASE Forget
  BY <1>2 DEF Forget, Forgotten, Typed, Stage, VfsBacked
<1>3. CASE Put
  BY <1>3 DEF Put, Typed, Stage, VfsBacked
<1>4. CASE Free
  BY <1>4 DEF Free, Typed, Stage, VfsBacked
<1>5. CASE Off
  <2>1. Typed'
    <3>1. sriov' \in BOOLEAN /\ stray' \in BOOLEAN
      BY <1>5, ZenonT(30) DEF Off, Typed
    <3>2. (num_vfs \in Nat /\ vfinfo \in Nat /\ hwvfs \in Nat)'
      BY <1>5 DEF Off, Typed
    <3>3. cfg' \in [at : Ats, n : Nat]
      BY <1>5 DEF Off, Typed
    <3>4. QED
      BY <3>1, <3>2, <3>3 DEF Typed
  <2>2. Stage'
    BY <1>5 DEF Off, Typed, Stage
  <2>3. VfsBacked'
    BY <1>5 DEF Off, Typed, Stage, VfsBacked
  <2>4. QED
    BY <2>1, <2>2, <2>3
<1>6. CASE Count
  BY <1>6 DEF Count, Typed, Stage, VfsBacked
<1>7. CASE GetVfs
  BY <1>7 DEF GetVfs, Typed, Stage, VfsBacked
<1>8. ASSUME NEW ok \in BOOLEAN, Alloc(ok) PROVE IInv'
  <2>1. Typed'
    BY <1>8 DEF Alloc, Typed, Stage
  <2>2. Stage'
    BY <1>8 DEF Alloc, Typed, Stage
  <2>3. VfsBacked'
    <3>1. ~(stray \/ vfinfo > 0)
      BY <1>8 DEF Alloc, Typed, Stage, VfsBacked
    <3>2. ~stray'
      BY <1>8, <3>1, ZenonT(30) DEF Alloc
    <3>3. QED
      BY <1>8, <3>2 DEF Alloc, Typed, Stage, VfsBacked
  <2>4. QED
    BY <2>1, <2>2, <2>3
<1>9. ASSUME NEW ok \in BOOLEAN, Enable(ok) PROVE IInv'
  <2>1. Typed'
    BY <1>9 DEF Enable, Typed, Stage
  <2>2. Stage'
    BY <1>9 DEF Enable, Typed, Stage
  <2>3. VfsBacked'
    BY <1>9 DEF Enable, Typed, Stage, VfsBacked
  <2>4. QED
    BY <2>1, <2>2, <2>3
<1>10. CASE UNCHANGED <<vfs, cfg>>
  BY <1>10 DEF vfs, Typed, Stage, VfsBacked
<1>11. QED
  BY <1>1, <1>2, <1>3, <1>4, <1>5, <1>6, <1>7, <1>8, <1>9, <1>10
  DEF Next, svars, vfs, Assign, MsgTask, MsgLoop, MsgUse, io_error_detected,
      io_slot_reset, io_resume

\* VfsBacked, for any number of VFs and of writes to sriov_numvfs and whatever
\* else runs, where the administrator asks for none after a failure before
\* asking for others (ixgbe_pci_sriov_configure).
THEOREM VfsStayBacked ==
    ASSUME MaxVfs \in Nat, ~Retry
    PROVE  Spec => []VfsBacked
<1>1. Init => IInv
  BY StageInit
<1>2. IInv /\ [Next]_svars => IInv'
  BY StageKept
<1>3. IInv => VfsBacked
  BY DEF IInv
<1>4. QED
  BY <1>1, <1>2, <1>3, PTL DEF Spec

-----------------------------------------------------------------------------
(* The error recovery: between the detection and the resume of an error that *)
(* was forgiven one reference is held, of another one none.                *)

Recovery ==
    /\ aer \in {"none", "reset", "recovered", "lost"}
    /\ attached \in BOOLEAN
    /\ aer = "none" => attached /\ vferr_refcount = 0
    /\ aer = "reset" => ~attached /\ vferr_refcount = 0
    /\ aer = "recovered" => vferr_refcount = IF attached THEN 1 ELSE 0

LEMMA RecoveryKept == Recovery /\ [Next]_svars => Recovery'
<1> SUFFICES ASSUME Recovery, [Next]_svars PROVE Recovery'
  OBVIOUS
<1>1. ASSUME NEW byvf \in BOOLEAN, io_error_detected(byvf) PROVE Recovery'
  <2>1. attached /\ vferr_refcount = 0
    BY <1>1 DEF io_error_detected, Recovery
  <2>2. CASE Forgiven(byvf)
    <3>1. attached'
      BY <1>1, <2>1, <2>2, ZenonT(30) DEF io_error_detected
    <3>2. QED
      BY <1>1, <2>1, <2>2, <3>1 DEF io_error_detected, Counted, Recovery
  <2>3. CASE ~Forgiven(byvf)
    <3>1. ~attached'
      BY <1>1, <2>3, ZenonT(30) DEF io_error_detected
    <3>2. QED
      BY <1>1, <2>1, <2>3, <3>1 DEF io_error_detected, Counted, Recovery
  <2>4. QED
    BY <2>2, <2>3
<1>2. ASSUME NEW ok \in BOOLEAN, io_slot_reset(ok) PROVE Recovery'
  BY <1>2 DEF io_slot_reset, Recovery
<1>3. CASE io_resume
  <2>1. vferr_refcount = IF attached THEN 1 ELSE 0
    BY <1>3 DEF io_resume, Recovery
  <2>2. attached'
    BY <1>3, <2>1, ZenonT(30) DEF io_resume
  <2>3. QED
    BY <1>3, <2>1, <2>2 DEF io_resume, Recovery
<1>4. CASE UNCHANGED pci
  BY <1>4 DEF pci, Recovery
<1>5. QED
  BY <1>1, <1>2, <1>3, <1>4
  DEF Next, svars, pci, Configure, Forget, Put, Free, Off, Alloc, Count, Enable,
      GetVfs, Assign, MsgTask, MsgLoop, MsgUse

\* Reattached, whatever VFs come and go meanwhile: each error that was forgiven
\* is matched by the resume that does nothing, and the recovery of another one
\* ends with the port attached (ixgbe_io_error_detected, ixgbe_io_resume).
THEOREM RecoversAttached == Spec => []Reattached
<1>1. Init => Recovery
  BY DEF Init, Recovery
<1>2. Recovery => Reattached
  BY DEF Recovery, Reattached
<1>3. QED
  BY <1>1, <1>2, RecoveryKept, PTL DEF Spec
=============================================================================
