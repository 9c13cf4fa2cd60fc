------------------------------ MODULE HwReset ------------------------------
(***************************************************************************)
(* Resetting the MAC and setting its link up again: ixgbe_init_hw_generic  *)
(* with the reset_hw of each MAC, and SmartSpeed on an 82599 backplane.    *)
(*                                                                         *)
(* A reset first stops the DMA master. If the PCIe block does not go       *)
(* quiet, the MAC has to be reset twice before it is used: stop_adapter    *)
(* leaves a flag for the reset routine, which may not get that far. The    *)
(* later MACs take the SW/FW semaphore for the reset; the 82599 restores   *)
(* AUTOC afterwards, under that semaphore when the firmware runs its own   *)
(* link state machine (LESM). ixgbe_reset only logs what init_hw returns,  *)
(* so a failed attempt is followed by another one, whatever it left.       *)
(***************************************************************************)
EXTENDS Integers

CONSTANTS
    Macs,           \* of "82598", "82599", "X540", "X550em", "E610"
    MaxResets,      \* bound: calls of ixgbe_reset
    MaxTrouble      \* bound: things the hardware or the firmware may refuse

VARIABLES
    mac, lesm, wol, \* the device: its MAC, LESM on, wake-on-LAN armed
    medium,         \* the link modes the backplane can carry
    autoc, orig,    \* AUTOC as [lms, adv], now and as the driver stored it
    stored,         \* hw->mac.orig_link_settings_stored
    double,         \* IXGBE_FLAGS_DOUBLE_RESET_REQUIRED
    dirty,          \* resets still owed since the master last failed to stop
    sem,            \* who holds the SW/FW semaphore
    started,        \* ~hw->adapter_stopped
    smart,          \* hw->phy.smart_speed_active
    num_rar, san,   \* hw->mac.num_rar_entries short of 128, SAN entry valid
    step, status,   \* where the reset or set-up is, and its status
    lms_was,        \* curr_lms, read before the reset
    adv_was,        \* autoc_reg of ixgbe_setup_mac_link_smartspeed
    rturns, rtrouble

rvars == <<mac, lesm, wol, medium, autoc, orig, stored, double, dirty, sem,
           started, smart, num_rar, san, step, status, lms_was, adv_was,
           rturns, rtrouble>>

Device == <<mac, lesm, wol, medium>>
Modes == {"KR", "KX4", "KX"}
Default == [lms |-> "kx4_kx_kr", adv |-> Modes]

\* What the reset_hw of each MAC does: whether it is given up while
\* transactions are pending, how its PHY part can end, whether the semaphore is
\* taken for the reset, whether a missing module hides that the reset failed,
\* how AUTOC comes back, and whether the last entry is for the SAN address.
ResetHw82598 ==
    [waits |-> TRUE, phy |-> {"sfp_not_supported", "sfp_not_present"},
     locks |-> FALSE, hides |-> TRUE, autoc |-> "written", san |-> FALSE]
ResetHw82599 ==
    [waits |-> TRUE, phy |-> {"sfp_not_supported", "sfp_not_present"},
     locks |-> FALSE, hides |-> FALSE, autoc |-> "protected", san |-> TRUE]
ResetHwX540 ==
    [waits |-> TRUE, phy |-> {}, locks |-> TRUE, hides |-> FALSE,
     autoc |-> "left", san |-> TRUE]
ResetHwX550em ==
    [waits |-> FALSE, locks |-> TRUE, hides |-> FALSE, autoc |-> "left",
     phy |-> {"sfp_not_supported", "sfp_not_present", "overtemp"}, san |-> FALSE]
ResetHwE610 ==
    [waits |-> FALSE, phy |-> {}, locks |-> TRUE, hides |-> FALSE,
     autoc |-> "left", san |-> FALSE]

Mine == CASE mac = "82598" -> ResetHw82598
          [] mac = "82599" -> ResetHw82599
          [] mac = "X540" -> ResetHwX540
          [] mac = "X550em" -> ResetHwX550em
          [] mac = "E610" -> ResetHwE610
Steps == {"idle", "stop", "phy", "lock", "reset", "restore", "write", "addrs",
          "start", "full", "less", "more"}

Init ==
    /\ mac \in Macs
    /\ lesm \in IF mac = "82599" THEN BOOLEAN ELSE {FALSE}
    /\ wol \in IF mac = "82599" THEN BOOLEAN ELSE {FALSE}
    /\ medium \in {Modes, {"KX4", "KX"}}
    /\ autoc = Default /\ orig = Default /\ stored = FALSE
    /\ double = FALSE /\ dirty = 0 /\ sem = "free" /\ started = FALSE
    /\ smart = FALSE /\ num_rar = 0 /\ san = FALSE
    /\ step = "idle" /\ status = "ok" /\ lms_was = Default.lms
    /\ adv_was = Modes
    /\ rturns = 0 /\ rtrouble = 0

Fault == rtrouble < MaxTrouble /\ rtrouble' = rtrouble + 1
Fine == UNCHANGED rtrouble

\* Whatever init_hw returned, ixgbe_up_complete sets the link up next;
\* SmartSpeed is for backplanes without LESM.
After == IF mac = "82599" /\ ~lesm THEN "full" ELSE "idle"

\* reset_hw returns: init_hw starts the hardware on success and when only the
\* SFP module is missing.
Return(st) ==
    /\ status' = st
    /\ step' = IF st \in {"ok", "sfp_not_present"} THEN "start" ELSE After
Go(s) == step' = s /\ UNCHANGED status

---------------------------------------------------------------------------
(* ixgbe_reset                                                             *)

Begin ==
    /\ step = "idle" /\ rturns < MaxResets /\ rturns' = rturns + 1
    /\ step' = "stop" /\ status' = "ok"
    /\ UNCHANGED <<Device, autoc, orig, stored, double, dirty, sem, started,
                   smart, num_rar, san, lms_was, adv_was, rtrouble>>

\* ixgbe_stop_adapter_generic -> ixgbe_disable_pcie_primary. Before X550 the
\* reset is given up while transactions are still pending.
StopForgets == double' = FALSE
StopAsks == double' = TRUE

Stop ==
    /\ step = "stop"
    /\ started' = FALSE
    /\ \/ Fine /\ Go("phy") /\ UNCHANGED <<double, dirty>>
       \/ /\ Fault /\ StopAsks /\ dirty' = 2
          /\ \/ Go("phy")
             \/ Mine.waits /\ Return("pending")
    /\ UNCHANGED <<Device, autoc, orig, stored, sem, smart, num_rar, san,
                   lms_was, adv_was, rturns>>

\* phy.ops.init, setup_sfp and the PHY reset. X540 has none of them and E610
\* ignores their result; X550em forgets it when it takes the semaphore.
PhyInit ==
    /\ step = "phy"
    /\ \/ Fine /\ UNCHANGED status
          /\ step' = IF Mine.locks THEN "lock" ELSE "reset"
       \/ /\ Fault
          /\ \E e \in Mine.phy :
               IF e # "sfp_not_present" THEN Return(e)
               ELSE /\ status' = e
                    /\ step' = IF Mine.locks THEN "lock" ELSE "reset"
    /\ lms_was' = autoc.lms
    /\ UNCHANGED <<Device, autoc, orig, stored, double, dirty, sem, started,
                   smart, num_rar, san, adv_was, rturns>>

\* acquire_swfw_sync: fails when the firmware keeps the semaphore.
Lock ==
    /\ step = "lock"
    /\ IF sem = "fw" THEN Return("swfw_sync") /\ UNCHANGED sem
       ELSE sem' = "drv" /\ status' = "ok" /\ step' = "reset"
    /\ Fine
    /\ UNCHANGED <<Device, autoc, orig, stored, double, dirty, started, smart,
                   num_rar, san, lms_was, adv_was, rturns>>

\* CTRL.RST or CTRL.LNK_RST: the registers go back to their defaults. A reset
\* whose polling times out is only remembered in the status, where the
\* missing module of an 82598 hides it.
MacReset ==
    /\ step = "reset"
    /\ autoc' = Default /\ san' = FALSE
    /\ dirty' = IF dirty = 0 THEN 0 ELSE dirty - 1
    /\ sem' = IF sem = "drv" THEN "free" ELSE sem
    /\ \/ Fine /\ UNCHANGED status
       \/ /\ Fault
          /\ status' = IF Mine.hides /\ status = "sfp_not_present" THEN status
                       ELSE "reset_failed"
    /\ IF double
       THEN double' = FALSE /\ step' = IF Mine.locks THEN "lock" ELSE "reset"
       ELSE step' = "restore" /\ UNCHANGED double
    /\ UNCHANGED <<Device, orig, stored, started, smart, num_rar, lms_was,
                   adv_was, rturns>>

\* AUTOC: stored the first time, restored afterwards. The 82599 leaves the
\* link mode alone when the port has to wake the system.
Restore ==
    /\ step = "restore"
    /\ LET o == IF wol THEN [orig EXCEPT !.lms = lms_was] ELSE orig
       IN  IF Mine.autoc # "left"
           THEN /\ stored' = TRUE
                /\ orig' = IF stored THEN o ELSE autoc
                /\ autoc' = IF stored /\ Mine.autoc = "written" THEN o ELSE autoc
                /\ Go(IF stored /\ Mine.autoc = "protected" /\ autoc # o THEN "write"
                      ELSE "addrs")
           ELSE UNCHANGED <<stored, orig, autoc>> /\ Go("addrs")
    /\ Fine
    /\ UNCHANGED <<Device, double, dirty, sem, started, smart, num_rar, san,
                   lms_was, adv_was, rturns>>

\* prot_autoc_write_82599: nothing while the management firmware vetoes it;
\* under the semaphore with LESM; the pipeline reset may fail. Its status
\* replaces the one of the reset.
Write ==
    /\ step = "write"
    /\ \/ autoc' = orig /\ (lesm => sem # "fw") /\ Fine
          /\ status' = "ok" /\ step' = "addrs"
       \/ UNCHANGED autoc /\ Fault /\ status' = "ok" /\ step' = "addrs"
       \/ UNCHANGED autoc /\ lesm /\ sem = "fw" /\ Fine /\ Return("swfw_sync")
       \/ autoc' = orig /\ (lesm => sem # "fw") /\ Fault /\ Return("reset_failed")
    /\ UNCHANGED <<Device, orig, stored, double, dirty, sem, started, smart,
                   num_rar, san, lms_was, adv_was, rturns>>

\* init_rx_addrs and, on the 82599 and X540, the last entry for the SAN
\* address.
Addrs ==
    /\ step = "addrs"
    /\ san' = Mine.san
    /\ num_rar' = IF san' THEN 1 ELSE 0
    /\ Return(status) /\ Fine
    /\ UNCHANGED <<Device, autoc, orig, stored, double, dirty, sem, started,
                   smart, lms_was, adv_was, rturns>>

\* start_hw: only flow control set-up can fail.
Start ==
    /\ step = "start"
    /\ \/ /\ Fine /\ started' = TRUE /\ status' = "ok"
       \/ Fault /\ UNCHANGED started /\ status' = "fc"
    /\ step' = After
    /\ UNCHANGED <<Device, autoc, orig, stored, double, dirty, sem, smart,
                   num_rar, san, lms_was, adv_was, rturns>>

---------------------------------------------------------------------------
(* ixgbe_setup_mac_link_smartspeed                                         *)

\* ixgbe_setup_mac_link_82599: KR only while SmartSpeed has not turned it off.
AdvertiseKr(s) == orig.adv
Advertise(s) == IF s THEN orig.adv \ {"KR"} ELSE orig.adv

\* Link comes up on the best mode both advertised and, as far as the partner
\* can tell, possible: a KR that is advertised is what gets tried.
LinkUp(adv) == IF "KR" \in adv THEN "KR" \in medium ELSE adv \cap medium # {}

\* The three set-ups: with everything, without KR when the link did not come,
\* and with everything again. Each write of AUTOC may fail and end it.
SmartSpeed ==
    \E pass \in {"full", "less", "more"} :
    /\ step = pass
    /\ smart' = (pass = "less")
    /\ adv_was' = IF pass = "full" THEN autoc.adv ELSE adv_was
    /\ \/ /\ autoc' = [autoc EXCEPT !.adv = Advertise(smart')] /\ Fine
          /\ UNCHANGED status
          /\ step' = IF LinkUp(autoc'.adv) \/ pass = "more" THEN "idle"
                     ELSE IF pass = "less" THEN "more"
                     ELSE IF "KR" \in adv_was' /\ adv_was' \cap {"KX4", "KX"} # {}
                          THEN "less" ELSE "idle"
       \/ UNCHANGED autoc /\ Fault /\ step' = "idle" /\ status' = "link_setup"
    /\ UNCHANGED <<Device, orig, stored, double, dirty, sem, started, num_rar,
                   san, lms_was, rturns>>

\* The firmware takes and leaves the semaphore, and with LESM moves AUTOC to
\* another link mode while it holds it. (external)
Firmware ==
    /\ \/ sem = "free" /\ sem' = "fw" /\ UNCHANGED autoc
       \/ sem = "fw" /\ sem' = "free"
          /\ \/ UNCHANGED autoc
             \/ lesm /\ autoc' = [autoc EXCEPT !.lms = "1g"]
    /\ lesm \/ Mine.locks
    /\ UNCHANGED <<Device, orig, stored, double, dirty, started, smart, num_rar,
                   san, step, status, lms_was, adv_was, rturns, rtrouble>>

Next == \/ Begin \/ Stop \/ PhyInit \/ Lock \/ MacReset \/ Restore \/ Write
        \/ Addrs \/ Start \/ SmartSpeed \/ Firmware
Spec == Init /\ [][Next]_rvars

---------------------------------------------------------------------------
TypeOK ==
    /\ autoc.adv \subseteq Modes /\ orig.adv \subseteq Modes
    /\ dirty \in 0..2 /\ sem \in {"free", "drv", "fw"} /\ step \in Steps
    /\ num_rar \in {0, 1}
    /\ \A b \in {lesm, wol, stored, double, started, smart, san} : b \in BOOLEAN

\* The hardware is started only when two resets followed the last time its
\* DMA master could not be stopped, in whatever calls of ixgbe_reset they were
\* issued ("Two consecutive resets are required",
\* ixgbe_disable_pcie_primary).
StartedClean == started => dirty = 0

\* No path of a reset keeps the semaphore (ixgbe_reset_hw_X540,
\* ixgbe_reset_hw_X550em, ixgbe_reset_hw_E610).
LockReturned == sem = "drv" => step = "reset"

\* A link that KR cannot carry comes up without KR once the hardware was
\* started and SmartSpeed ended without an error, in every bring-up and not
\* only the first (ixgbe_setup_mac_link_smartspeed).
Downgrades ==
    (mac = "82599" /\ ~lesm /\ started /\ step = "idle" /\ status = "ok") =>
        LinkUp(autoc.adv)
=============================================================================
