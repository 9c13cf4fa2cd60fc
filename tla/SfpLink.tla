------------------------------ MODULE SfpLink ------------------------------
(***************************************************************************)
(* The fibre port of an 82599: which module the cage holds, which one the  *)
(* driver believes it holds, and the link set-up that follows.             *)
(*                                                                         *)
(* Inserting or pulling a module raises a pin interrupt, light from the    *)
(* link partner another; the handler (ixgbe_check_sfp_event) only sets a   *)
(* flag. The service task then identifies the module over I2C              *)
(* (ixgbe_sfp_detection_subtask), loads its init sequence                  *)
(* (ixgbe_setup_sfp_modules_82599) and sets the link up                    *)
(* (ixgbe_sfp_link_config_subtask), which for a dual-speed module means    *)
(* trying 10G, then 1G, then going back to 10G. The bit                    *)
(* __IXGBE_IN_SFP_INIT keeps those, the ethtool speed change and           *)
(* ixgbe_reset apart, but not the interrupts, the cage or the partner.     *)
(***************************************************************************)
EXTENDS Integers

CONSTANTS
    Modules,        \* what may be put in the cage
    MaxChanges,     \* bound: insertions, pulls and changes of the partner
    MaxOps,         \* bound: ethtool requests and down/up cycles
    MaxTrouble      \* bound: failed bus reads, semaphores and AUTOC writes

VARIABLES
    cage,           \* the module in the cage, "none" when empty
    partner,        \* the speed of the light coming in, 0 when dark
    phy,            \* hw->phy and hw->mac: [sfp_type, multi, setup_needed, op]
    sfp_reset,      \* IXGBE_FLAG2_SFP_NEEDS_RESET
    link_config,    \* IXGBE_FLAG_NEED_LINK_CONFIG
    corectl,        \* the module whose init sequence CORECTL was given
    rate, lms,      \* the speed of the rate-select pins and of AUTOC.LMS
    advertised,     \* hw->phy.autoneg_advertised, a set of speeds
    job,            \* what holds __IXGBE_IN_SFP_INIT, and where it is
    up, registered, \* the interface is up; the netdev is registered
    spoiled,        \* which of the last set-ups, of "module" and "link", failed
    changes, fops, trouble

fibre == <<cage, partner, phy, sfp_reset, link_config, corectl, rate, lms,
           advertised, job, up, registered, spoiled, changes, fops, trouble>>

Speeds == {1, 10}

Idle == [pc |-> "idle", speed |-> {}, last |-> FALSE, user |-> FALSE, old |-> {}]

\* ixgbe_get_link_capabilities_82599 for a fibre port, whose stored AUTOC is
\* 10G serial.
Caps(p) == IF p.sfp_type = "one" THEN {1}
           ELSE IF p.multi THEN Speeds ELSE {10}

\* ixgbe_init_mac_link_ops_82599: the operation setup_link stands for.
LinkOp(multi) == IF multi THEN "multi" ELSE "plain"

\* The module works when its init sequence is loaded; a dual-speed one also
\* follows the rate-select pins.
LinkUp == /\ partner = lms
          /\ cage = "dual" => rate = lms
          /\ cage = "one" => lms = 1
          /\ cage # "none"

Init ==
    /\ cage = "none" /\ partner = 0
    /\ phy = [sfp_type |-> "none", multi |-> FALSE, setup_needed |-> FALSE,
              op |-> "plain"]
    /\ sfp_reset = FALSE /\ link_config = FALSE
    /\ corectl = "none" /\ rate = 10 /\ lms = 10 /\ advertised = {}
    /\ job = Idle /\ up = FALSE /\ registered = TRUE /\ spoiled = {}
    /\ changes = 0 /\ fops = 0 /\ trouble = 0

Keep == UNCHANGED <<changes, fops>>
World == UNCHANGED <<cage, partner>>

---------------------------------------------------------------------------
(* The cage and the partner, and the interrupts they raise. A cause raised *)
(* while the interface is down sets nothing.                               *)

Insert(m) ==
    /\ cage = "none" /\ changes < MaxChanges /\ changes' = changes + 1
    /\ cage' = m
    /\ sfp_reset' = (sfp_reset \/ up)
    /\ UNCHANGED <<partner, phy, link_config, corectl, rate, lms, advertised,
                   job, up, registered, spoiled, fops, trouble>>

Pull ==
    /\ cage # "none" /\ changes < MaxChanges /\ changes' = changes + 1
    /\ cage' = "none"
    /\ sfp_reset' = (sfp_reset \/ up)
    /\ UNCHANGED <<partner, phy, link_config, corectl, rate, lms, advertised,
                   job, up, registered, spoiled, fops, trouble>>

Light(s) ==
    /\ partner # s /\ changes < MaxChanges /\ changes' = changes + 1
    /\ partner' = s
    /\ link_config' = (link_config \/ up)
    /\ UNCHANGED <<cage, phy, sfp_reset, corectl, rate, lms, advertised,
                   job, up, registered, spoiled, fops, trouble>>

---------------------------------------------------------------------------
(* Identification, in the service task and in ixgbe_reset.                 *)

\* ixgbe_identify_sfp_module_generic on the module m: the stored type, the
\* dual-speed mark and sfp_setup_needed. A failed read forgets the type and
\* keeps the rest.
Identified(m) ==
    [phy EXCEPT !.sfp_type = m, !.multi = (m = "dual"),
                !.setup_needed = (@ \/ m # phy.sfp_type)]
NotPresent == [phy EXCEPT !.sfp_type = "none"]

\* unregister_netdev closes the interface; ixgbe_down resets the adapter and
\* the reset drops the flags.
Unregistered ==
    /\ registered' = FALSE /\ up' = FALSE
    /\ sfp_reset' = FALSE /\ link_config' = FALSE
    /\ job' = Idle

\* The service task's detection finds a module it supports so far.
Detect ==
    /\ up /\ sfp_reset /\ job = Idle
    /\ cage \notin {"none", "bad"}
    /\ phy' = Identified(cage)
    /\ sfp_reset' = FALSE
    /\ job' = [Idle EXCEPT !.pc = "setup"]
    /\ World /\ Keep
    /\ UNCHANGED <<link_config, corectl, rate, lms, advertised, up, registered,
                   spoiled, trouble>>

\* Nothing in the cage, or the bus does not answer: the flag stays set and the
\* next pass polls again.
DetectNothing ==
    /\ up /\ sfp_reset /\ job = Idle
    /\ \/ cage = "none" /\ UNCHANGED trouble
       \/ cage # "none" /\ trouble < MaxTrouble /\ trouble' = trouble + 1
    /\ phy' = NotPresent
    /\ World /\ Keep
    /\ UNCHANGED <<sfp_reset, link_config, corectl, rate, lms, advertised, job,
                   up, registered, spoiled>>

DetectUnsupported ==
    /\ up /\ sfp_reset /\ job = Idle /\ cage = "bad"
    /\ Unregistered
    /\ World /\ Keep
    /\ UNCHANGED <<phy, corectl, rate, lms, advertised, spoiled, trouble>>

---------------------------------------------------------------------------
(* ixgbe_setup_sfp_modules_82599 from the service task. Whatever it        *)
(* returns, short of "not supported", the link is set up next.             *)

SetupSfp ==
    /\ job.pc = "setup" /\ phy.sfp_type # "noinit"
    /\ phy' = [phy EXCEPT !.op = LinkOp(phy.multi)]
    /\ \/ corectl' = phy.sfp_type /\ lms' = 10 /\ spoiled' = spoiled \ {"module"}
          /\ UNCHANGED trouble
       \/ /\ trouble < MaxTrouble /\ trouble' = trouble + 1
          /\ spoiled' = spoiled \cup {"module"}
          /\ corectl' \in {corectl, phy.sfp_type} /\ lms' = lms
    /\ link_config' = TRUE
    /\ job' = Idle
    /\ World /\ Keep
    /\ UNCHANGED <<sfp_reset, rate, advertised, up, registered>>

\* The EEPROM has no init sequence for this module.
SetupUnsupported ==
    /\ job.pc = "setup" /\ phy.sfp_type = "noinit"
    /\ phy' = [phy EXCEPT !.op = LinkOp(phy.multi)]
    /\ Unregistered
    /\ World /\ Keep
    /\ UNCHANGED <<corectl, rate, lms, advertised, spoiled, trouble>>

---------------------------------------------------------------------------
(* Link set-up: from the service task, and from ethtool.                   *)

FirstTry(op, speeds) == IF op = "plain" THEN "plain"
                        ELSE IF 10 \in speeds THEN "try10" ELSE "try1"

\* ixgbe_sfp_link_config_subtask: the highest capable speed, or all of them
\* when the module can change speed.
LinkConfig ==
    /\ up /\ link_config /\ job = Idle
    /\ link_config' = FALSE
    /\ job' = [Idle EXCEPT !.pc = FirstTry(phy.op, Caps(phy)),
                           !.speed = Caps(phy)]
    /\ World /\ Keep
    /\ UNCHANGED <<phy, sfp_reset, corectl, rate, lms, advertised, up,
                   registered, spoiled, trouble>>

\* ixgbe_set_link_ksettings: refused unless the module has two speeds or
\* nothing changes.
SetSpeed(s) ==
    /\ registered /\ fops < MaxOps /\ fops' = fops + 1
    /\ phy.multi /\ s # advertised /\ job = Idle
    /\ job' = [pc |-> FirstTry(phy.op, s), speed |-> s, last |-> FALSE,
               user |-> TRUE, old |-> advertised]
    /\ World
    /\ UNCHANGED <<phy, sfp_reset, link_config, corectl, rate, lms, advertised,
                   up, registered, spoiled, changes, trouble>>

\* An error ends the service task's set-up; ethtool goes back to the speeds
\* it had, once.
Aborted ==
    job' = IF job.user /\ job.old # {}
           THEN [Idle EXCEPT !.pc = FirstTry(phy.op, job.old), !.speed = job.old]
           ELSE Idle

\* ixgbe_setup_mac_link_82599 alone: the speed of a module that has one. A
\* speed the module lacks is an error, as is a failed AUTOC write.
Plain ==
    /\ job.pc = "plain"
    /\ World /\ Keep
    /\ \/ /\ job.speed \cap Caps(phy) # {}
          /\ lms' = IF job.speed \cap Caps(phy) = {1} THEN 1 ELSE 10
          /\ job' = Idle /\ spoiled' = spoiled \ {"link"} /\ UNCHANGED trouble
       \/ /\ trouble < MaxTrouble /\ trouble' = trouble + 1
          /\ lms' = lms /\ spoiled' = spoiled \cup {"link"} /\ Aborted
    /\ UNCHANGED <<phy, sfp_reset, link_config, corectl, rate, advertised, up,
                   registered>>

\* One try of ixgbe_setup_mac_link_multispeed_fiber: the rate-select pins,
\* then AUTOC; an error leaves the pins changed.
Try(s) ==
    /\ job.pc = IF s = 10 THEN "try10" ELSE "try1"
    /\ rate' = s
    /\ World /\ Keep
    /\ \/ /\ lms' = s /\ UNCHANGED <<trouble, spoiled>>
          /\ job' = [job EXCEPT !.pc = IF s = 10 THEN "wait10" ELSE "wait1"]
       \/ /\ trouble < MaxTrouble /\ trouble' = trouble + 1
          /\ lms' = lms /\ spoiled' = spoiled \cup {"link"} /\ Aborted
    /\ UNCHANGED <<phy, sfp_reset, link_config, corectl, advertised, up, registered>>

\* What the function does after a try without link: the next lower speed,
\* then once more the highest one, alone.
LowerStay == IF job.pc = "wait1" /\ 10 \in job.speed /\ ~job.last THEN "try10"
             ELSE "idle"
Lower == IF job.pc = "wait10" /\ 1 \in job.speed /\ ~job.last THEN "try1"
         ELSE IF job.pc = "wait1" /\ 10 \in job.speed /\ ~job.last THEN "try10"
         ELSE "idle"

Wait ==
    /\ job.pc \in {"wait10", "wait1"}
    /\ World /\ Keep
    /\ LET next == IF LinkUp THEN "idle" ELSE Lower
       IN  IF next = "idle"
           THEN /\ job' = Idle /\ advertised' = job.speed
                /\ spoiled' = spoiled \ {"link"}
           ELSE /\ job' = [job EXCEPT !.pc = next, !.last = (next = "try10")]
                /\ UNCHANGED <<advertised, spoiled>>
    /\ UNCHANGED <<phy, sfp_reset, link_config, corectl, rate, lms, up,
                   registered, trouble>>

---------------------------------------------------------------------------
(* Down and up. ixgbe_reset waits for the bit, drops the flags, and its    *)
(* init_hw identifies the module, sets it up when its type changed, and    *)
(* restores the stored AUTOC.                                              *)

Down ==
    /\ up /\ job = Idle /\ fops < MaxOps /\ fops' = fops + 1
    /\ up' = FALSE /\ sfp_reset' = FALSE /\ link_config' = FALSE
    /\ IF cage \in {"none", "bad"}
       THEN /\ phy' = IF cage = "none" THEN NotPresent ELSE phy
            /\ UNCHANGED <<corectl, spoiled>>
            /\ lms' = IF cage = "none" THEN 10 ELSE lms
       ELSE LET p == Identified(cage)
                q == [p EXCEPT !.op = LinkOp(p.multi), !.setup_needed = FALSE]
            IN  /\ phy' = q
                /\ IF p.setup_needed /\ cage # "noinit"
                   THEN corectl' = cage /\ spoiled' = spoiled \ {"module"}
                   ELSE UNCHANGED <<corectl, spoiled>>
                /\ lms' = IF p.setup_needed /\ cage = "noinit" THEN lms ELSE 10
    /\ World
    /\ UNCHANGED <<rate, advertised, job, registered, changes, trouble>>

\* ixgbe_up_complete -> ixgbe_sfp_link_config: search as soon as we start.
SearchNot == sfp_reset' = sfp_reset
Searching == sfp_reset' = TRUE

Up ==
    /\ registered /\ ~up
    /\ up' = TRUE
    /\ Searching
    /\ World /\ Keep
    /\ UNCHANGED <<phy, link_config, corectl, rate, lms, advertised, job,
                   registered, spoiled, trouble>>

Service == \/ Detect \/ DetectNothing \/ DetectUnsupported
           \/ SetupSfp \/ SetupUnsupported \/ LinkConfig \/ Plain
           \/ Try(10) \/ Try(1) \/ Wait

Next == \/ \E m \in Modules : Insert(m)
        \/ Pull
        \/ \E s \in {0} \cup Speeds : Light(s)
        \/ Service
        \/ \E s \in (SUBSET Speeds) \ {{}} : SetSpeed(s)
        \/ Down \/ Up

\* The service timer keeps firing while the interface is up, and whoever
\* took the interface down brings it up again.
Spec == Init /\ [][Next]_fibre /\ WF_fibre(Service) /\ WF_fibre(Up)

---------------------------------------------------------------------------
TypeOK ==
    /\ cage \in Modules \cup {"none"} /\ partner \in {0} \cup Speeds
    /\ phy \in [sfp_type : Modules \cup {"none"}, multi : BOOLEAN,
                setup_needed : BOOLEAN, op : {"multi", "plain"}]
    /\ corectl \in Modules \cup {"none"} /\ rate \in Speeds /\ lms \in Speeds
    /\ advertised \subseteq Speeds
    /\ job.pc \in {"idle", "setup", "plain", "try10", "try1", "wait10", "wait1"}
    /\ job.speed \subseteq Speeds

\* A module that stays in the cage of a running interface is found, its init
\* sequence loaded unless loading failed, and the operations bound to it,
\* whatever was in the cage before and whenever the swap happened
\* (ixgbe_sfp_detection_subtask).
ModuleServed ==
    \A m \in {"dual", "one"} :
        <>[](cage = m /\ registered) =>
            <>[](/\ phy.sfp_type = m /\ phy.op = LinkOp(m = "dual")
                 /\ corectl = m \/ "module" \in spoiled)

\* Light of a speed the module can do brings the link up at that speed,
\* unless the last request left that speed out or was cut short by an error
\* (ixgbe_setup_mac_link_multispeed_fiber).
LinkComes ==
    \A s \in Speeds :
        <>[](cage = "dual" /\ registered /\ partner = s) =>
            <>[](LinkUp \/ s \notin advertised \/ "link" \in spoiled)
=============================================================================
