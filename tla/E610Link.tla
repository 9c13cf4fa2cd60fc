------------------------------ MODULE E610Link ------------------------------
(***************************************************************************)
(* The link of an E610, whose PHY belongs to the firmware: the driver asks *)
(* for the link state and sets the PHY configuration with admin commands,  *)
(* and learns of changes from the LSC interrupt and from link status       *)
(* events. Every Get Link Status command also switches those events on or  *)
(* off (LSE), so who asked last decides whether the next change is told.   *)
(*                                                                         *)
(* The port here is a copper one (ixgbe_is_sfp is false). The service task *)
(* is three steps - events, media, watchdog - and the rest of the world,   *)
(* the user's requests included, moves between them. A configuration is    *)
(* read, changed and written in one step: see "Not modelled" for overlaps. *)
(***************************************************************************)
EXTENDS Integers, Sequences, FiniteSetsExt

CONSTANTS
    Media,          \* what may be plugged in: the sets of speeds it carries
    Partners,       \* the sets of speeds a link partner offers
    Adverts,        \* the sets of speeds a user may ask to advertise
    Worlds,         \* what may happen in one behaviour: the user's requests, of
                    \* "speed", "eee", "pause", "cycle", and the changes, of
                    \* "media", "partner", with the bounds maxops, maxtrouble
    MaxChanges      \* bound: changes of the medium or of the partner

VARIABLES
    fw,             \* the firmware: [media, cfg, link, lse, events, lsc]
    partner,        \* what the link partner offers
    hw,             \* struct ixgbe_hw: [info, advertised, fc, eee_adv]
    ad,             \* struct ixgbe_adapter: see Adapter
    svc,            \* where the service task is
    spoiled,        \* a command failed, or the PHY was reset, since configured
    unset,          \* the last set-up of the link failed
    world,          \* a member of Worlds
    changes, lops, ltrouble

lvars == <<fw, partner, hw, ad, svc, spoiled, unset, world, changes, lops,
           ltrouble>>

Speeds == {1, 10}
Pauses == {"none", "full"}
Default == [types |-> Speeds, pause |-> "full", eee |-> FALSE]

Adapter == [up : BOOLEAN,               \* not __IXGBE_DOWN
            need : BOOLEAN,             \* IXGBE_FLAG_NEED_LINK_UPDATE
            eims : BOOLEAN,             \* the LSC interrupt is unmasked
            async : BOOLEAN,            \* IXGBE_FLAG2_FW_ASYNC_EVENT
            no_media : BOOLEAN,         \* IXGBE_FLAG2_NO_MEDIA
            link_up : BOOLEAN, link_speed : {0} \cup Speeds,
            carrier : BOOLEAN,
            eee_state : {"disabled", "enabled", "forced_down"}]

Init ==
    /\ \E m \in Media : fw = [media |-> m, cfg |-> Default, link |-> 0, lse |-> FALSE,
                             events |-> <<>>, lsc |-> FALSE]
    /\ partner \in Partners
    /\ \E a \in Adverts : hw = [info |-> [media |-> {}, link |-> 0], advertised |-> a,
                               fc |-> "full", eee_adv |-> TRUE]
    /\ ad = [up |-> FALSE, need |-> FALSE, eims |-> FALSE, async |-> FALSE,
             no_media |-> FALSE, link_up |-> FALSE, link_speed |-> 0,
             carrier |-> FALSE, eee_state |-> "enabled"]
    /\ svc = "idle" /\ spoiled = FALSE /\ unset = FALSE
    /\ world \in Worlds /\ changes = 0 /\ lops = 0 /\ ltrouble = 0

---------------------------------------------------------------------------
(* The commands. Each takes a record s = [fw, hw, ad, err, lost, unset,    *)
(* trouble] to the set of records it may lead to: one where the firmware   *)
(* answers and, while the bound allows, one where the command fails. err   *)
(* is the returned status, lost says that some status was ignored.         *)

Ok(s) == [s EXCEPT !.err = FALSE]
Fail(s) == IF s.trouble < world.maxtrouble
           THEN {[s EXCEPT !.err = TRUE, !.trouble = @ + 1]} ELSE {}
Then(S, Op(_)) == UNION {IF t.err THEN {t} ELSE Op(t) : t \in S}
Ignore(S) == {[t EXCEPT !.err = FALSE, !.lost = @ \/ t.err] : t \in S}
Both(S, Op(_)) == UNION {Op(t) : t \in Ignore(S)}

\* ixgbe_aci_get_link_info: refreshes hw->link and sets LSE as asked.
GetLinkInfo(s, ena) ==
    {[Ok(s) EXCEPT !.fw.lse = ena,
                   !.hw.info = [media |-> s.fw.media, link |-> s.fw.link]]}
    \cup Fail(s)

\* ixgbe_aci_get_phy_caps
GetPhyCaps(s) == {Ok(s)} \cup Fail(s)

\* ixgbe_update_link_info: also reads the module type of a present medium.
UpdateLinkInfo(s) ==
    Then(GetLinkInfo(s, TRUE),
         LAMBDA t : IF t.hw.info.media = {} THEN {t} ELSE GetPhyCaps(t))

\* ixgbe_aci_set_phy_cfg
SetPhyCfg(s, cfg) == {[Ok(s) EXCEPT !.fw.cfg = cfg]} \cup Fail(s)

\* ixgbe_setup_fc_E610, on the active configuration (copied by
\* ixgbe_copy_phy_caps_to_cfg): written only when the pause bits change.
SetupFc(s) ==
    Then(GetPhyCaps(s),
         LAMBDA t : IF t.fw.cfg.pause = t.hw.fc THEN {t}
                    ELSE SetPhyCfg(t, [t.fw.cfg EXCEPT !.pause = t.hw.fc]))

\* ixgbe_setup_eee_E610
SetupEee(s, on) ==
    Then(GetPhyCaps(s),
         LAMBDA t : SetPhyCfg(t, [t.fw.cfg EXCEPT !.eee = on /\ t.hw.eee_adv]))

\* ixgbe_setup_phy_link_E610: the advertised speeds, of those the medium (or,
\* without one, the default configuration) supports. It asks for the link with
\* events switched off.
Types(s) == s.hw.advertised \cap (IF s.hw.info.media # {} THEN s.hw.info.media
                                  ELSE Default.types)
SetupPhyLink(s) ==
    Then(Then(GetLinkInfo(s, FALSE), GetPhyCaps),
         LAMBDA t : IF Types(t) = t.fw.cfg.types THEN {t}
                    ELSE SetPhyCfg(t, [t.fw.cfg EXCEPT !.types = Types(t)]))

\* ixgbe_setup_link_E610 is ixgbe_setup_phy_link_speed_generic, which records
\* the speeds and reports success whatever the set-up did.
SetupLink(s, speeds) ==
    Ignore({[t EXCEPT !.unset = t.err] :
            t \in SetupPhyLink([s EXCEPT !.hw.advertised = speeds])})

\* ixgbe_check_link_E610 without waiting
CheckLink(s) == UpdateLinkInfo(s)

\* ixgbe_configure_lse (the event mask never changes)
ConfigureLse(s, activate) == GetLinkInfo(s, activate)

\* ixgbe_non_sfp_link_config
NonSfpLinkConfig(s) ==
    Then(Then(CheckLink(s), LAMBDA t : ConfigureLse(t, TRUE)),
         LAMBDA t : SetupLink(t, t.hw.advertised))

---------------------------------------------------------------------------
(* The watchdog.                                                           *)

\* ixgbe_check_link_for_eee_e610
EeeSpeed(speed) == speed > 1

\* ixgbe_fc_autoneg_E610, from fc_enable: asks with events switched off.
FcAutoneg(s) == Ignore(GetLinkInfo(s, FALSE))

\* ixgbe_watchdog_update_link, done once the link is up or, at any time, when
\* IXGBE_TRY_LINK_TIMEOUT has passed. A link that could not be asked for is
\* the one the adapter knew.
UpdateLink(s) ==
    LET checked == {[t EXCEPT !.ad.link_up = IF t.err THEN @ ELSE t.hw.info.link # 0,
                              !.ad.link_speed = IF t.err THEN @ ELSE t.hw.info.link] :
                    t \in CheckLink(s)}
        fc(t) == IF t.ad.link_up THEN Both(SetupFc(t), FcAutoneg) ELSE {t}
    IN  IF ~s.ad.need THEN {s}
        ELSE UNION {{[t EXCEPT !.ad.need = ~done, !.ad.eims = @ \/ done] :
                     done \in {TRUE, t.ad.link_up}} : t \in Both(checked, fc)}

\* ixgbe_watchdog_link_is_up marking EEE enabled again without setting it up.
LinkIsUpHalf(s) ==
    LET down == s.ad.eee_state = "enabled" /\ ~EeeSpeed(s.ad.link_speed)
        back == s.ad.eee_state = "forced_down" /\ EeeSpeed(s.ad.link_speed)
        eee == IF down THEN Ignore(SetupEee(s, FALSE)) ELSE {s}
        state == IF down THEN "forced_down" ELSE IF back THEN "enabled" ELSE s.ad.eee_state
    IN  IF ~s.ad.up \/ s.ad.carrier THEN {s}
        ELSE {[t EXCEPT !.ad.carrier = TRUE, !.ad.eee_state = state] : t \in eee}

\* ixgbe_watchdog_link_is_up: only from a carrier that was off. EEE goes down
\* with a slow link and comes back with a fast one.
LinkIsUp(s) ==
    LET down == s.ad.eee_state = "enabled" /\ ~EeeSpeed(s.ad.link_speed)
        back == s.ad.eee_state = "forced_down" /\ EeeSpeed(s.ad.link_speed)
        eee == IF down \/ back THEN Ignore(SetupEee(s, back)) ELSE {s}
        state == IF down THEN "forced_down" ELSE IF back THEN "enabled" ELSE s.ad.eee_state
    IN  IF ~s.ad.up \/ s.ad.carrier THEN {s}
        ELSE {[t EXCEPT !.ad.carrier = TRUE, !.ad.eee_state = state] : t \in eee}

\* ixgbe_watchdog_link_is_down
LinkIsDown(s) ==
    {[s EXCEPT !.ad.link_up = FALSE, !.ad.link_speed = 0, !.ad.carrier = FALSE]}

IsUpOrDown(s, isup) == IF isup THEN LinkIsUp(s) ELSE LinkIsDown(s)

\* The speeds as the two sides encode them: an event's 10G is the driver's 1G
\* (both 0x20); of the others only "no link" is the same.
SameCode(event, speed) == (event = 0 /\ speed = 0) \/ (event = 10 /\ speed = 1)

\* ixgbe_process_link_status_event, for an event that told of the link at e.
ProcessLinkEvent(s, e) ==
    LET book(t) ==
            LET isup == e # 0 \/ t.hw.info.link # 0
                m == [t EXCEPT !.ad.no_media = @ \/ t.hw.info.media = {}]
            IN  IF /\ isup = m.ad.link_up /\ isup = m.ad.carrier
                   /\ SameCode(e, m.ad.link_speed)
                THEN {m}
                ELSE UNION {IsUpOrDown(u, isup) :
                            u \in UpdateLink([m EXCEPT !.ad.need = TRUE])}
    IN  Both(UpdateLinkInfo(s), book)

---------------------------------------------------------------------------
(* The firmware and what is plugged in (external).                         *)

Best(s) == IF s = {} THEN 0 ELSE Max(s)
Told(f) == IF f.lse THEN [f EXCEPT !.events = Append(@, f.link)] ELSE f

Environment(change) ==
    /\ change \in world.changes /\ changes < MaxChanges /\ changes' = changes + 1
    /\ UNCHANGED <<hw, ad, svc, unset, world, lops, ltrouble>>

\* "PHY settings are reset on media insertion" (ixgbe_check_media_subtask).
Insert(m) ==
    /\ Environment("media") /\ fw.media = {} /\ m # {}
    /\ fw' = [fw EXCEPT !.media = m, !.cfg = Default]
    /\ spoiled' = TRUE /\ UNCHANGED partner

\* Pulling the medium is an event of its own (MEDIA_NA).
Pull ==
    /\ Environment("media") /\ fw.media # {}
    /\ fw' = Told([fw EXCEPT !.media = {}])
    /\ UNCHANGED <<partner, spoiled>>

PartnerChanges(p) ==
    /\ Environment("partner") /\ p # partner /\ partner' = p
    /\ UNCHANGED <<fw, spoiled>>

\* The link settles: an LSC interrupt and, with LSE on, an event.
Negotiate ==
    LET link == Best(fw.media \cap fw.cfg.types \cap partner)
    IN  /\ link # fw.link
        /\ fw' = Told([fw EXCEPT !.link = link, !.lsc = TRUE])
        /\ UNCHANGED <<partner, hw, ad, svc, spoiled, unset, world, changes, lops, ltrouble>>

---------------------------------------------------------------------------
State == [fw |-> fw, hw |-> hw, ad |-> ad, err |-> FALSE, lost |-> FALSE,
          unset |-> unset, trouble |-> ltrouble]
Becomes(s) == /\ fw' = s.fw /\ hw' = s.hw /\ ad' = s.ad /\ unset' = s.unset
              /\ ltrouble' = s.trouble /\ UNCHANGED <<partner, world, changes>>
\* A step that configures the interface anew starts the account of what failed.
Step(S) == \E s \in S : Becomes(s) /\ spoiled' = (spoiled \/ s.lost)
Fresh(S) == \E s \in S : Becomes(s) /\ spoiled' = (s.lost \/ s.err)

\* ixgbe_msix_other: ixgbe_check_lsc masks LSC and asks for a link update;
\* ixgbe_schedule_fw_event flags the events of an interface that is up.
Interrupt ==
    /\ \/ ad.eims /\ fw.lsc
       \/ ad.up /\ fw.events # <<>> /\ ~ad.async
    /\ fw' = [fw EXCEPT !.lsc = @ /\ ~ad.eims]
    /\ LET lsc == ad.eims /\ fw.lsc
       IN  ad' = [ad EXCEPT !.need = @ \/ lsc, !.eims = @ /\ ~(lsc /\ ad.up),
                            !.async = @ \/ (ad.up /\ fw.events # <<>>)]
    /\ UNCHANGED <<partner, hw, svc, spoiled, unset, world, changes, lops, ltrouble>>

\* ixgbe_handle_fw_event takes the pending events one by one.
ServiceEvents ==
    /\ svc = "idle" /\ ad.up /\ ad.async
    /\ IF fw.events = <<>> THEN Step({[State EXCEPT !.ad.async = FALSE]})
       ELSE Step({[s EXCEPT !.ad.async = s.fw.events # <<>>] :
                  s \in ProcessLinkEvent([State EXCEPT !.fw.events = Tail(@)],
                                         Head(fw.events))})
    /\ svc' = IF Len(fw.events) > 1 THEN "idle" ELSE "media"
    /\ UNCHANGED lops

\* ixgbe_check_media_subtask taking the flag back whatever the set-up said.
CheckMediaOnce(s) ==
    LET config(t) == {[c EXCEPT !.ad.no_media = FALSE] : c \in NonSfpLinkConfig(t)}
    IN  IF ~s.ad.no_media THEN {s}
        ELSE Then(UpdateLinkInfo(s),
                  LAMBDA t : IF t.hw.info.media = {} THEN {t} ELSE config(t))

\* ixgbe_check_media_subtask: the flag stays until the link is configured.
CheckMedia(s) ==
    LET config(t) == {[c EXCEPT !.ad.no_media = c.err] : c \in NonSfpLinkConfig(t)}
    IN  IF ~s.ad.no_media THEN {s}
        ELSE Then(UpdateLinkInfo(s),
                  LAMBDA t : IF t.hw.info.media = {} THEN {t} ELSE config(t))

ServiceMedia ==
    /\ \/ svc = "media"
       \/ svc = "idle" /\ ad.up /\ ~ad.async
    /\ Step(CheckMedia(State))
    /\ svc' = "watch" /\ UNCHANGED lops

\* ixgbe_watchdog_subtask
ServiceWatch ==
    /\ svc = "watch" /\ svc' = "idle"
    /\ Step(IF ad.up THEN UNION {IsUpOrDown(u, u.ad.link_up) : u \in UpdateLink(State)}
            ELSE {State})
    /\ UNCHANGED lops

Service == ServiceEvents \/ ServiceMedia \/ ServiceWatch

---------------------------------------------------------------------------
(* The user's requests, which hold the rtnl lock.                          *)

User(op) == /\ op \in world.ops /\ lops < world.maxops /\ lops' = lops + 1
            /\ UNCHANGED svc

\* ixgbe_down
Down(s) ==
    ConfigureLse([s EXCEPT !.ad.up = FALSE, !.ad.carrier = FALSE,
                           !.ad.need = FALSE, !.ad.eims = FALSE], FALSE)

\* ixgbe_configure (its EEE part) and ixgbe_up_complete: what the commands
\* return is reported and ignored.
Up(s) ==
    LET up(t) == NonSfpLinkConfig([t EXCEPT !.ad.up = TRUE])
    IN  {[t EXCEPT !.fw.lsc = FALSE, !.ad.need = TRUE, !.ad.eims = TRUE] :
         t \in Ignore(Both(SetupEee(s, s.ad.eee_state = "enabled"), up))}

Reinit(s) == IF s.ad.up THEN Both(Down(s), Up) ELSE {s}

\* ixgbe_open, with its second look at the link
Open ==
    /\ User("cycle") /\ ~ad.up
    /\ Fresh(Both(Both(Up(State), UpdateLinkInfo), NonSfpLinkConfig))

Close ==
    /\ User("cycle") /\ ad.up
    /\ Step(Down(State))

\* ixgbe_set_link_ksettings
SetSpeed(speeds) ==
    /\ User("speed") /\ speeds # hw.advertised
    /\ Step(SetupLink(State, speeds))

\* ixgbe_set_pauseparam_E610
SetPause(mode) ==
    /\ User("pause") /\ mode # hw.fc
    /\ LET s == Reinit([State EXCEPT !.hw.fc = mode])
       IN  IF ad.up THEN Fresh(s) ELSE Step(s)

\* ixgbe_set_keee_E610; ixgbe_validate_keee asks ixgbe_get_keee_E610, and a
\* request for what the PHY already does is not recorded.
SetEee(on) ==
    LET recorded(t) == Reinit([t EXCEPT !.ad.eee_state =
                                   IF on THEN "enabled" ELSE "disabled"])
        valid(t) == IF fw.cfg.eee = on \/ (on /\ ~EeeSpeed(ad.link_speed)) THEN {t}
                    ELSE Then(SetupEee([t EXCEPT !.hw.eee_adv = on], on), recorded)
        s == Then(Then(GetLinkInfo(State, TRUE), GetPhyCaps), valid)
    IN  /\ User("eee")
        /\ IF ad.up /\ fw.cfg.eee # on /\ (on => EeeSpeed(ad.link_speed))
           THEN Fresh(s) ELSE Step(s)

Next ==
    \/ \E m \in Media : Insert(m)
    \/ Pull
    \/ \E p \in Partners : PartnerChanges(p)
    \/ Negotiate
    \/ Interrupt
    \/ ServiceEvents \/ ServiceMedia \/ ServiceWatch
    \/ Open \/ Close
    \/ \E speeds \in Adverts : SetSpeed(speeds)
    \/ \E mode \in Pauses : SetPause(mode)
    \/ \E on \in BOOLEAN : SetEee(on)

\* The service timer runs while the interface is up, and a pass always ends.
Spec == Init /\ [][Next]_lvars /\ WF_lvars(Service)

---------------------------------------------------------------------------
TypeOK ==
    /\ fw.media \in Media \cup {{}} /\ fw.link \in {0} \cup Speeds
    /\ hw.advertised \subseteq Speeds /\ hw.info.media \in Media \cup {{}}
    /\ ad \in Adapter
    /\ svc \in {"idle", "media", "watch"}

(***************************************************************************)
(* When ixgbe_watchdog_link_is_up turns the carrier on, EEE is configured  *)
(* in the PHY exactly if the adapter says so, and it says so only on a     *)
(* link above 1G - whatever speeds the link went through, and whatever the *)
(* user asked in between - unless a command failed or the medium was       *)
(* changed since the interface was configured.                             *)
(***************************************************************************)
EeeAtLinkUp ==
    [][~ad.carrier /\ ad'.carrier /\ ~spoiled' =>
        /\ fw'.cfg.eee = (ad'.eee_state = "enabled")
        /\ ad'.eee_state = "enabled" => EeeSpeed(ad'.link_speed)]_lvars

(***************************************************************************)
(* A medium that comes back after the driver saw it gone                   *)
(* (IXGBE_FLAG2_NO_MEDIA) gets the user's speeds again, as                 *)
(* ixgbe_check_media_subtask promises: a failed question about the link    *)
(* does not end the attempts. A failed set-up does (see SetupLink).        *)
(***************************************************************************)
MediaServed ==
    /\ []<>~(ad.up /\ ad.no_media /\ fw.media # {})
    /\ [][ad.no_media /\ ~ad'.no_media /\ ad'.up =>
            fw'.cfg.types = hw'.advertised \cap fw'.media \/ unset']_lvars
=============================================================================
