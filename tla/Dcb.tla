-------------------------------- MODULE Dcb --------------------------------
(***************************************************************************)
(* Data centre bridging: the netlink handlers (ixgbe_dcb_nl.c), the credit *)
(* computation (ixgbe_dcb.c) and the registers it ends in (82598/82599).   *)
(*                                                                         *)
(* In CEE mode the priority groups and PFC are edited in temp_dcb_cfg,     *)
(* which setall copies to dcb_cfg, noting what changed, and applies. In    *)
(* IEEE mode each handler applies what it is given and keeps a copy. Both  *)
(* are applied again whenever the interface is opened, because a reset     *)
(* clears the registers. The handlers run under rtnl, one at a time.       *)
(***************************************************************************)
EXTENDS Integers, FiniteSets

CONSTANTS
    NTc,     \* traffic classes of the device (num_tcs.pg_tcs)
    Ups,     \* user priorities, numbered like the classes
    Chips,   \* "82598", "82599" (and its successors)
    Groups,  \* priority groups a user sets: class -> percent, priority -> class
    Frames,  \* frame sizes (MTU with its headers)
    MaxSteps

VARIABLES
    mode,    \* dcbx_cap: "cee", "ieee" or "none"
    temp,    \* temp_dcb_cfg: group, PFC per class, pfc_mode_enable
    cfg,     \* dcb_cfg
    ets,     \* ixgbe_ieee_ets, a group or NoEts
    ipfc,    \* ixgbe_ieee_pfc->pfc_en, a set of priorities or NoPfc
    tcs,     \* netdev_get_num_tc; nonzero with IXGBE_FLAG_DCB_ENABLED
    prio,    \* the netdev's priority to class map
    frame, running, link,
    dchip,
    dcb_hw,  \* two maps, credits of three arbiters, flow control
    steps

dvars == <<mode, temp, cfg, ets, ipfc, tcs, prio, frame, running, link, dchip, dcb_hw, steps>>

Classes == 0..(NTc - 1)
NoEts == [map |-> <<>>, pct |-> <<>>]
NoPfc == {-2}

-----------------------------------------------------------------------------
(* Credits.                                                                *)
MaxRefill == 511
MaxCredit == 4095

Lesser(a, b) == IF a <= b THEN a ELSE b
Greater(a, b) == IF a <= b THEN b ELSE a

\* Half a frame in units of 64 bytes, rounded up.
MinCredit(f) == (f \div 2 + 63) \div 64

\* The smallest multiplier that gives the smallest share a frame.
Multiplier(pct, f) ==
    LET shares == {100} \cup {pct[t] : t \in {c \in Classes : pct[c] > 0}}
        least == CHOOSE p \in shares : \A q \in shares : p <= q
    IN MinCredit(f) \div least + 1

Refill(pct, f, t) == Greater(Lesser(pct[t] * Multiplier(pct, f), MaxRefill), MinCredit(f))

\* ixgbe_dcb_calculate_tc_credits_cee: a small share is raised to a frame.
CreditsCee(pct, f) ==
    [t \in Classes |-> [refill |-> Refill(pct, f, t),
                        max |-> Greater((pct[t] * MaxCredit) \div 100, MinCredit(f))]]

\* ixgbe_dcb_calculate_tc_credits: only a share of zero is.
CreditsIeee(pct, f) ==
    [t \in Classes |-> [refill |-> Refill(pct, f, t),
                        max |-> IF pct[t] > 0 THEN (pct[t] * MaxCredit) \div 100
                                ELSE MinCredit(f)]]

-----------------------------------------------------------------------------
(* Registers.                                                              *)
\* Link flow control, where the set of the priorities with PFC stands otherwise.
Link == {-1}

\* After a reset; flow control is then none until the link comes up.
HwReset ==
    LET none == [t \in Classes |-> [refill |-> 0, max |-> 0]]
        flat == [u \in Ups |-> 0]
    IN [rxmap |-> flat, txmap |-> flat, rx |-> none, desc |-> none, data |-> none,
        fc |-> {}, xoff |-> {}]

\* The three arbiters of each chip. Only the 82599 maps priorities to classes;
\* on the 82598 a priority is a class.
RxArbiter82598(h, cr) == [h EXCEPT !.rx = cr]
TxDescArbiter82598(h, cr) == [h EXCEPT !.desc = cr]
TxDataArbiter82598(h, cr) == [h EXCEPT !.data = cr]
HwConfig82598(h, cr) == TxDataArbiter82598(TxDescArbiter82598(RxArbiter82598(h, cr), cr), cr)

RxArbiter82599(h, map, cr) == [h EXCEPT !.rxmap = map, !.rx = cr]
TxDescArbiter82599(h, cr) == [h EXCEPT !.desc = cr]
TxDataArbiter82599(h, map, cr) == [h EXCEPT !.txmap = map, !.data = cr]
HwConfig82599(h, map, cr) ==
    TxDataArbiter82599(TxDescArbiter82599(RxArbiter82599(h, map, cr), cr), map, cr)

\* PFC for the priorities us: the classes that send XOFF have their watermarks
\* enabled.
Pfc82598(h, us) == [h EXCEPT !.fc = us, !.xoff = us \cap Classes]
Pfc82599(h, us, map) == [h EXCEPT !.fc = us, !.xoff = {map[u] : u \in us}]

\* ixgbe_dcb_config_pfc and ixgbe_dcb_hw_config.
ConfigPfc(h, us, map) == IF dchip = "82598" THEN Pfc82598(h, us) ELSE Pfc82599(h, us, map)
HwConfig(h, map, cr) ==
    IF dchip = "82598" THEN HwConfig82598(h, cr) ELSE HwConfig82599(h, map, cr)

\* fc_enable, with both directions negotiated.
LinkFc(h) == [h EXCEPT !.fc = Link, !.xoff = Classes]

\* ixgbe_dcb_unpack_pfc_cee.
PfcUps(c) == {u \in Ups : c.pfc[c.group.map[u]]}

\* ixgbe_dcb_hw_config_cee.
HwConfigCee(h, c, f) ==
    LET set == HwConfig(h, c.group.map, CreditsCee(c.group.pct, f))
    IN IF c.on THEN ConfigPfc(set, PfcUps(c), c.group.map) ELSE set

\* ixgbe_dcb_hw_ets.
HwEts(h, e, f) == HwConfig(h, e.map, CreditsIeee(e.pct, f))

\* ixgbe_configure_dcb, in ixgbe_configure after a reset.
ConfigureDcb(m, c, e, p, n, f) ==
    IF n = 0 THEN HwReset
    ELSE IF m # "ieee" THEN HwConfigCee(HwReset, c, f)
    ELSE IF e = NoEts THEN HwReset
    ELSE IF p = NoPfc THEN HwEts(HwReset, e, f)
    ELSE ConfigPfc(HwEts(HwReset, e, f), p, e.map)

-----------------------------------------------------------------------------
Init ==
    /\ mode = "cee"
    /\ \E g \in Groups : \* ixgbe_init_dcb: equal shares, all priorities in class 0
         /\ \A u \in Ups : g.map[u] = 0
         /\ temp = [group |-> g, pfc |-> [t \in Classes |-> FALSE], on |-> FALSE]
    /\ cfg = temp
    /\ ets = NoEts /\ ipfc = NoPfc
    /\ tcs = 0
    /\ prio = [u \in Ups |-> 0]
    /\ frame \in Frames
    /\ dchip \in Chips
    /\ running = FALSE /\ link = FALSE
    /\ dcb_hw = HwReset
    /\ steps = 0

Step == steps < MaxSteps /\ steps' = steps + 1

\* setpgtccfgtx/rx, setpgbwgcfgtx/rx.
SetPg(g) ==
    /\ Step
    /\ temp' = [temp EXCEPT !.group = g]
    /\ UNCHANGED <<mode, cfg, ets, ipfc, tcs, prio, frame, running, link, dcb_hw>>

\* ixgbe_dcbnl_set_pfc_cfg: a difference turns the mode on.
SetPfcCfg(u, on) ==
    /\ Step
    /\ LET t == temp.group.map[u]
       IN temp' = [temp EXCEPT !.pfc[t] = on, !.on = @ \/ on # cfg.pfc[t]]
    /\ UNCHANGED <<mode, cfg, ets, ipfc, tcs, prio, frame, running, link, dcb_hw>>

SetPfcState(on) ==
    /\ Step
    /\ temp' = [temp EXCEPT !.on = on]
    /\ UNCHANGED <<mode, cfg, ets, ipfc, tcs, prio, frame, running, link, dcb_hw>>

\* ixgbe_copy_dcb_cfg: the bits of what changed.
Changes ==
    (IF temp.group # cfg.group THEN {"pg"} ELSE {})
    \cup (IF temp.group.map # cfg.group.map THEN {"pfc", "app"} ELSE {})
    \cup (IF temp.pfc # cfg.pfc \/ temp.on # cfg.on THEN {"pfc"} ELSE {})

\* ixgbe_dcbnl_set_all with the bits in set: the group, then flow control, and
\* a device reset when the map changed.
AppliedPg(set) == IF "pg" \in set THEN HwConfigCee(dcb_hw, temp, frame) ELSE dcb_hw
Applied(set) ==
    LET h == AppliedPg(set)
    IN IF "app" \in set /\ running THEN ConfigureDcb("cee", temp, ets, ipfc, tcs, frame)
       ELSE IF "pfc" \notin set THEN h
       ELSE IF temp.on THEN ConfigPfc(h, PfcUps(temp), temp.group.map)
       ELSE LinkFc(h)

ApplyAll(set) ==
    /\ cfg' = temp
    /\ dcb_hw' = Applied(set)
    /\ prio' = IF "pg" \in set THEN temp.group.map ELSE prio
    /\ link' = (link /\ ~("app" \in set /\ running))

SetAll ==
    /\ Step
    /\ mode = "cee"
    /\ Changes # {}
    /\ ApplyAll(Changes)
    /\ UNCHANGED <<mode, temp, ets, ipfc, tcs, frame, running>>

\* ixgbe_set_prio_tc_map in mode m with the IEEE group e.
PrioMap(m, e) ==
    IF m = "cee" THEN cfg.group.map ELSE IF e # NoEts THEN e.map ELSE [u \in Ups |-> 0]

\* ixgbe_setup_tc in mode m with the IEEE group e: the queues are built again
\* between a close (or a reset) and an open.
Off(c) == [c EXCEPT !.on = FALSE]
SetupTc(n, m, e) ==
    LET c == IF n = 0 THEN Off(cfg) ELSE cfg
    IN /\ tcs' = n
       /\ prio' = IF n > 0 THEN PrioMap(m, e) ELSE [u \in Ups |-> 0]
       /\ cfg' = c
       /\ temp' = IF n = 0 THEN Off(temp) ELSE temp
       /\ link' = FALSE
       /\ dcb_hw' = IF running THEN ConfigureDcb(m, c, e, ipfc, n, frame) ELSE HwReset

\* ixgbe_dcbnl_set_state.
SetState(on) ==
    /\ Step
    /\ mode = "cee"
    /\ on # (tcs > 0)
    /\ SetupTc(IF on THEN NTc ELSE 0, mode, ets)
    /\ UNCHANGED <<mode, ets, ipfc, frame, running>>

\* tc mqprio.
SetupTcMqprio(n) ==
    /\ Step
    /\ SetupTc(n, mode, ets)
    /\ UNCHANGED <<mode, ets, ipfc, frame, running>>

Top(e) == CHOOSE t \in {e.map[u] : u \in Ups} : \A u \in Ups : e.map[u] <= t
MaxTc(e) == IF Top(e) = 0 THEN 0 ELSE Top(e) + 1

\* ixgbe_dcbnl_ieee_setets: the copy is kept even when the group is refused.
SetEtsRefused(e) ==
    /\ Step
    /\ mode = "ieee"
    /\ MaxTc(e) > NTc
    /\ ets' = e
    /\ UNCHANGED <<mode, temp, cfg, ipfc, tcs, prio, frame, running, link, dcb_hw>>

\* The state of a setets that is accepted, in mode m: the classes are set up
\* again if their number changes, the device is reset if the map does.
SetEtsTo(e, m) ==
    /\ ets' = e
    /\ IF MaxTc(e) # tcs
       THEN LET c == IF MaxTc(e) = 0 THEN Off(cfg) ELSE cfg
                h == IF running THEN ConfigureDcb(m, c, e, ipfc, MaxTc(e), frame) ELSE HwReset
            IN /\ tcs' = MaxTc(e)
               /\ prio' = IF MaxTc(e) > 0 THEN e.map ELSE [u \in Ups |-> 0]
               /\ cfg' = c
               /\ temp' = IF MaxTc(e) = 0 THEN Off(temp) ELSE temp
               /\ link' = FALSE
               /\ dcb_hw' = HwEts(h, e, frame)
       ELSE LET reset == running /\ (ets = NoEts \/ ets.map # e.map)
                h == IF reset THEN ConfigureDcb(m, cfg, e, ipfc, tcs, frame) ELSE dcb_hw
            IN /\ link' = (link /\ ~reset)
               /\ dcb_hw' = HwEts(h, e, frame)
               /\ UNCHANGED <<tcs, prio, cfg, temp>>

SetEts(e) ==
    /\ Step
    /\ mode = "ieee"
    /\ MaxTc(e) <= NTc
    /\ SetEtsTo(e, mode)
    /\ UNCHANGED <<mode, ipfc, frame, running>>

\* ixgbe_dcbnl_ieee_setpfc: without priorities link flow control comes back.
SetIeeePfc(us) ==
    /\ Step
    /\ mode = "ieee"
    /\ ipfc' = us
    /\ dcb_hw' = IF us # {} THEN ConfigPfc(dcb_hw, us, ets.map) ELSE LinkFc(dcb_hw)
    /\ UNCHANGED <<mode, temp, cfg, ets, tcs, prio, frame, running, link>>

\* ixgbe_dcbnl_setdcbx. The defaults of IEEE mode are an empty group and no PFC;
\* CEE mode applies dcb_cfg with every bit; without both, the IEEE handlers the
\* code calls refuse (the mode is no longer IEEE) and the classes go.
ToIeee ==
    /\ Step
    /\ mode # "ieee"
    /\ mode' = "ieee"
    /\ LET zero == [map |-> [u \in Ups |-> 0], pct |-> [t \in Classes |-> 0]]
       IN SetEtsTo(zero, "ieee")
    /\ ipfc' = {}
    /\ UNCHANGED <<frame, running>>

ToCee ==
    /\ Step
    /\ mode # "cee"
    /\ mode' = "cee"
    /\ ApplyAll({"pg", "pfc", "app"})
    /\ UNCHANGED <<temp, ets, ipfc, tcs, frame, running>>

ToNone ==
    /\ Step
    /\ mode # "none"
    /\ mode' = "none"
    /\ SetupTc(0, "none", ets)
    /\ UNCHANGED <<ets, ipfc, frame, running>>

\* ixgbe_open and ixgbe_close; ixgbe_change_mtu restarts a running interface.
Open ==
    /\ ~running
    /\ running' = TRUE
    /\ link' = FALSE
    /\ dcb_hw' = ConfigureDcb(mode, cfg, ets, ipfc, tcs, frame)
    /\ UNCHANGED <<mode, temp, cfg, ets, ipfc, tcs, prio, frame, steps>>

Close ==
    /\ Step
    /\ running
    /\ running' = FALSE
    /\ link' = FALSE
    /\ dcb_hw' = HwReset
    /\ UNCHANGED <<mode, temp, cfg, ets, ipfc, tcs, prio, frame>>

ReinitFor(f) == IF running THEN ConfigureDcb(mode, cfg, ets, ipfc, tcs, f) ELSE dcb_hw
ChangeMtu(f) ==
    /\ Step
    /\ f # frame
    /\ frame' = f
    /\ dcb_hw' = ReinitFor(f)
    /\ link' = FALSE
    /\ UNCHANGED <<mode, temp, cfg, ets, ipfc, tcs, prio, running>>

\* ixgbe_watchdog_update_link: link flow control unless PFC is in use.
LinkUp ==
    /\ running /\ ~link
    /\ link' = TRUE
    /\ LET pfc == cfg.on \/ ipfc \notin {NoPfc, {}}
       IN dcb_hw' = IF tcs > 0 /\ pfc THEN dcb_hw ELSE LinkFc(dcb_hw)
    /\ UNCHANGED <<mode, temp, cfg, ets, ipfc, tcs, prio, frame, running, steps>>

Refused == {[g EXCEPT !.map = [u \in Ups |-> NTc]] : g \in Groups}

Operation ==
    \/ \E g \in Groups : SetPg(g) \/ SetEts(g)
    \/ \E e \in Refused : SetEtsRefused(e)
    \/ \E u \in Ups, on \in BOOLEAN : SetPfcCfg(u, on)
    \/ \E on \in BOOLEAN : SetPfcState(on) \/ SetState(on)
    \/ SetAll
    \/ \E n \in 0..NTc : SetupTcMqprio(n)
    \/ \E us \in SUBSET Ups : SetIeeePfc(us)
    \/ ToIeee \/ ToCee \/ ToNone
    \/ Open \/ Close \/ LinkUp
    \/ \E f \in Frames : ChangeMtu(f)

Next == Operation /\ UNCHANGED dchip

Spec == Init /\ [][Next]_dvars

-----------------------------------------------------------------------------
TypeOK ==
    /\ mode \in {"cee", "ieee", "none"}
    /\ temp.group \in Groups /\ cfg.group \in Groups
    /\ tcs \in 0..NTc
    /\ {running, link} \subseteq BOOLEAN
    /\ dcb_hw.fc \in SUBSET Ups \cup {Link}
    /\ steps \in 0..MaxSteps

\* In CEE mode the registers of an open interface are those of the accepted
\* configuration, through every order of setall, mode switches to IEEE and
\* back, resets and changes of the MTU: the two priority maps of an 82599, the
\* PFC priorities and the classes that send XOFF for them, and in all three
\* arbiters for each class the credits for its share, which let it refill and
\* hold at least half a frame of the current size
\* (ixgbe_dcb_calculate_tc_credits_cee).
DcbApplied ==
    running /\ mode = "cee" /\ tcs > 0 =>
    /\ dchip # "82598" => dcb_hw.rxmap = cfg.group.map /\ dcb_hw.txmap = cfg.group.map
    /\ cfg.on =>
         /\ dcb_hw.fc = PfcUps(cfg)
         /\ dcb_hw.xoff = IF dchip = "82598" THEN PfcUps(cfg)
                          ELSE {t \in Classes : \E u \in PfcUps(cfg) : cfg.group.map[u] = t}
    /\ dcb_hw.desc = dcb_hw.rx /\ dcb_hw.data = dcb_hw.rx
    /\ \A t \in Classes :
         LET c == dcb_hw.rx[t]
         IN /\ c = CreditsCee(cfg.group.pct, frame)[t]
            /\ c.refill \in MinCredit(frame)..MaxRefill
            /\ c.max \in MinCredit(frame)..MaxCredit
            /\ \A s \in Classes : cfg.group.pct[s] <= cfg.group.pct[t] =>
                 dcb_hw.rx[s].refill <= c.refill
=============================================================================
