------------------------------- MODULE X550Phy ------------------------------
(***************************************************************************)
(* The PHYs of an X550EM (X552, X553) device and how its two ports share   *)
(* the ways to them (ixgbe_x550.c, the MDIO part of ixgbe_phy.c).          *)
(*                                                                         *)
(* Each port has an integrated KR PHY whose registers are reached through  *)
(* one IOSF sideband, and, by device, an external Base-T PHY on MDIO, a    *)
(* PHY the firmware drives, or an SFP+ cage behind a CS4227 both ports     *)
(* reach over one I2C bus. Ports are serialised by the SW/FW semaphore     *)
(* (module SwFwSync; here one bit per resource) and, on X553, by a PHY     *)
(* token the firmware hands out through the host interface.                *)
(*                                                                         *)
(* A set-up function is a program: a sequence of register accesses, each   *)
(* of which takes its locks, may fail, and when it fails ends the          *)
(* function, leaves the function that was called, or is ignored, as in     *)
(* the code. A port runs one program at a time.                            *)
(***************************************************************************)
EXTENDS Integers, SequencesExt

CONSTANTS
    Worlds,         \* what may happen, see below
    MaxTries        \* bound on the retry loops (50 and 1000 in the code)

\* A world: the device, the ports in use, the operations called and the speeds
\* asked for, whether management blocks resets, words of the NVM and the LASI
\* masks set at the start, what the link partners can do; and the bounds on the programs started, on changes
\* of the Base-T links and on accesses that fail.

VARIABLES
    pworld,
    sm,             \* the semaphore bits "phy0", "phy1" and "i2c"
    token,          \* the port the firmware has given the PHY token to
    sb,             \* the sideband's CTRL and DATA registers
    krm,            \* the KR PHY registers of each port: sets of flags
    ext,            \* the external PHY of each port
    mux,            \* ESDP SDP1: the port the I2C multiplexer selects
    cs,             \* the CS4227: its SCRATCH register and who relies on it
    late,           \* a host interface command was given up and is unanswered
    run,            \* the program of each port
    irq,            \* FLAG2_PHY_INTERRUPT
    jobs, changes, faults

pvars == <<pworld, sm, token, sb, krm, ext, mux, cs, late, run, irq, jobs,
           changes, faults>>

Ports == {0, 1}
None == 2
Dev == pworld.dev
IsA == Dev \in {"a_kr", "a_sgmii", "a_1g_t", "a_sfp_n", "a_sfp", "a_10g_t"}
OwnBit(p) == IF p = 0 THEN "phy0" ELSE "phy1"

---------------------------------------------------------------------------
(* Steps of a program. fail: what a failing access does to the function    *)
(* that made it.                                                           *)

Access(op, bus, reg, off, on, fail, then) ==
    [op |-> op, bus |-> bus, reg |-> reg, off |-> off, on |-> on,
     fail |-> fail, then |-> then]
Rd(bus, reg, then) == Access("rd", bus, reg, {}, {}, "return", then)
Wr(bus, reg, on) == Access("wr", bus, reg, {}, on, "return", "go")
End == Access("end", "none", "none", {}, {}, "go on", "go")

\* Read a register, clear and set flags, write it back.
Rmw(bus, reg, off, on) ==
    <<Rd(bus, reg, "go"), Access("wr", bus, reg, off, on, "return", "go")>>

\* The same where the status of the write is overwritten by the next one, and
\* where both are ignored.
RmwLax(bus, reg, off, on) ==
    <<Rd(bus, reg, "go"), Access("wr", bus, reg, off, on, "go on", "go")>>
RmwAny(bus, reg, off, on) ==
    <<Access("rd", bus, reg, {}, {}, "go on", "go"),
      Access("wr", bus, reg, off, on, "go on", "go")>>

\* A function called without looking at its result.
Ignoring(prog) ==
    [i \in DOMAIN prog |->
        IF prog[i].fail = "return" THEN [prog[i] EXCEPT !.fail = "leave"]
        ELSE prog[i]] \o <<End>>

Fw(act, then) == <<Access("fw", "hic", act, {}, {}, "return", then)>>

---------------------------------------------------------------------------
(* The set-up functions.                                                   *)

Speed == {"s1g", "s10g", "san"}
Force == {"f1g", "f10g"}

RestartAn ==
    IF IsA THEN RmwLax("sb", "link_ctrl", {}, {"restart"})
                \o Rmw("sb", "flx", {}, {"restart"})
    ELSE Rmw("sb", "link_ctrl", {}, {"restart"})

SetupKrSpeed(speeds) ==
    RmwLax("sb", "link_ctrl", {"kr", "kx"},
           {"an"} \cup (IF 10 \in speeds THEN {"kr"} ELSE {})
                  \cup (IF 1 \in speeds THEN {"kx"} ELSE {}))
    \o (IF IsA THEN RmwLax("sb", "flx", Speed \cup {"an37", "sgmii"}, {"san", "an"})
        ELSE <<>>)
    \o RestartAn

\* ixgbe_setup_phy_link_generic on an external PHY: what to advertise, then
\* start again unless management forbids it. None of its accesses is checked.
SetupPhyLink(speeds) ==
    RmwAny("mdio", "an_10g", {"adv"}, IF 10 \in speeds THEN {"adv"} ELSE {})
    \o RmwAny("mdio", "an_1g", {"adv"}, IF 1 \in speeds THEN {"adv"} ELSE {})
    \o RmwAny("mdio", "an_100", {"adv"}, {})
    \o (IF pworld.blocked THEN <<>> ELSE RmwAny("mdio", "an_ctrl", {}, {"restart"}))

SetupSgmii ==
    Rmw("sb", "link_ctrl", {"an"} \cup Force, {"sgmii", "cl37", "f1g"})
    \o Rmw("sb", "sgmii", {}, {"f10", "f100"})
    \o Rmw("sb", "flx", Speed \cup {"an"}, {"s1g", "sgmii", "an37"})
    \o RestartAn

SetupFwLink == IF pworld.blocked THEN <<>> ELSE Fw("setup_link", "hot?")

SetupSgmiiFw ==
    Rmw("sb", "link_ctrl", {"an"} \cup Force, {"sgmii", "cl37"})
    \o Rmw("sb", "sgmii", {"f10", "f100"}, {})
    \o <<Wr("sb", "link_ctrl", {"sgmii", "cl37"})>>
    \o Rmw("sb", "flx", Speed \cup {"an"}, {"san", "sgmii", "an37"})
    \o Ignoring(RestartAn) \o Ignoring(SetupFwLink)

ResetPhyFw ==
    IF pworld.blocked THEN <<>>
    ELSE Fw("sw_reset", "go") \o Fw("init", "go") \o SetupFwLink
CheckOvertempFw == Fw("link_info", "hot?")

\* Force the KR PHY to one speed (no autonegotiation over iXFI).
SetupIxfiX ==
    Rmw("sb", "trn", {}, {"wo_protocol"})
    \o Rmw("sb", "txffe4", {"c0", "cp1", "adapt"}, {})
    \o Rmw("sb", "txffe5", {"c0", "cp1", "adapt"}, {})
    \o Rmw("sb", "coeff", {}, {"override"})
SetupIxfi(force) ==
    Rmw("sb", "link_ctrl", {"an"} \cup Force, {force}) \o SetupIxfiX \o RestartAn

SetupSfi(speed) ==
    RmwLax("sb", "flx", {"an", "an37", "sgmii"} \cup Speed,
           {IF speed = 10 THEN "s10g" ELSE "s1g"})
    \o RestartAn

SetupSfpX550a(speed, linear) ==
    IF Dev = "a_sfp_n"
    THEN Rmw("sb", "flx", {"sr", "lr"}, IF linear THEN {} ELSE {"sr"}) \o SetupSfi(speed)
    ELSE Ignoring(SetupKrSpeed({speed}))
         \o <<Rd("mdio", "sku", "go")>>
         \o Rmw("mdio", "edc", {"cx1", "sr"}, {IF linear THEN "cx1" ELSE "sr"})
         \o <<Rd("mdio", "edc", "go")>>

SetupSfpX550em(speed, linear) ==
    Ignoring(SetupKrSpeed({speed}))
    \o <<Wr("i2c", "edc", {IF linear THEN "cx1" ELSE "sr"})>>

SetupLoopback ==
    Rmw("sb", "link_ctrl", {"an"} \cup Force, {"f10g"})
    \o Rmw("sb", "car_gen", {}, {"nelb"}) \o Rmw("sb", "burnin", {}, {"lb"})
    \o Rmw("sb", "trn", {}, {"bypass"})

\* Advertise pause: both bits for receive or full, one for transmit only.
PauseBits(mode) == CASE mode = "none" -> {} [] mode = "tx" -> {"asm"}
                     [] OTHER -> {"sym", "asm"}
SetupFcX550em(mode) == Rmw("sb", "an_cntl", {"sym", "asm"}, PauseBits(mode))
SetupFcBackplane(mode) ==
    RmwLax("sb", "an_cntl", {"sym", "asm"}, PauseBits(mode)) \o RestartAn
FcAutonegBackplane ==
    <<Rd("sb", "link_s1", "done?"), Rd("sb", "an_cntl", "go"), Rd("sb", "lp_page", "go")>>

\* The external PHY's link, read twice because the bit latches low.
GetLink(then) == <<Rd("mdio", "an_status", "go"), Rd("mdio", "an_status", then)>>

SetPhyPower(on) ==
    Rmw("mdio", "power", IF on THEN {"low"} ELSE {}, IF on THEN {} ELSE {"low"})

\* ixgbe_setup_internal_phy_t_x550em; the speed read in the middle is used when
\* the link is still up after it ("speed?", see Decide).
SetupInternalPhy ==
    IF Dev = "x_10g_t"
    THEN GetLink("up?") \o <<Rd("mdio", "vendor_stat", "keep")>> \o GetLink("speed?")
    ELSE SetupKrSpeed({1, 10})

GetLasi ==
    <<Rd("mdio", "std_flag", "alarm?"), Rd("mdio", "ven_flag", "alarm?"),
      Rd("mdio", "alarm1", "hot?"), Rd("mdio", "an_flag", "alarm?"),
      Rd("mdio", "alarm2", "lsc?")>>
HandleLasiOnly == GetLasi
HandleLasi == GetLasi \o SetupInternalPhy

EnableLasi ==
    Ignoring(GetLasi)
    \o (IF IsA THEN <<>> ELSE Rmw("mdio", "an_mask", {}, {"lsc"}))
    \o Rmw("mdio", "int_mask", {}, {"temp", "fault"})
    \o Rmw("mdio", "ven_mask", {}, {"alarm"}) \o Rmw("mdio", "std_mask", {}, {"alarm"})

\* The reset of an external PHY: power-up stall off, reset, wait, LASI on.
InitExtT == <<Rd("mdio", "alarms3", "stalled?")>>
ResetPhyT ==
    (IF pworld.blocked THEN <<>>
     ELSE <<Access("wr", "mdio", "reset", {}, {"reset"}, "go on", "go"),
            Rd("mdio", "alarms3", "go")>>) \o EnableLasi

SetupMacLinkT(speeds) ==
    (IF Dev = "x_10g_t" THEN SetupIxfi(IF 10 \in speeds THEN "f10g" ELSE "f1g")
     ELSE <<>>)
    \o SetupPhyLink(speeds)

\* Low power link up: keep the slowest usable link for wake-up or management,
\* power the PHY down when there is none.
EnterLplu ==
    IF pworld.blocked THEN <<>>
    ELSE GetLink("lplu?") \o <<Rd("mdio", "lp_status", "lcd?")>>

\* The lowest speed the partner can be reached at, 0 if none.
Lcd(p) ==
    IF ext[p].partner = {1, 10} THEN 1
    ELSE IF (p = 1 /\ "d10g1" \in pworld.nvm) \/ "d10g0" \in pworld.nvm THEN 0
    ELSE 10

\* What each device's operations run.
Programs(op) ==
    LET Sp == pworld.speeds IN
    CASE op = "link" /\ Dev \in {"x_10g_t", "x_10g_t_kr", "a_10g_t"} -> {SetupMacLinkT(s) : s \in Sp}
      [] op = "link" /\ Dev \in {"x_kr", "a_kr"} ->
           IF pworld.blocked THEN {<<>>} ELSE {SetupKrSpeed(s) : s \in Sp}
      [] op = "link" /\ Dev = "a_sgmii" -> {SetupSgmii}
      [] op = "link" /\ Dev = "a_1g_t" -> {SetupSgmiiFw}
      [] op = "link" /\ Dev \in {"a_sfp_n", "a_sfp"} ->
           {SetupSfpX550a(s, l) : s \in {1, 10}, l \in BOOLEAN}
      [] op = "link" /\ Dev = "x_sfp" -> {SetupSfpX550em(s, l) : s \in {1, 10}, l \in BOOLEAN}
      [] op = "fc" /\ Dev = "x_kr" -> {SetupFcX550em(m) : m \in {"none", "tx", "full"}}
      [] op = "fc" /\ Dev = "a_kr" -> {SetupFcBackplane("tx"), FcAutonegBackplane}
      [] op = "reset" /\ Dev = "a_1g_t" -> {ResetPhyFw}
      [] op = "reset" -> {InitExtT \o ResetPhyT}
      [] op = "temp" -> {CheckOvertempFw}
      [] op = "lplu" -> {EnterLplu}
      [] op = "loopback" -> {SetupLoopback}
      [] op = "cs4227" -> {<<Access("cs", "i2c", "try", {}, {}, "return", "go")>>}

---------------------------------------------------------------------------
(* Running a program.                                                      *)

Quiet == [todo |-> <<>>, at |-> "idle", val |-> {}, kept |-> {}, n |-> 0,
          status |-> "ok"]

\* What is left when the innermost called function returns early.
Leave(todo) ==
    IF \E i \in DOMAIN todo : todo[i].op = "end"
    THEN SubSeq(todo, SelectInSeq(todo, LAMBDA s : s.op = "end") + 1, Len(todo))
    ELSE <<>>

\* Go on with todo.
To(r, todo, status) ==
    LET i == SelectInSeq(todo, LAMBDA s : s.op # "end")
        t == IF i = 0 THEN <<>> ELSE SubSeq(todo, i, Len(todo)) IN
    IF t = <<>> THEN [Quiet EXCEPT !.status = status]
    ELSE [r EXCEPT !.todo = t, !.at = "lock", !.n = 0, !.status = status]

PowerOff == IF "mng" \in pworld.nvm \/ pworld.blocked THEN <<>>
            ELSE Ignoring(SetPhyPower(FALSE))

\* After an access that failed.
Failed(r) ==
    LET f == Head(r.todo).fail IN
    CASE f = "return" -> To(r, <<>>, "err")
      [] f = "leave" -> To(r, Leave(Tail(r.todo)), r.status)
      [] f = "power" -> To(r, PowerOff, "err")
      [] f = "go on" -> To(r, Tail(r.todo), r.status)

\* After one that gave v: the branch the code takes on it.
Decide(p, r, v) ==
    LET s == Head(r.todo)
        rest == Tail(r.todo)
        q == [r EXCEPT !.val = v]
        Unless(flag) == To(q, IF flag \in v THEN rest ELSE Leave(rest), r.status)
        Slow == IF v = {"1g"} THEN 1 ELSE IF v = {"10g"} THEN 10 ELSE 0
    IN CASE s.then = "go" -> To(q, rest, r.status)
         [] s.then = "keep" -> To([q EXCEPT !.kept = v], rest, r.status)
         [] s.then = "alarm?" -> Unless("alarm")
         [] s.then = "lsc?" -> Unless("lsc")
         [] s.then = "up?" -> Unless("up")
         [] s.then = "done?" -> Unless("done")
         [] s.then = "hot?" ->
              IF "hot" \notin v THEN To(q, rest, r.status)
              ELSE To(q, (IF s.bus = "mdio" THEN PowerOff
                          ELSE IF s.reg = "link_info" THEN Ignoring(Fw("force_down", "go"))
                          ELSE <<>>) \o Leave(rest),
                      IF Leave(rest) = <<>> THEN "hot" ELSE r.status)
         [] s.then = "speed?" ->
              IF "up" \notin v THEN To(q, Leave(rest), r.status)
              ELSE IF r.kept = {"10g"} THEN To(q, SetupIxfi("f10g"), r.status)
              ELSE IF r.kept = {"1g"} THEN To(q, SetupIxfi("f1g"), r.status)
              ELSE To(q, <<>>, "err")
         [] s.then = "stalled?" ->
              To(q, (IF "stalled" \in v THEN Rmw("mdio", "res_pr10", {"stall"}, {})
                     ELSE <<>>) \o rest, r.status)
         [] s.then = "lplu?" ->
              To(q, IF "up" \in v /\ "lplu" \in pworld.nvm
                       /\ pworld.nvm \cap {"wol", "mng"} # {} THEN rest ELSE PowerOff,
                 r.status)
         [] s.then = "lcd?" ->
              To(q, IF Lcd(p) = 0 THEN PowerOff
                    ELSE <<Rd("mdio", "vendor_stat", "keep")>>
                         \o [i \in 1..2 |-> Access("rd", "mdio", "an_status", {}, {},
                               "power", IF i = 2 THEN "slow?" ELSE "go")], r.status)
         [] s.then = "slow?" ->
              To(q, IF r.kept = {IF Lcd(p) = 1 THEN "1g" ELSE "10g"} THEN <<>>
                    ELSE <<Rd("mdio", "tx_alarm", "go"), Rd("mdio", "an_10g", "go"),
                           Rd("mdio", "an_1g", "go")>> \o SetupMacLinkT({Lcd(p)}), r.status)

Step(p) == Head(run[p].todo)
Becomes(p, r) == run' = [run EXCEPT ![p] = r]
Fault == faults < pworld.nfaults /\ faults' = faults + 1
Fine == UNCHANGED faults

Start(p) ==
    /\ run[p].at = "idle" /\ jobs < pworld.njobs /\ jobs' = jobs + 1
    /\ \E op \in pworld.jobs : \E prog \in Programs(op) : Becomes(p, To(Quiet, prog, "ok"))
    /\ UNCHANGED <<pworld, sm, token, sb, krm, ext, mux, cs, late, irq, changes, faults>>

\* ixgbe_phy_interrupt_subtask.
PhyInterrupt(p) ==
    /\ irq[p] /\ run[p].at = "idle"
    /\ irq' = [irq EXCEPT ![p] = FALSE]
    /\ Becomes(p, To(Quiet, HandleLasi, "ok"))
    /\ UNCHANGED <<pworld, sm, token, sb, krm, ext, mux, cs, late, jobs, changes, faults>>

\* The semaphore bits of an access, and the multiplexer that goes with I2C.
Bits(p) == CASE Step(p).bus = "sb" -> {"phy0", "phy1"}
             [] Step(p).bus = "mdio" -> {OwnBit(p)}
             [] Step(p).bus = "i2c" -> {"i2c"}
             [] Step(p).bus = "hic" -> {}
Free(p) == \A b \in Bits(p) : sm[b] = None
Taken(p) == [b \in DOMAIN sm |-> IF b \in Bits(p) THEN p ELSE sm[b]]
Released(p) == [b \in DOMAIN sm |-> IF sm[b] = p THEN None ELSE sm[b]]
MuxTaken(p) == IF "i2c" \in Bits(p) /\ p = 1 THEN 1 ELSE mux
MuxReleased(p) == IF sm["i2c"] = p /\ p = 1 THEN 0 ELSE mux

AcquireSwfwSync(p) ==
    /\ run[p].at = "lock" /\ Step(p).op # "cs" /\ Bits(p) # {}
    /\ \/ /\ Free(p) /\ Fine
          /\ sm' = Taken(p) /\ mux' = MuxTaken(p)
          /\ Becomes(p, [run[p] EXCEPT !.at = IF IsA /\ Step(p).bus = "mdio"
                                              THEN "token" ELSE "access"])
       \/ Fault /\ Becomes(p, Failed(run[p])) /\ UNCHANGED <<sm, mux>>
    /\ UNCHANGED <<pworld, token, sb, krm, ext, cs, late, irq, jobs, changes>>

\* ixgbe_get_phy_token, up to MaxTries times. The firmware may answer, or not
\* in time; after that the next command may be given the old answer.
GetPhyToken(p) ==
    /\ run[p].at = "token"
    /\ LET Granted == Becomes(p, [run[p] EXCEPT !.at = "access"]) /\ UNCHANGED sm
           Refused == Becomes(p, Failed(run[p])) /\ sm' = Released(p)
           Again == IF run[p].n + 1 = MaxTries THEN Refused
                    ELSE Becomes(p, [run[p] EXCEPT !.n = @ + 1]) /\ UNCHANGED sm
       IN \/ token \in {None, p} /\ token' = p /\ Granted /\ Fine /\ UNCHANGED late
          \/ token = 1 - p /\ Again /\ Fine /\ UNCHANGED <<token, late>>
          \/ Fault /\ Refused /\ late' = TRUE /\ token' \in {token, IF token = None THEN p ELSE token}
          \/ late /\ late' = FALSE /\ Fine /\ UNCHANGED token /\ (Granted \/ Refused)
    /\ UNCHANGED <<pworld, sb, krm, ext, mux, cs, irq, jobs, changes>>

\* The sideband: wait until it is idle, write CTRL (and DATA), wait again.
IosfAlways == TRUE
IosfReady == ~sb.busy
IosfIssue(p) ==
    /\ run[p].at = "access" /\ Step(p).bus = "sb"
    /\ \/ /\ IosfReady /\ Fine
          /\ sb' = IF sb.busy THEN sb     \* the device does not take a second one
                   ELSE [busy |-> TRUE, by |-> p, op |-> Step(p).op, reg |-> Step(p).reg,
                         data |-> (run[p].val \ Step(p).off) \cup Step(p).on]
          /\ Becomes(p, [run[p] EXCEPT !.at = "sent"]) /\ UNCHANGED <<sm, mux>>
       \/ /\ sb.busy /\ Fault /\ UNCHANGED sb
          /\ Becomes(p, Failed(run[p])) /\ sm' = Released(p) /\ mux' = MuxReleased(p)
    /\ UNCHANGED <<pworld, token, krm, ext, cs, late, irq, jobs, changes>>

\* The device does it. (external)
IosfDone ==
    /\ sb.busy
    /\ sb' = [sb EXCEPT !.busy = FALSE,
                        !.data = IF sb.op = "rd" THEN krm[sb.by][sb.reg] ELSE @]
    /\ krm' = IF sb.op = "rd" THEN krm
              ELSE [krm EXCEPT ![sb.by][sb.reg] = sb.data \ {"restart"}]
    /\ UNCHANGED <<pworld, sm, token, ext, mux, cs, late, run, irq, jobs, changes, faults>>

\* Read the status and DATA, release the semaphore; or time out, or find an
\* error response.
IosfCollect(p) ==
    /\ run[p].at = "sent"
    /\ \/ ~sb.busy /\ Fine /\ Becomes(p, Decide(p, run[p], sb.data))
       \/ Fault /\ Becomes(p, Failed(run[p]))
    /\ sm' = Released(p)
    /\ UNCHANGED <<pworld, token, sb, krm, ext, mux, cs, late, irq, jobs, changes>>

---------------------------------------------------------------------------
(* The external PHY's registers. (external)                                *)

Masks == {"an_mask", "int_mask", "ven_mask", "std_mask"}
Alarm(e) == e.lsc \/ e.hot

MdioValue(e, reg) ==
    CASE reg \in {"std_flag", "ven_flag"} -> IF Alarm(e) THEN {"alarm"} ELSE {}
      [] reg = "alarm1" -> IF e.hot THEN {"hot"} ELSE {}
      [] reg = "an_flag" -> IF e.lsc THEN {"alarm"} ELSE {}
      [] reg = "alarm2" -> IF e.lsc THEN {"lsc"} ELSE {}
      [] reg = "an_status" -> IF e.link # 0 /\ ~e.low THEN {"up"} ELSE {}
      [] reg = "vendor_stat" -> IF e.link = 10 THEN {"10g"} ELSE IF e.link = 1 THEN {"1g"} ELSE {}
      [] reg = "alarms3" -> IF e.stalled THEN {"stalled"} ELSE {}
      [] OTHER -> {}

MdioAfter(e, s) ==
    IF s.op = "rd"
    THEN CASE s.reg = "alarm2" -> [e EXCEPT !.lsc = FALSE]
           [] s.reg = "alarm1" -> [e EXCEPT !.hot = FALSE]
           [] s.reg = "an_status" -> [e EXCEPT !.low = (e.link = 0)]
           [] OTHER -> e
    ELSE CASE s.reg \in Masks -> [e EXCEPT !.on = @ \cup {s.reg}]
           [] s.reg = "power" -> [e EXCEPT !.off = ("low" \in s.on),
                                           !.link = IF "low" \in s.on THEN 0 ELSE @]
           [] s.reg = "res_pr10" -> [e EXCEPT !.stalled = FALSE]
           [] s.reg \in {"reset", "an_ctrl"} ->
                [e EXCEPT !.link = 0, !.low = TRUE, !.lsc = @ \/ e.link # 0,
                          !.on = IF s.reg = "reset" THEN {} ELSE @]
           [] OTHER -> e

\* The interrupt line rises when the first alarm is latched.
Rises(e, f) == ~Alarm(e) /\ Alarm(f) /\ f.on = Masks
Latch(p, f) == irq' = [irq EXCEPT ![p] = @ \/ Rises(ext[p], f)]

\* ixgbe_read/write_phy_reg_generic, and on X553 ..._x550a with the token.
MdioAccess(p) ==
    /\ run[p].at = "access" /\ Step(p).bus = "mdio"
    /\ LET f == MdioAfter(ext[p], Step(p))
           v == MdioValue(ext[p], Step(p).reg) IN
       \/ /\ Fine /\ ext' = [ext EXCEPT ![p] = f] /\ Latch(p, f)
          /\ Becomes(p, IF IsA THEN [run[p] EXCEPT !.at = "put", !.val = v]
                        ELSE Decide(p, run[p], v))
       \/ /\ Fault /\ UNCHANGED <<ext, irq>>
          /\ Becomes(p, IF IsA THEN [run[p] EXCEPT !.at = "put_failed"]
                        ELSE Failed(run[p]))
    /\ sm' = IF IsA THEN sm ELSE Released(p)
    /\ UNCHANGED <<pworld, token, sb, krm, mux, cs, late, jobs, changes>>

\* ixgbe_release_swfw_sync_X550a: the token goes back first; a command that
\* fails is not noticed.
PutPhyToken(p) ==
    /\ run[p].at \in {"put", "put_failed"}
    /\ \/ Fine /\ late' \in {late, FALSE} /\ token' = IF token = p THEN None ELSE token
       \/ Fault /\ late' = TRUE /\ token' \in {token, IF token = p THEN None ELSE token}
    /\ sm' = Released(p)
    /\ Becomes(p, IF run[p].at = "put" THEN Decide(p, run[p], run[p].val)
                  ELSE Failed(run[p]))
    /\ UNCHANGED <<pworld, sb, krm, ext, mux, cs, irq, jobs, changes>>

\* ixgbe_fw_phy_activity: a command to the firmware that drives the PHY,
\* repeated while the firmware says it did not do it.
FwPhyActivity(p) ==
    /\ run[p].at = "lock" /\ Step(p).bus = "hic"
    /\ \/ /\ Fine /\ UNCHANGED late
          /\ Becomes(p, Decide(p, run[p], IF ext[p].hot THEN {"hot"} ELSE {}))
       \/ /\ Fault /\ UNCHANGED late
          /\ Becomes(p, IF run[p].n + 1 = MaxTries THEN Failed(run[p])
                        ELSE [run[p] EXCEPT !.n = @ + 1])
       \/ Fault /\ late' = TRUE /\ Becomes(p, Failed(run[p]))
       \/ late /\ late' = FALSE /\ Fine /\ Becomes(p, Decide(p, run[p], {}))
    /\ UNCHANGED <<pworld, sm, token, sb, krm, ext, mux, cs, irq, jobs, changes>>

\* A register of the CS4227 written over I2C (write_link).
I2cAccess(p) ==
    /\ run[p].at = "access" /\ Step(p).bus = "i2c"
    /\ \/ Fine /\ Becomes(p, Decide(p, run[p], {}))
       \/ Fault /\ Becomes(p, Failed(run[p]))
    /\ sm' = Released(p) /\ mux' = MuxReleased(p)
    /\ UNCHANGED <<pworld, token, sb, krm, ext, cs, late, irq, jobs, changes>>

---------------------------------------------------------------------------
(* ixgbe_check_cs4227: the first port resets the chip both ports use, and  *)
(* tells the other by the SCRATCH register.                                *)

CsAt(p, reg) == run[p].at # "idle" /\ Step(p).op = "cs" /\ Step(p).reg = reg
CsGo(p, reg) == Becomes(p, [run[p] EXCEPT !.todo[1].reg = reg, !.n = 0])
CsEnd(p) == Becomes(p, To(run[p], <<>>, "ok"))

CsPollHasty(p) ==
    /\ CsAt(p, "try") /\ sm["i2c"] = None
    /\ IF cs.scratch = "complete"
       THEN cs' = [cs EXCEPT !.users = @ \cup {p}] /\ CsEnd(p) /\ UNCHANGED sm
       ELSE sm' = Taken(p) /\ CsGo(p, "reset") /\ UNCHANGED cs
    /\ UNCHANGED <<pworld, token, sb, krm, ext, mux, late, irq, jobs, changes, faults>>

\* What a port that reads value v does: use the chip, ask again, or reset it.
CsPoll(p) ==
    /\ CsAt(p, "try") /\ sm["i2c"] = None
    /\ IF run[p].n = MaxTries THEN sm' = Taken(p) /\ CsGo(p, "reset") /\ UNCHANGED cs
       ELSE IF cs.scratch = "complete"
       THEN cs' = [cs EXCEPT !.users = @ \cup {p}] /\ CsEnd(p) /\ UNCHANGED sm
       ELSE IF cs.scratch = "pending"
       THEN /\ Becomes(p, [run[p] EXCEPT !.n = IF faults > 0 THEN @ + 1 ELSE @])
            /\ UNCHANGED <<sm, cs>>
       ELSE sm' = Taken(p) /\ CsGo(p, "reset") /\ UNCHANGED cs
    /\ UNCHANGED <<pworld, token, sb, krm, ext, mux, late, irq, jobs, changes, faults>>

CsPollFails(p) ==
    /\ CsAt(p, "try") /\ Fault
    /\ \/ /\ Becomes(p, IF run[p].n = MaxTries THEN To(run[p], <<>>, "ok")
                         ELSE [run[p] EXCEPT !.n = @ + 1])
          /\ UNCHANGED sm
       \/ sm["i2c"] = None /\ sm' = Taken(p) /\ CsGo(p, "reset")
    /\ UNCHANGED <<pworld, token, sb, krm, ext, mux, cs, late, irq, jobs, changes>>

\* ixgbe_reset_cs4227 through the port expander, then SCRATCH says pending.
InUse(p) == cs.users # {} \/ CsAt(1 - p, "complete")
CsReset(p) ==
    /\ CsAt(p, "reset") /\ sm' = Released(p)
    /\ \/ /\ Fine /\ CsGo(p, "complete")
          /\ cs' = [cs EXCEPT !.scratch = "pending", !.broken = @ \/ InUse(p)]
       \/ /\ Fault /\ CsEnd(p)
          /\ cs' \in {cs, [cs EXCEPT !.scratch = "unknown", !.broken = @ \/ InUse(p)]}
    /\ UNCHANGED <<pworld, token, sb, krm, ext, mux, late, irq, jobs, changes>>

CsComplete(p) ==
    /\ CsAt(p, "complete") /\ CsEnd(p)
    /\ \/ /\ sm["i2c"] = None /\ Fine
          /\ cs' = [cs EXCEPT !.scratch = "complete", !.users = @ \cup {p}]
       \/ Fault /\ UNCHANGED cs
    /\ UNCHANGED <<pworld, sm, token, sb, krm, ext, mux, late, irq, jobs, changes>>

---------------------------------------------------------------------------
(* The Base-T link and the temperature. (external)                         *)

Change(p) ==
    /\ Dev \in {"x_10g_t", "x_10g_t_kr", "a_10g_t"} /\ changes < pworld.nchanges
    /\ changes' = changes + 1
    /\ \E f \in {[ext[p] EXCEPT !.link = l, !.low = @ \/ l = 0, !.lsc = TRUE] :
                 l \in IF ext[p].off THEN {0} ELSE ext[p].partner \cup {0}} :
         /\ f.link # ext[p].link
         /\ ext' = [ext EXCEPT ![p] = f] /\ Latch(p, f)
    /\ UNCHANGED <<pworld, sm, token, sb, krm, mux, cs, late, run, jobs, faults>>

Heat(p) ==
    /\ "temp" \in pworld.jobs /\ changes < pworld.nchanges /\ changes' = changes + 1
    /\ LET f == [ext[p] EXCEPT !.hot = TRUE] IN
         ext' = [ext EXCEPT ![p] = f] /\ Latch(p, f)
    /\ UNCHANGED <<pworld, sm, token, sb, krm, mux, cs, late, run, jobs, faults>>

---------------------------------------------------------------------------
Regs == {"link_ctrl", "sgmii", "flx", "trn", "txffe4", "txffe5", "coeff",
         "car_gen", "burnin", "an_cntl", "link_s1", "lp_page"}

Init ==
    /\ pworld \in Worlds
    /\ sm = [b \in {"phy0", "phy1", "i2c"} |-> None] /\ token = None
    /\ sb = [busy |-> FALSE, by |-> 0, op |-> "rd", reg |-> "flx", data |-> {}]
    /\ krm = [p \in Ports |-> [r \in Regs |-> {}]]
    /\ ext \in {[p \in Ports |-> [link |-> 0, low |-> TRUE, lsc |-> FALSE, hot |-> FALSE,
                                   off |-> FALSE, stalled |-> TRUE, on |-> pworld.on,
                                   partner |-> a]] : a \in pworld.partners}
    /\ mux = 0 /\ cs = [scratch |-> "unknown", users |-> {}, broken |-> FALSE]
    /\ late = FALSE /\ run = [p \in Ports |-> Quiet] /\ irq = [p \in Ports |-> FALSE]
    /\ jobs = 0 /\ changes = 0 /\ faults = 0

Drive(p) ==
    \/ AcquireSwfwSync(p) \/ GetPhyToken(p) \/ IosfIssue(p) \/ IosfCollect(p)
    \/ MdioAccess(p) \/ PutPhyToken(p) \/ FwPhyActivity(p) \/ I2cAccess(p)
    \/ CsPoll(p) \/ CsPollFails(p) \/ CsReset(p) \/ CsComplete(p) \/ PhyInterrupt(p)

Next == \/ IosfDone
        \/ \E p \in pworld.ports : Start(p) \/ Drive(p) \/ Change(p) \/ Heat(p)

\* A program that was started goes on: every wait in the code is bounded. The
\* sideband answers.
Spec == /\ Init /\ [][Next]_pvars
        /\ WF_pvars(IosfDone) /\ \A p \in Ports : WF_pvars(Drive(p))

---------------------------------------------------------------------------
TypeOK ==
    /\ \A b \in DOMAIN sm : sm[b] \in Ports \cup {None}
    /\ token \in Ports \cup {None} /\ mux \in {0, 1}
    /\ \A p \in Ports : /\ run[p].at \in {"idle", "lock", "token", "access", "sent",
                                          "put", "put_failed"}
                        /\ run[p].status \in {"ok", "err", "hot"}
                        /\ ext[p].link \in {0, 1, 10}

\* The two ports share the ways to their PHYs without harm. What a port takes
\* from the sideband's registers is the answer to its own command, although a
\* command that was given up may still be under way. The I2C multiplexer
\* selects the port that uses it. On X553 a port is alone on MDIO, unless a
\* host interface command was ever given up: its answer may come when the next
\* one waits for its own, and then looks like the token. Without failures no
\* port resets a CS4227 the other relies on or is resetting. And a port that rests holds
\* nothing.
AccessMine ==
    /\ \A p \in Ports : run[p].at = "sent" =>
         sb.by = p /\ sb.reg = Step(p).reg /\ sb.op = Step(p).op
    /\ \A p \in Ports : run[p].at = "access" /\ Step(p).bus = "i2c" => mux = p
    /\ IsA /\ faults = 0 =>
         ~(\A p \in Ports : run[p].at = "access" /\ Step(p).bus = "mdio")
    /\ cs.broken => faults > 0
    /\ \A p \in Ports : run[p].at = "idle" =>
         (\A b \in DOMAIN sm : sm[b] # p) /\ (faults = 0 => token # p)

\* The link between the PHYs is set to the speed of the Base-T link: when the
\* external PHY of an X552 keeps a link of speed s and its interrupts are on,
\* the integrated PHY ends up forced to s. An access that fails on the way is
\* not retried, and management can forbid the restart that brings the next
\* interrupt.
InternalFollows ==
    \A p \in Ports : \A s \in {1, 10} :
        <>[](/\ Dev = "x_10g_t" /\ ~pworld.blocked
             /\ ext[p].link = s /\ ext[p].on = Masks /\ faults = 0) =>
            <>[](krm[p]["link_ctrl"] \cap Force = {IF s = 10 THEN "f10g" ELSE "f1g"})
=============================================================================
