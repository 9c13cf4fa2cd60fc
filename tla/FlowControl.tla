---------------------------- MODULE FlowControl ----------------------------
(***************************************************************************)
(* Link flow control (802.3x pause) between two ports that both run this   *)
(* driver: what each one advertises (setup_fc), what it makes of the       *)
(* partner's advertisement when its watchdog finds the link up             *)
(* (fc_enable, fc_autoneg, negotiate_fc), and the water marks of its       *)
(* packet buffers (pbthresh_setup), which fc_enable checks first.          *)
(* What can be negotiated depends on the medium and on the speed.          *)
(***************************************************************************)
EXTENDS Integers

CONSTANTS
    Ends,      \* the two ports
    Buffers,   \* their configurations: [x540, mtu, tcs, fdir, sriov]
    Requests,  \* pause settings: [an, rx, tx]
    Cables,    \* what is connected: [media, mac], a MAC for each end
    MaxTurns

VARIABLES
    req,       \* fc.requested_mode, a set of "rx", "tx"
    noan,      \* fc.disable_fc_autoneg
    adv,       \* the pause bits advertised, a set of "sym", "asm"
    lp,        \* the partner's, latched when the link trains
    cur,       \* fc.current_mode
    negged,    \* fc.fc_was_autonegged
    regs,      \* what the MAC does: obeys ("rx") and sends ("tx") pause frames
    buf,       \* the configuration of the packet buffers
    ret,       \* fc_enable returned success
    up, seen,  \* the link; the watchdog has handled it
    cable, gbps,
    complete,  \* clause 37, 73 or 28 autonegotiation has completed
    fturns

wvars == <<req, noan, adv, lp, cur, negged, regs, buf, ret, up, seen,
           cable, gbps, complete, fturns>>

Full == {"rx", "tx"}
Other(e) == CHOOSE o \in Ends : o # e

-----------------------------------------------------------------------------
(* Water marks, in KB.                                                     *)
ToKb(bits) == (bits + 8191) \div 8192
RxPbSize == 512

\* ixgbe_set_rxpba_generic, equal shares.
PbSize(b) == (RxPbSize - b.fdir) \div b.tcs

\* IXGBE_DV, IXGBE_DV_X540: delay in bit times until the sender stops.
DelayValue(b) ==
    LET tc == b.mtu + 38
        device == IF b.x540 THEN 2 * 37888 ELSE 2 * 18944
    IN (36 * (8 * tc + 672 + 2 * 5556 + device + 6144)) \div 25 + 1
       + 2 * 8 * tc + (IF b.sriov THEN 8 * tc ELSE 0)

\* ixgbe_hpbthresh: without headroom the mark is one more than a frame, in bytes.
HighWater(b) ==
    LET marker == PbSize(b) - ToKb(DelayValue(b))
    IN IF marker < 0 THEN b.mtu + 38 + 1 ELSE marker

\* ixgbe_lpbthresh, and the comparison of ixgbe_pbthresh_setup.
LowWater(b) ==
    LET bits == 2 * 8 * (b.mtu + 18) + (36 * 10000) \div 25 + 1
        low == ToKb(IF b.x540 THEN bits ELSE 2 * bits)
    IN IF low > HighWater(b) THEN 0 ELSE low

MarksOk(b) == HighWater(b) # 0 => LowWater(b) # 0 /\ LowWater(b) < HighWater(b)

-----------------------------------------------------------------------------
\* ixgbe_setup_fc_*: receiving only cannot be advertised, so it is as for both.
Advertise(mode) ==
    IF "rx" \in mode THEN {"sym", "asm"} ELSE IF mode = {"tx"} THEN {"asm"} ELSE {}

\* ixgbe_negotiate_fc, and without its last-but-one case.
NegotiateBoth(a, p, mode) ==
    IF "sym" \in a \cap p THEN IF mode = Full THEN Full ELSE {"rx"}
    ELSE IF a = {"asm"} /\ p = {"sym", "asm"} THEN {"tx"}
    ELSE {}
Negotiate(a, p, mode) ==
    IF "sym" \in a \cap p THEN IF mode = Full THEN Full ELSE {"rx"}
    ELSE IF a = {"asm"} /\ p = {"sym", "asm"} THEN {"tx"}
    ELSE IF a = {"sym", "asm"} /\ p = {"asm"} THEN {"rx"}
    ELSE {}

\* ixgbe_device_supports_autoneg_fc, for the devices of Cables.
SupportsAutonegFc(e) ==
    CASE cable.media = "fiber" -> cable.mac[e] # "X550EM_a" /\ (up => gbps = 1)
      [] cable.media = "copper" -> cable.mac[e] # "82598"
      [] OTHER -> TRUE

\* The media's own part of the negotiation: has it an answer of the partner?
AutonegFiber == gbps = 1 /\ complete
AutonegBackplane == complete
AutonegSgmii == complete

\* ixgbe_fc_autoneg: the modes it may leave, and whether they are negotiated.
FcAutoneg(e, mode) ==
    LET ok == /\ ~noan[e] /\ up
              /\ CASE cable.media = "fiber" -> AutonegFiber
                   [] cable.media = "backplane" -> AutonegBackplane
                   [] cable.media = "sgmii" -> AutonegSgmii
                   [] OTHER -> SupportsAutonegFc(e)
    IN [ok |-> ok, mode |-> IF ok THEN Negotiate(adv[e], lp[e], mode) ELSE mode]

Init ==
    /\ req = [e \in Ends |-> Full]
    /\ noan = [e \in Ends |-> FALSE]
    /\ adv = [e \in Ends |-> Advertise(req[e])]
    /\ lp = [e \in Ends |-> {}]
    /\ cur = [e \in Ends |-> Full]      \* "init for ethtool output"
    /\ negged = [e \in Ends |-> FALSE]
    /\ regs = [e \in Ends |-> {}]
    /\ buf \in [Ends -> Buffers]
    /\ ret = [e \in Ends |-> FALSE]
    /\ up = FALSE
    /\ cable \in Cables /\ gbps = 10 /\ complete = FALSE
    /\ seen = [e \in Ends |-> FALSE]
    /\ fturns = 0

\* The watchdog, for a link that is up.  The marks are checked against the
\* mode of before the negotiation, whose wish is `mode`.
Enable(e, mode) ==
    /\ up
    /\ seen' = [seen EXCEPT ![e] = TRUE]
    /\ IF "tx" \in cur[e] /\ ~MarksOk(buf[e])
       THEN /\ ret' = [ret EXCEPT ![e] = FALSE]
            /\ UNCHANGED <<req, cur, negged, regs>>
       ELSE LET fc == FcAutoneg(e, mode)
            IN /\ req' = [req EXCEPT ![e] = mode]
               /\ cur' = [cur EXCEPT ![e] = fc.mode]
               /\ negged' = [negged EXCEPT ![e] = fc.ok]
               /\ regs' = [regs EXCEPT ![e] = fc.mode]
               /\ ret' = [ret EXCEPT ![e] = TRUE]
    /\ UNCHANGED <<noan, adv, lp, buf, up, cable, gbps, complete, fturns>>

FcEnable(e) == cable.mac[e] # "82598" /\ Enable(e, req[e])

\* ixgbe_fc_enable_82598: at 1G the wish to receive pause frames is given up.
FcEnable82598(e) ==
    /\ cable.mac[e] = "82598"
    /\ Enable(e, IF gbps = 1 THEN req[e] \ {"rx"} ELSE req[e])

\* A reset of one end (ixgbe_reinit_locked): the link drops for both.
Reinit(e) ==
    /\ regs' = [regs EXCEPT ![e] = {}]
    /\ adv' = [adv EXCEPT ![e] = Advertise(req'[e])]
    /\ up' = FALSE
    /\ seen' = [x \in Ends |-> FALSE]
    /\ UNCHANGED <<cable, gbps, complete>>

Turn == fturns < MaxTurns /\ fturns' = fturns + 1

\* ixgbe_set_pauseparam: with autonegotiation the mode is always full.
SetPauseparam(e, r) ==
    LET mode == IF r.an THEN Full
                ELSE (IF r.rx THEN {"rx"} ELSE {}) \cup (IF r.tx THEN {"tx"} ELSE {})
    IN /\ Turn
       /\ r.an => SupportsAutonegFc(e)
       /\ <<mode, ~r.an>> # <<req[e], noan[e]>>
       /\ req' = [req EXCEPT ![e] = mode]
       /\ noan' = [noan EXCEPT ![e] = ~r.an]
       /\ Reinit(e)
       /\ UNCHANGED <<lp, cur, negged, buf, ret>>

\* ixgbe_change_mtu, setup_tc: other buffers, and a reset.
ChangeBuffers(e, b) ==
    /\ Turn
    /\ b # buf[e]
    /\ buf' = [buf EXCEPT ![e] = b]
    /\ UNCHANGED req
    /\ Reinit(e)
    /\ UNCHANGED <<noan, lp, cur, negged, ret>>

\* The link trains at some speed: each end latches what the other advertises,
\* unless one of them could not complete the negotiation.  External.
Train ==
    /\ ~up
    /\ up' = TRUE
    /\ gbps' \in {1, 10}
    /\ complete' \in BOOLEAN
    /\ lp' = [e \in Ends |-> adv[Other(e)]]
    /\ seen' = [e \in Ends |-> FALSE]
    /\ UNCHANGED <<req, noan, adv, cur, negged, regs, buf, ret, cable, fturns>>

Next ==
    \/ Train
    \/ \E e \in Ends : FcEnable(e) \/ FcEnable82598(e)
    \/ \E e \in Ends, r \in Requests : SetPauseparam(e, r)
    \/ \E e \in Ends, b \in Buffers : ChangeBuffers(e, b)

Spec == Init /\ [][Next]_wvars

-----------------------------------------------------------------------------
TypeOK ==
    /\ req \in [Ends -> SUBSET Full] /\ cur \in [Ends -> SUBSET Full]
    /\ regs \in [Ends -> SUBSET Full]
    /\ adv \in [Ends -> SUBSET {"sym", "asm"}]
    /\ lp \in [Ends -> SUBSET {"sym", "asm"}]
    /\ buf \in [Ends -> Buffers]
    /\ fturns \in 0..MaxTurns

\* Once both ends have set up flow control for this link, and at least one of
\* them negotiated it (ixgbe_negotiate_fc with the other's bits; the other's
\* mode may be forced), neither sends pause frames that the other ignores.
\* Left out is an 82598 that gives up, or gave up at an earlier 1G link, the
\* pause frames it was asked to receive.
PauseAgrees ==
    /\ up
    /\ \A e \in Ends : cable.mac[e] = "82598" => gbps = 10 /\ "rx" \in req[e]
    /\ \A e \in Ends : seen[e] /\ ret[e]
    /\ \E e \in Ends : negged[e]
    => \A e \in Ends : "tx" \in regs[e] => "rx" \in regs[Other(e)]

\* Pause frames are sent from water marks that work: "Low water mark of zero
\* causes XOFF floods" (ixgbe_fc_enable_generic).
NoXoffFlood == \A e \in Ends : "tx" \in regs[e] => MarksOk(buf[e])

\* "On 82598 having Rx FC on causes resets while doing 1G so if it's on turn it
\* off once we know link_speed" (ixgbe_fc_enable_82598).  The negotiation that
\* follows answers "receive only" to a symmetric partner whatever is wished
\* for, and turns it on again.
NoRxPauseAt1G ==
    \A e \in Ends : up /\ gbps = 1 /\ cable.mac[e] = "82598" /\ seen[e] /\ ret[e]
                  => "rx" \notin regs[e]
=============================================================================
