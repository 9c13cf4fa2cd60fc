----------------------------- MODULE RingConfig -----------------------------
(***************************************************************************)
(* The settings of an adapter's rings and how they reach the hardware:     *)
(* ethtool's ring sizes, interrupt moderation, offload features, private   *)
(* flags and hash options, the MTU and the XDP program (ixgbe_ethtool.c    *)
(* and the ndo callbacks of ixgbe_main.c), the adaptive moderation that    *)
(* the pollers run (ixgbe_update_itr), and the register functions under    *)
(* ixgbe_configure that turn the settings into rings.                      *)
(*                                                                         *)
(* Every operation runs under the RTNL lock and is one step, its reset     *)
(* included.  The Rx rings are configured alike, so one record stands for  *)
(* all of them; a vector with Tx rings only is kept apart from one that    *)
(* has Rx rings, because their intervals are set differently.              *)
(***************************************************************************)
EXTENDS Integers

CONSTANTS
    Worlds,     \* the adapters of the instance, see World
    Mtus, Usecs, Counts,    \* the values ethtool and the stack ask for
    Loads,      \* [packets, bytes] seen between two updates of an interval
    MaxSteps    \* bound on the operations

VARIABLES
    cw,         \* the adapter: a member of Worlds
    ad,         \* struct ixgbe_adapter and net_device: what was asked for
    ring,       \* struct ixgbe_ring: state bits and counts of the rings
    vec,        \* the q_vectors: itr of an Rx (or mixed) and of a Tx vector
    hw,         \* the registers
    steps       \* operations so far

cvars == <<cw, ad, ring, vec, hw, steps>>

Flags == {"rsc", "legacy", "hash", "perfect", "auto_vf"}
Features == {"lro", "rxcsum", "ntuple", "vlan_rx"}
Udp == {"udp4", "udp6"}

\* mac, whether its vectors carry Rx and Tx rings together, the pools and
\* traffic classes it was set up with, whether it has 64 Tx queues or more,
\* the speed of its link, and the operations the world performs.
World == [mac : {"82598", "82599", "X550"}, mixed : BOOLEAN, vmdq : BOOLEAN,
          four : BOOLEAN, tcs : {0, 4, 8}, many : BOOLEAN,
          fast : BOOLEAN, ops : SUBSET STRING]

-----------------------------------------------------------------------------
\* Interrupt moderation, in units of a quarter of a microsecond.

IXGBE_MIN_RSC_ITR == 24
IXGBE_100K_ITR == 40
IXGBE_20K_ITR == 200
IXGBE_12K_ITR == 336
MIN_INC == 2
MIN_USECS == 10
MAX_USECS == 84
LATENCY == 128

AtMost(a, b) == IF a < b THEN a ELSE b
DivUp(a, b) == (a + b - 1) \div b
HasLatency(itr) == (itr \div LATENCY) % 2 = 1
Microseconds(itr) == ((itr % LATENCY) \div MIN_INC) * MIN_INC

\* The weight of an average frame of a bulk flow (before the link's speed).
BulkWeight(avg) ==
    CASE avg <= 60 -> 5120
      [] avg > 60 /\ avg <= 316 -> avg * 40 + 2720
      [] avg > 316 /\ avg <= 1084 -> avg * 15 + 11452
      [] avg > 1084 /\ avg <= 1980 -> avg * 5 + 22420
      [] OTHER -> 32256

LightWeight(load) == LET w == (load.bytes + load.packets * 24) * 2
                     IN  IF w < 2560 THEN 2560 ELSE AtMost(w, 12800)

\* adjust_for_speed, with the step that lets a latency flow shorten its
\* interval by at most one increment.
Scaled(base, weight, was) ==
    LET itr == base + DivUp(weight, MIN_INC * (IF cw.fast THEN 256 ELSE 64)) * MIN_INC
    IN  IF HasLatency(itr) /\ itr < was THEN was - MIN_INC ELSE itr

\* ixgbe_update_itr: the new interval of a ring container whose interval
\* was "was", on a vector whose register holds "itr"; "late" when the last
\* update is more than a jiffy old.
UpdateItr(itr, was, rx, load, late) ==
    LET p == load.packets
        usecs == itr \div 4
        next ==
          IF late THEN MIN_USECS + LATENCY
          ELSE IF rx /\ p > 0 /\ p < 24 /\ load.bytes < 12112
               THEN Scaled(LATENCY, LightWeight(load), was)
          ELSE IF p < 48
               THEN AtMost(usecs + MIN_INC, MAX_USECS)
                    + (IF p < 8 \/ HasLatency(was) THEN LATENCY ELSE 0)
          ELSE IF p < 96 THEN usecs
          ELSE IF p < 256
               THEN (IF itr \div 8 < MIN_USECS THEN MIN_USECS ELSE itr \div 8)
          ELSE Scaled(0, BulkWeight(load.bytes \div p), was)
    IN  AtMost(next, 255)

\* ixgbe_set_itr: the shorter of the two containers' intervals.
SetItr(v, rxload, txload, late) ==
    LET rx == IF v.hasrx THEN UpdateItr(v.itr, v.rx, TRUE, rxload, late) ELSE v.rx
        tx == IF v.hastx THEN UpdateItr(v.itr, v.tx, FALSE, txload, late) ELSE v.tx
    IN  [v EXCEPT !.rx = rx, !.tx = tx, !.itr = Microseconds(AtMost(rx, tx)) * 4]

\* ixgbe_alloc_q_vector: the intervals a new vector starts from.
FreshVector(hasrx, hastx, s) ==
    [hasrx |-> hasrx, hastx |-> hastx,
     rx |-> MAX_USECS + LATENCY, tx |-> MAX_USECS + LATENCY,
     itr |-> IF hastx /\ ~hasrx
             THEN IF s.tx_itr = 1 THEN IXGBE_12K_ITR ELSE s.tx_itr
             ELSE IF s.rx_itr = 1 THEN IXGBE_20K_ITR ELSE s.rx_itr]

FreshVectors(s) ==
    [rxv |-> FreshVector(TRUE, cw.mixed, s),
     txv |-> IF cw.mixed THEN FreshVector(FALSE, FALSE, s)
             ELSE FreshVector(FALSE, TRUE, s)]

\* The vector that serves the Tx rings.
TxVector(v) == IF cw.mixed THEN v.rxv ELSE v.txv

-----------------------------------------------------------------------------
\* What ixgbe_configure makes of the settings.

NewFamily == cw.mac = "X550"
RscCapable == cw.mac # "82598"

\* ixgbe_rx_bufsz
BufSize(r) == IF r.b3k THEN 3072 ELSE IF r.build THEN 1534 ELSE 2048

MaxFrame(s) == LET m == s.mtu + 18 + (IF NewFamily THEN 8 ELSE 0)
               IN  IF m < 1518 THEN 1518 ELSE m

\* ixgbe_set_rx_buffer_len: the state bits of the Rx rings and MHADD.
SetRxBufferLen(s, r) ==
    LET build == "legacy" \notin s.flags
        rsc == "rsc" \in s.flags
    IN  [r EXCEPT !.rsc = rsc, !.build = build,
                  !.b3k = build /\ (rsc \/ MaxFrame(s) > 1518)]

ConfigureSrrctl(r) == IF r.b3k THEN 3072 ELSE 2048

\* ixgbe_configure_rscctl sets the bit and never clears it.
ConfigureRscctl(h, r) == h.rscen \/ r.rsc

\* The length limit of a queue, 0 when it has none.
ConfigureRlpml(r) == IF NewFamily /\ r.build /\ ~r.b3k THEN 1534 ELSE 0

SetupMtqc ==
    IF cw.mac = "82598" THEN "none"
    ELSE IF cw.tcs > 4 THEN "8tc"
    ELSE IF cw.tcs > 1 THEN "4tc"
    ELSE IF cw.vmdq THEN (IF cw.four THEN "32vf" ELSE "64vf")
    ELSE IF cw.many THEN "4tc"
    ELSE "rss"

SetupMrqc ==
    IF cw.mac = "82598" THEN "none"
    ELSE IF cw.vmdq
         THEN (IF cw.tcs > 4 THEN "8tc" ELSE IF cw.tcs > 1 THEN "4tc"
               ELSE IF cw.four THEN "32vf" ELSE "64vf")
         ELSE (IF cw.tcs > 4 THEN "8tc" ELSE IF cw.tcs > 1 THEN "4tc" ELSE "rss")

\* ixgbe_configure_tx_ring: eight descriptors are written back at a time
\* unless the vector's interrupts come too fast for that.
WthreshAny(v) == 8
Wthresh(v) == IF TxVector(v).itr < IXGBE_100K_ITR THEN 1 ELSE 8

\* The Flow Director mode that ixgbe_configure selects.
ConfigureFdir(s) == IF "hash" \in s.flags THEN "signature"
                    ELSE IF "perfect" \in s.flags THEN "perfect" ELSE "off"

\* ixgbe_set_rx_mode: tag stripping follows the feature; nothing is taken
\* away while traffic classes are on.
VlanStrip(s, h) == "vlan_rx" \in s.features \/ (h.vme /\ cw.tcs > 0)

ResetRegs == [rfctl |-> FALSE, rscen |-> FALSE, size |-> 0, rlpml |-> 0, mfs |-> 0,
              wth |-> 0, mtqc |-> "none", mrqc |-> "none", udp |-> {}, fdir |-> "off",
              vme |-> FALSE, txlen |-> 0, rxlen |-> 0, reta |-> "none",
              eitr |-> [rxv |-> 0, txv |-> 0]]

ConfigureTx(a, h) == [h EXCEPT !.mtqc = SetupMtqc, !.wth = Wthresh(a.v), !.txlen = a.r.txc]

\* ixgbe_setup_reta spreads the table evenly over the rings again.
SetupReta(h) == [h EXCEPT !.reta = "default"]

\* ixgbe_configure_rx, with the ring bits r that ixgbe_set_rx_buffer_len
\* has just chosen.
ConfigureRx(a, r, h) ==
    [SetupReta(h) EXCEPT
        !.rfctl = "rsc" \in a.s.flags, !.rscen = ConfigureRscctl(h, r),
        !.size = ConfigureSrrctl(r), !.rlpml = ConfigureRlpml(r), !.mfs = MaxFrame(a.s),
        !.mrqc = SetupMrqc, !.udp = a.s.udp, !.rxlen = r.rxc]

\* ixgbe_up_complete writes every vector's interval (ixgbe_configure_msix).
UpComplete(a, h) == [h EXCEPT !.eitr = [rxv |-> a.v.rxv.itr, txv |-> a.v.txv.itr]]

\* ixgbe_configure on hardware in state h, then ixgbe_up_complete.
Configured(a, h) ==
    LET r == SetRxBufferLen(a.s, a.r)
        base == [h EXCEPT !.vme = VlanStrip(a.s, h), !.fdir = ConfigureFdir(a.s)]
    IN  [a EXCEPT !.r = r, !.s.indir = "default",
                  !.h = UpComplete(a, ConfigureRx(a, r, ConfigureTx(a, base)))]

\* The whole state an operation works on.
Here == [s |-> ad, r |-> ring, v |-> vec, h |-> hw]

ReinitLocked(a) == Configured(a, ResetRegs)
Reset(a) == [a EXCEPT !.h = ResetRegs]
DoReset(a) == IF a.s.running THEN ReinitLocked(a) ELSE Reset(a)

\* ixgbe_setup_tc with the traffic classes unchanged: the interrupt scheme
\* and with it the vectors and rings are made anew.
SetupTc(a) ==
    LET b == [a EXCEPT !.h = ResetRegs, !.v = FreshVectors(a.s),
                       !.r = [rsc |-> FALSE, b3k |-> FALSE, build |-> FALSE,
                              txc |-> a.s.tx_count, rxc |-> a.s.rx_count]]
    IN  IF a.s.running THEN Configured(b, b.h) ELSE b
-----------------------------------------------------------------------------
\* The operations.  Each maps the state to the set of states it may leave.

\* The rate that allows receive side coalescing.
RscRate(itr) == itr = 1 \/ itr > IXGBE_MIN_RSC_ITR

AtrAllowed == ~cw.vmdq /\ cw.tcs <= 1 /\ cw.mac # "82598"

\* ixgbe_set_ringparam: new rings are allocated beside the old ones; an
\* allocation that fails leaves what was already exchanged in place.
SetRingparam(a, tx, rx) ==
    LET up(b) == ReinitLocked(b)
        withTx == [a EXCEPT !.r.txc = tx, !.s.tx_count = tx]
        withBoth == [withTx EXCEPT !.r.rxc = rx, !.s.rx_count = rx]
    IN  IF tx = a.s.tx_count /\ rx = a.s.rx_count THEN {a}
        ELSE IF ~a.s.running THEN {withBoth}
        ELSE {a, up(withBoth)}
             \cup (IF tx # a.s.tx_count THEN {up(a)} ELSE {})
             \cup (IF rx # a.s.rx_count THEN {up(withTx)} ELSE {})

\* ixgbe_update_rsc: the new flag and whether a reset is needed.
UpdateRsc(s) ==
    IF ~RscCapable \/ "lro" \notin s.features THEN s.flags
    ELSE IF RscRate(s.rx_itr) THEN s.flags \cup {"rsc"} ELSE s.flags \ {"rsc"}

Setting(usecs) == IF usecs > 1 THEN usecs * 4 ELSE usecs
SlowEnough(itr) == itr = 1 \/ itr >= IXGBE_100K_ITR

\* ixgbe_set_coalesce
NeedsResetUp(prev, new) == ~SlowEnough(prev) /\ SlowEnough(new)
NeedsReset(prev, new) == SlowEnough(prev) # SlowEnough(new)

SetCoalesce(a, rx, tx) ==
    IF cw.mixed /\ tx # 0 THEN {a}
    ELSE LET prev == IF cw.mixed THEN a.s.rx_itr ELSE a.s.tx_itr
             rs == Setting(rx)
             ts == IF cw.mixed THEN rs ELSE Setting(tx)
             s1 == [a.s EXCEPT !.rx_itr = rs, !.tx_itr = ts]
             s2 == [s1 EXCEPT !.flags = UpdateRsc(s1)]
             v == [rxv |-> [a.v.rxv EXCEPT !.itr = IF rs = 1 THEN IXGBE_20K_ITR ELSE rs],
                   txv |-> [a.v.txv EXCEPT !.itr = IF Setting(tx) = 1 THEN IXGBE_12K_ITR
                                                   ELSE Setting(tx)]]
             b == [a EXCEPT !.s = s2, !.v = v,
                            !.h.eitr = [rxv |-> v.rxv.itr, txv |-> v.txv.itr]]
         IN  {IF NeedsReset(prev, ts) \/ s2.flags # a.s.flags THEN DoReset(b) ELSE b}

\* Whether LRO may be on, by the flags and by the rate of the moment.
WithLro(s, flags) ==
    IF "lro" \notin s.features THEN flags \ {"rsc"}
    ELSE IF RscCapable /\ RscRate(s.rx_itr) THEN flags \cup {"rsc"} ELSE flags

\* Perfect filters take the place of ATR, which comes back without them.
WithNtuple(s, flags) ==
    IF "ntuple" \in s.features THEN (flags \ {"hash"}) \cup {"perfect"}
    ELSE (flags \ {"perfect"}) \cup (IF AtrAllowed THEN {"hash"} ELSE {})

\* A change of the filters alone does not reset.
FeatureResetRsc(old, new) == ("rsc" \in old) # ("rsc" \in new)
\* What makes ixgbe_set_features and ixgbe_set_flags reset the adapter.
FeatureReset(old, new) ==
    \/ ("rsc" \in old) # ("rsc" \in new)
    \/ ("perfect" \in old) # ("perfect" \in new)

FixFeatures(s, want) ==
    LET f == IF cw.tcs > 0 THEN want \cup {"vlan_rx"} ELSE want
    IN  IF "rxcsum" \notin f \/ ~RscCapable \/ s.xdp THEN f \ {"lro"} ELSE f

SetFeatures(a, want) ==
    LET fixed == FixFeatures(a.s, want)
        s1 == [a.s EXCEPT !.features = fixed]
        s2 == [s1 EXCEPT !.flags = WithNtuple(s1, WithLro(s1, a.s.flags))]
        b == [a EXCEPT !.s = s2]
    IN  {IF FeatureReset(a.s.flags, s2.flags) THEN DoReset(b)
         ELSE IF ("vlan_rx" \in fixed) # ("vlan_rx" \in a.s.features)
              THEN [b EXCEPT !.h.vme = VlanStrip(s2, b.h)]
         ELSE b}

\* ixgbe_set_flags and ixgbe_set_rx_csum, the ethtool callbacks of kernels
\* without ndo_set_features.
SetFlags(a, want) ==
    LET s1 == [a.s EXCEPT !.features = (want \ {"rxcsum"})
                                       \cup (a.s.features \cap {"rxcsum"})]
        s2 == [s1 EXCEPT !.flags = WithNtuple(s1, WithLro(s1, a.s.flags))]
        b == [a EXCEPT !.s = s2, !.h.vme = VlanStrip(s2, a.h)]
    IN  IF \/ cw.tcs > 0 /\ "vlan_rx" \notin want
           \/ "lro" \in want /\ ~RscCapable
        THEN {a}
        ELSE {IF FeatureReset(a.s.flags, s2.flags) THEN DoReset(b) ELSE b}

SetRxCsum(a, on) ==
    LET f == IF on THEN a.s.features \cup {"rxcsum"} ELSE a.s.features \ {"rxcsum", "lro"}
        b == [a EXCEPT !.s.features = f,
                       !.s.flags = IF on \/ "lro" \notin a.s.features THEN @ ELSE @ \ {"rsc"}]
    IN  {IF b.s.flags # a.s.flags THEN DoReset(b) ELSE b}

\* ixgbe_set_priv_flags: a change of the first word of flags hides one of
\* the second.
SetPrivFlags(a, want) ==
    LET hash == (a.s.flags \ {"hash"}) \cup (want \cap {"hash"})
        other == (a.s.flags \ {"legacy", "auto_vf"}) \cup (want \cap {"legacy", "auto_vf"})
    IN  IF ("hash" \in want /\ ~AtrAllowed) \/ ("auto_vf" \in want /\ cw.mac # "82599")
        THEN {a}
        ELSE IF hash # a.s.flags THEN {DoReset([a EXCEPT !.s.flags = hash])}
        ELSE IF other # a.s.flags
             THEN LET b == [a EXCEPT !.s.flags = other]
                  IN  {IF b.s.running THEN ReinitLocked(b) ELSE b}
        ELSE {a}

\* ixgbe_set_rss_hash_opt rewrites the UDP fields of MRQC in place.
SetRssHashOpt(a, want) == {[a EXCEPT !.s.udp = want, !.h.udp = want]}

\* ixgbe_set_rxfh: the table is stored and written, not kept over a reset.
SetRxfh(a) == {[a EXCEPT !.s.indir = "user", !.h.reta = "user"]}

FrameWithTags(mtu) == mtu + 26

ChangeMtu(a, mtu) ==
    IF a.s.xdp /\ FrameWithTags(mtu) > BufSize(a.r) THEN {a}
    ELSE LET b == [a EXCEPT !.s.mtu = mtu]
         IN  {IF b.s.running THEN ReinitLocked(b) ELSE b}

XdpSetup(a, on) ==
    IF a.r.rsc \/ FrameWithTags(a.s.mtu) > BufSize(a.r) \/ cw.tcs > 0 THEN {a}
    ELSE LET b == [a EXCEPT !.s.xdp = on] IN {IF on # a.s.xdp THEN SetupTc(b) ELSE b}

Open(a) == {Configured([a EXCEPT !.s.running = TRUE], a.h)}
Close(a) == {[a EXCEPT !.s.running = FALSE, !.h = ResetRegs]}
-----------------------------------------------------------------------------
Take(results) ==
    /\ steps < MaxSteps /\ steps' = steps + 1
    /\ \E b \in results : ad' = b.s /\ ring' = b.r /\ vec' = b.v /\ hw' = b.h
    /\ UNCHANGED cw

Does(op) == op \in cw.ops

Ringparam == Does("ring") /\ \E tx, rx \in Counts : Take(SetRingparam(Here, tx, rx))
Coalesce == Does("coalesce") /\ \E rx, tx \in Usecs : Take(SetCoalesce(Here, rx, tx))
FeaturesSet == Does("features")
               /\ \E f \in SUBSET (IF cw.mac = "82598" THEN Features \ {"ntuple"} ELSE Features) :
                     Take(SetFeatures(Here, f))
FlagsSet == Does("flags")
            /\ \E f \in SUBSET (Features \ {"rxcsum"}) :
                  (cw.mac = "82598" => "ntuple" \notin f) /\ Take(SetFlags(Here, f))
RxCsum == Does("flags") /\ \E on \in BOOLEAN : Take(SetRxCsum(Here, on))
PrivFlags == Does("priv") /\ \E f \in SUBSET {"hash", "legacy", "auto_vf"} :
                               Take(SetPrivFlags(Here, f))
RssHash == Does("rss") /\ \E u \in SUBSET Udp : Take(SetRssHashOpt(Here, u))
Rxfh == Does("rss") /\ Take(SetRxfh(Here))
Mtu == Does("mtu") /\ \E m \in Mtus : Take(ChangeMtu(Here, m))
Xdp == Does("xdp") /\ \E on \in BOOLEAN : Take(XdpSetup(Here, on))
IfUp == ~ad.running /\ Take(Open(Here))
IfDown == ad.running /\ Does("down") /\ Take(Close(Here))

\* ixgbe_poll, once the rings are clean: with an adaptive Rx setting every
\* vector's interval is reconsidered and written if it changed.
Polled(name, rxload, txload, late) ==
    LET v == [vec EXCEPT ![name] = SetItr(vec[name], rxload, txload, late)]
    IN  Take({[Here EXCEPT !.v = v, !.h.eitr[name] = v[name].itr]})

Poll == /\ Does("poll") /\ ad.running /\ ad.rx_itr = 1
        /\ \E rxload, txload \in Loads, late \in BOOLEAN :
              \/ Polled("rxv", rxload, txload, late)
              \/ ~cw.mixed /\ rxload = txload /\ Polled("txv", rxload, txload, late)

Init ==
    /\ cw \in Worlds
    /\ ad = [running |-> FALSE, mtu |-> 1500, xdp |-> FALSE, udp |-> {}, indir |-> "default",
             features |-> {"rxcsum", "vlan_rx"}, rx_itr |-> 1, tx_itr |-> 1,
             flags |-> IF AtrAllowed THEN {"hash"} ELSE {},
             tx_count |-> 512, rx_count |-> 512]
    /\ ring = [rsc |-> FALSE, b3k |-> FALSE, build |-> FALSE, txc |-> 512, rxc |-> 512]
    /\ vec = FreshVectors(ad)
    /\ hw = ResetRegs /\ steps = 0

Next == Ringparam \/ Coalesce \/ FeaturesSet \/ FlagsSet \/ RxCsum \/ PrivFlags
        \/ RssHash \/ Rxfh \/ Mtu \/ Xdp \/ IfUp \/ IfDown \/ Poll

Spec == Init /\ [][Next]_cvars
-----------------------------------------------------------------------------
TypeOK ==
    /\ cw \in World
    /\ ad.flags \subseteq Flags /\ ad.features \subseteq Features /\ ad.udp \subseteq Udp
    /\ hw.wth \in {0, 1, 8} /\ hw.size \in {0, 2048, 3072}
    /\ \A n \in {"rxv", "txv"} : vec[n].itr \in 0..1016 /\ vec[n].rx \in 0..255 /\ vec[n].tx \in 0..255

\* Every setting that ethtool and the stack changed has reached the rings
\* of a running interface, whatever the order of the changes: receive side
\* coalescing is on in the filter, in the queues and in the rings when its
\* flag is and only at a rate that allows it, a frame of the MTU is let in,
\* the queues have the sizes, hash fields, redirection table, tag stripping
\* and Flow Director mode that were asked for, and the moderation registers
\* hold the vectors' intervals.
ConfigApplied ==
    /\ "rsc" \in ad.flags => "lro" \in ad.features /\ RscRate(ad.rx_itr)
    /\ ad.running =>
         /\ hw.rfctl = ("rsc" \in ad.flags) /\ hw.rscen = hw.rfctl /\ ring.rsc = hw.rfctl
         /\ hw.mfs = MaxFrame(ad)
         /\ hw.rlpml # 0 => hw.rlpml >= hw.mfs
         /\ ring.build => (ring.b3k = (hw.size = 3072)) /\ (ring.b3k \/ hw.mfs <= 1518)
         /\ hw.txlen = ad.tx_count /\ hw.rxlen = ad.rx_count
         /\ hw.udp = ad.udp /\ hw.reta = ad.indir
         /\ hw.vme = ("vlan_rx" \in ad.features)
         /\ hw.fdir = ConfigureFdir(ad)
         /\ hw.eitr = [rxv |-> vec.rxv.itr, txv |-> vec.txv.itr]

\* The write-back threshold is above one only while the vector's interrupts
\* are spaced: "it should not be set higher than 1 when ITR is 0 as it could
\* cause false TX hangs" (ixgbe_configure_tx_ring).
WritebackTimely ==
    ad.running /\ hw.wth > 1 => TxVector(vec).itr >= IXGBE_100K_ITR

\* Adaptive moderation never asks for less than IXGBE_ITR_ADAPTIVE_MIN_USECS
\* between two interrupts of a vector (ixgbe_update_itr).
ItrFloor == ad.running /\ ad.rx_itr = 1 => vec.rxv.itr >= MIN_USECS * 4

\* While an XDP program is attached every frame fits one buffer: no
\* coalescing and buffers as large as the frames ("verify ixgbe ring
\* attributes are sufficient for XDP", ixgbe_xdp_setup).
XdpOneBuffer ==
    ad.running /\ ad.xdp => ~ring.rsc /\ FrameWithTags(ad.mtu) <= BufSize(ring)

\* Perfect filters that the user may list are the ones in use.
RulesLive == ad.running /\ "perfect" \in ad.flags => hw.fdir = "perfect"
=============================================================================
