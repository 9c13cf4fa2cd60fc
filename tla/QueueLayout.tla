---------------------------- MODULE QueueLayout ----------------------------
(***************************************************************************)
(* How the driver divides the device's descriptor queues, and the MSI-X    *)
(* vectors that serve them, between its features (ixgbe_lib.c): traffic    *)
(* classes (DCB), VMDq pools (and the pools of the VFs in front of them),  *)
(* RSS, Flow Director, FCoE and XDP.                                       *)
(*                                                                         *)
(* Every change of a feature ends in ixgbe_clear_interrupt_scheme followed *)
(* by ixgbe_init_interrupt_scheme, which counts the queues for the mode    *)
(* (ixgbe_set_num_queues), asks for vectors, spreads the rings over the    *)
(* vectors one vector at a time, each of which may fail to be allocated,   *)
(* and gives each ring the register index of a hardware queue.             *)
(***************************************************************************)
EXTENDS Integers, FiniteSets, Functions, TLC

CONSTANTS
    Machines, \* records: MAC, CPUs, ATR sampling, RSS and VMDQ parameters
    Tcs,      \* traffic class counts a user asks for
    VfCounts, \* VF counts a user asks for
    Channels, \* channel counts a user asks for
    MaxTurns  \* feature changes in a behaviour

VARIABLES
    mach,    \* the machine
    set,     \* what the features are set to: flags, limits and offsets
    num,     \* num_{rx,tx,xdp}_queues, num_q_vectors and ring_feature values
    irq,     \* IXGBE_FLAG_MSIX_ENABLED, IXGBE_FLAG_MSI_ENABLED or neither
    left,    \* the loop of ixgbe_alloc_q_vectors: vector, remaining, next ring
    rings,   \* kind -> (ring index -> vector that owns the ring)
    reg,     \* kind -> (ring index -> reg_idx)
    phase,   \* "clear", "alloc", "ready"
    turns

qvars == <<mach, set, num, irq, left, rings, reg, phase, turns>>

Kinds == {"rx", "tx", "xdp"}
NoRing == [i \in {} |-> 0]
NoRings == [k \in Kinds |-> NoRing]
NonQVectors == 1
MaxFdirIndices == 63
MaxFcoe == 8
MaxXdpQs == MaxFdirIndices + 1
MaxRings == MaxFdirIndices + MaxFcoe
MaxVmdqIndices == 64
U16 == 65536

Least(a, b) == IF a <= b THEN a ELSE b
Most(a, b) == IF a <= b THEN b ELSE a
DivRoundUp(n, d) == (n + d - 1) \div d

MaxRss(m) == IF m.mac \in {"82598", "82599"} THEN 16 ELSE 63
\* dev->num_tx_queues as probe allocates the net_device.
NetdevQueues(m) == IF m.mac = "82598" THEN 32 ELSE MaxRings
MaxMsix(m) == IF m.mac = "82598" THEN 18 ELSE 64
MaxQVectors(m) == IF m.mac = "82598" THEN 16 ELSE 64

-----------------------------------------------------------------------------
(* How many queues each mode takes. A pool's mask is kept as the queues it  *)
(* leaves to a pool (q) and the registers it spans (span); a mode returns   *)
(* the counts and the ring features.                                       *)

\* IXGBE_82599_VMDQ_{8,4,2}Q_MASK.
Pool(q) == [q |-> q, span |-> 128]

Counts(n, pools, vm, rss, fcoe) ==
    [rx |-> n, tx |-> n, xdp |-> 0, pools |-> pools, vm |-> vm, rss |-> rss,
     rssq |-> 1, fcoe |-> fcoe]

DcbVmdqPools(m, s) ==
    IF m.mac = "82598" THEN Least(s.vmdq, 4)
    ELSE (Least(s.vmdq + s.vfs, IF s.tcs > 4 THEN 16 ELSE 32) - s.vfs) % U16

SetDcbVmdqQueues(m, s, old) ==
    LET pools == DcbVmdqPools(m, s)
        vm == IF m.mac = "82598" THEN [q |-> 1, span |-> 8]
              ELSE Pool(IF s.tcs > 4 THEN 8 ELSE 4)
        spare == Least(128 \div vm.q - (pools + s.vfs), s.flimit)
        n == pools * s.tcs
    IN IF ~s.fcoe THEN Counts(n, pools, vm, 1, old.fcoe)
       ELSE IF spare > 0
       THEN Counts(n + spare, pools, vm, 1, [indices |-> spare, offset |-> n])
       ELSE Counts(n, pools, vm, 1, [indices |-> 1, offset |-> s.ftc])

SetDcbQueues(m, s, old) ==
    LET most == IF m.mac = "82598" THEN 4 ELSE IF s.tcs > 4 THEN 8 ELSE 16
        rss == Least(Least(NetdevQueues(m) \div s.tcs, most), s.rss)
    IN [Counts(rss * s.tcs, old.pools, old.vm, rss,
               IF s.fcoe THEN [indices |-> Least(rss, s.flimit), offset |-> rss * s.ftc]
               ELSE old.fcoe)
        EXCEPT !.pools = 1, !.rssq = most]

\* FCoE queues that are merged with the rss queues of the only pool.
MergedFcoe(m, s, rss, all) ==
    LET n == IF irq = "msix" THEN Least(all, m.cpus) ELSE rss
        indices == Least(n, s.flimit)
    IN [n |-> n, f |-> [indices |-> indices, offset |-> n - indices]]

VmdqTotal(s) == Least(MaxVmdqIndices, s.vmdq + s.vfs)

\* Pools, queues per pool, and what is left behind the pools.
VmdqMode(m, s) ==
    IF m.mac = "82598"
    THEN IF Least(s.vmdq, 16) > 4 \/ s.rss = 1
         THEN [pools |-> Least(s.vmdq, 16), rss |-> 1, rssq |-> 1,
               vm |-> [q |-> 1, span |-> 16], spare |-> 0]
         ELSE [pools |-> s.vmdq, rss |-> Least(s.rss, 8), rssq |-> 8,
               vm |-> [q |-> 8, span |-> 32], spare |-> 0]
    ELSE LET q == IF VmdqTotal(s) > 32 THEN 2 ELSE 4
             rss == IF q = 2 THEN Least(s.rss, 2)
                    ELSE IF s.rss > 3 THEN 4 ELSE IF s.rss > 1 THEN 2 ELSE 1
         IN [pools |-> (VmdqTotal(s) - s.vfs) % U16, rss |-> rss, rssq |-> q,
             vm |-> Pool(q), spare |-> 128 - VmdqTotal(s) * q]

SetVmdqQueues(m, s, old) ==
    LET d == VmdqMode(m, s)
        n == d.pools * d.rss
        spare == Least(d.spare, s.flimit)
        merged == MergedFcoe(m, s, d.rss, spare + d.rss)
        c(k, f) == [Counts(k, d.pools, d.vm, d.rss, f) EXCEPT !.rssq = d.rssq]
    IN IF ~s.fcoe THEN c(n, old.fcoe)
       ELSE IF d.pools > 1 /\ spare > 0
       THEN c(n + spare, [indices |-> spare, offset |-> n])
       ELSE c(n + merged.n - d.rss, merged.f)

SetRssQueues(m, s, old) ==
    LET flow == IF s.rss > 1 /\ m.atr THEN s.fdir ELSE s.rss
        merged == MergedFcoe(m, s, flow, Least(s.flimit + flow, NetdevQueues(m)))
        n == IF s.fcoe THEN Most(merged.n, flow) ELSE flow
    IN [Counts(n, 1, old.vm, s.rss, IF s.fcoe THEN merged.f ELSE old.fcoe)
        EXCEPT !.xdp = IF s.xdp THEN Least(MaxXdpQs, m.cpus) ELSE 0,
               !.rssq = IF MaxRss(m) = 16 THEN 16 ELSE 64]

\* ixgbe_set_num_queues: the mode with the most features first.
SetNumQueues(m, s, old) ==
    IF s.tcs > 1 /\ s.vmdqOn THEN SetDcbVmdqQueues(m, s, old)
    ELSE IF s.tcs > 1 THEN SetDcbQueues(m, s, old)
    ELSE IF s.vmdqOn THEN SetVmdqQueues(m, s, old)
    ELSE SetRssQueues(m, s, old)

-----------------------------------------------------------------------------
(* The register index of each ring.                                        *)

\* The loops that give each pool "most" of its queues and move on to the next
\* (__ALIGN_MASK with the pool mask, which wraps): the rings after ring "last"
\* follow one by one.
Pooled(vm, from, most, last, n) ==
    LET at(i) == ((from + (i \div most) * vm.q) % vm.span) + (i % most)
    IN [i \in 0..(n - 1) |-> IF i <= last THEN at(i) ELSE at(last) + i - last]

SwapRx82598(i) == ((i \div 8) + (i % 8) * 8) % 64
\* ((i >> 4) | (i << 2)) & 0x1F
SwapTx82598(i) == (i \div 16) + (i % 8) * 4

CacheDcbVmdq(m, s, c, k) ==
    LET plain == Pooled(c.vm, s.vfs * c.vm.q, s.tcs, c[k], c[k])
        apart == s.fcoe /\ c.fcoe.offset >= s.tcs
    IN IF m.mac = "82598"
       THEN [i \in 0..(c[k] - 1) |-> IF k = "rx" THEN SwapRx82598(i) ELSE SwapTx82598(i)]
       ELSE [i \in 0..(c[k] - 1) |->
               IF apart /\ i >= c.fcoe.offset
               THEN (s.vfs + c.pools + i - c.fcoe.offset) * c.vm.q + s.ftc
               ELSE plain[i]]

\* ixgbe_get_first_reg_idx.
FirstRegIdx(m, s, k, tc) ==
    IF m.mac = "82598" THEN tc * (IF k = "tx" THEN 4 ELSE 8)
    ELSE IF s.tcs > 4
    THEN IF k = "rx" THEN tc * 16
         ELSE IF tc < 3 THEN tc * 32 ELSE IF tc < 5 THEN (tc + 2) * 16 ELSE (tc + 8) * 8
    ELSE IF k = "rx" THEN tc * 32
         ELSE IF tc < 2 THEN tc * 64 ELSE (tc + 4) * 16

CacheDcb(m, s, c, k) ==
    [i \in 0..(c[k] - 1) |-> FirstRegIdx(m, s, k, i \div c.rss) + (i % c.rss)]

\* The first FCoE queue is mapped as RSS, the others follow one by one. The
\* break tests the offset alone, not whether FCoE is enabled.
CacheVmdq(s, c, k) ==
    Pooled(c.vm, s.vfs * c.vm.q, c.rss,
           IF c.fcoe.offset > 0 THEN c.fcoe.offset ELSE c[k], c[k])

CacheRss(c, k) == [i \in 0..(c[k] - 1) |-> IF k = "xdp" THEN c.tx + i ELSE i]

\* ixgbe_cache_ring_register.
CacheRing(m, s, c, k) ==
    IF k = "xdp" \/ (s.tcs <= 1 /\ ~s.vmdqOn) THEN CacheRss(c, k)
    ELSE IF s.tcs > 1 /\ s.vmdqOn THEN CacheDcbVmdq(m, s, c, k)
    ELSE IF s.tcs > 1 THEN CacheDcb(m, s, c, k)
    ELSE CacheVmdq(s, c, k)

-----------------------------------------------------------------------------
\* What ixgbe_sw_init, the module parameters and ixgbe_probe leave.
Settings(m) ==
    [tcs |-> 0, pg |-> IF m.mac = "X550" THEN 4 ELSE 8, ftc |-> 0,
     vmdqOn |-> m.vmdq > 1, vmdq |-> m.vmdq, vfs |-> 0,
     rss |-> Least(MaxRss(m), m.cpus),
     fdir |-> IF m.mac = "82598" THEN 0 ELSE Least(MaxFdirIndices, m.cpus),
     fcoe |-> FALSE, flimit |-> Least(MaxFcoe, m.cpus), xdp |-> FALSE]

NoCounts == [Counts(0, 1, Pool(1), 0, [indices |-> 0, offset |-> 0])
             EXCEPT !.rssq = 0] @@ [qv |-> 0]

Idle == [v |-> 0, rx |-> 0, tx |-> 0, xdp |-> 0, rxi |-> 0, txi |-> 0, xdpi |-> 0]

Init ==
    /\ mach \in Machines
    /\ set = Settings(mach)
    /\ num = NoCounts
    /\ irq = "none"
    /\ left = Idle
    /\ rings = NoRings
    /\ reg = NoRings
    /\ phase = "clear"
    /\ turns = 0

NoQueues == [num EXCEPT !.rx = 0, !.tx = 0, !.xdp = 0, !.qv = 0]

\* ixgbe_free_q_vector for the vectors vs: each takes its rings out.
RingsOutside(k, vs) == Restrict(rings[k], {i \in DOMAIN rings[k] : rings[k][i] \notin vs})
FreeQVectorsTx(vs) == [rx |-> RingsOutside("rx", vs), tx |-> RingsOutside("tx", vs), xdp |-> rings.xdp]
FreeQVectors(vs) == [k \in Kinds |-> RingsOutside(k, vs)]

\* ixgbe_clear_interrupt_scheme at the end of every change s of the features.
Change(s) ==
    /\ phase \in {"ready", "failed"}
    /\ turns < MaxTurns
    /\ turns' = turns + 1
    /\ set' = s
    /\ rings' = FreeQVectors(0..(num.qv - 1))
    /\ reg' = NoRings
    /\ num' = NoQueues
    /\ irq' = "none"
    /\ phase' = "clear"
    /\ UNCHANGED <<mach, left>>

\* ixgbe_setup_tc: with a program attached the classes stay, and the scheme is
\* built again all the same.
SetupTc(tc, ftc) ==
    /\ tc <= set.pg
    /\ mach.mac = "82598" => tc \in {0, 8}
    /\ Change(IF tc > 0 /\ set.xdp THEN set ELSE [set EXCEPT !.tcs = tc, !.ftc = ftc])

\* ixgbe_max_channels.
MaxChannels ==
    IF irq # "msix" THEN 1
    ELSE IF set.vfs > 0 THEN num.rssq
    ELSE IF set.tcs > 1 THEN (IF mach.mac = "82598" THEN 4 ELSE IF set.tcs > 4 THEN 8 ELSE 16)
    ELSE IF mach.atr THEN Least(MaxFdirIndices, mach.cpus)
    ELSE MaxRss(mach)

SetChannels(n) ==
    /\ n <= MaxChannels
    /\ Change([set EXCEPT !.fdir = n, !.rss = Least(n, MaxRss(mach)),
                          !.flimit = Least(Least(n, MaxRss(mach)), MaxFcoe)])

\* ixgbe_pci_sriov_enable: VFs are limited by the traffic classes.
MaxVfs == IF set.tcs > 4 THEN 15 ELSE IF set.tcs > 1 THEN 31 ELSE 63

\* __ixgbe_enable_sriov: traffic classes are limited by the VFs.
PgTcsAny(n) == 8
PgTcs(n) == IF mach.mac = "82599" /\ n < 16 THEN 8 ELSE IF n < 32 THEN 4 ELSE 1

EnableVfs(n) ==
    /\ mach.mac # "82598"
    /\ set.vfs = 0
    /\ ~set.xdp
    /\ n <= MaxVfs
    /\ Change([set EXCEPT !.vmdqOn = TRUE, !.vmdq = Most(1, @), !.vfs = n, !.pg = PgTcs(n)])

\* ixgbe_disable_sriov: pg_tcs keeps the limit of the VFs.
DisableVfs ==
    /\ set.vfs > 0
    /\ Change([set EXCEPT !.vfs = 0, !.vmdqOn = set.vmdq # 1])

\* ixgbe_fcoe_enable and ixgbe_fcoe_disable.
SetFcoe ==
    /\ mach.mac # "82598"
    /\ Change([set EXCEPT !.fcoe = ~@])

\* ixgbe_xdp_setup, when the program comes or goes: not under DCB.
XdpSetup ==
    /\ mach.mac # "82598"
    /\ set.tcs = 0
    /\ Change([set EXCEPT !.xdp = ~@])

Alloc(c, qv) ==
    /\ num' = c @@ [qv |-> qv]
    /\ left' = [Idle EXCEPT !.rx = c.rx, !.tx = c.tx, !.xdp = c.xdp]
    /\ phase' = "alloc"
    /\ UNCHANGED <<mach, rings, reg, turns>>

\* ixgbe_acquire_msix_vectors: vectors asked for.
Wanted(c) ==
    Least(Least(Most(Most(c.rx, c.tx), c.xdp), mach.cpus) + NonQVectors, MaxMsix(mach))

\* ixgbe_init_interrupt_scheme with some of the vectors granted.
InitMsix ==
    /\ phase = "clear"
    /\ LET c == SetNumQueues(mach, set, num)
       IN \E granted \in (1 + NonQVectors)..Wanted(c) :
            /\ Alloc(c, Least(granted - NonQVectors, MaxQVectors(mach)))
    /\ irq' = "msix"
    /\ UNCHANGED set

\* ixgbe_set_interrupt_capability without MSI-X: every feature that needs
\* vectors is taken back and the queues are counted again.
Fallback == [set EXCEPT !.tcs = 0, !.ftc = 0, !.pg = 1, !.vmdqOn = FALSE, !.vfs = 0, !.rss = 1]

InitNoMsix ==
    /\ phase = "clear"
    /\ set' = Fallback
    /\ Alloc(SetNumQueues(mach, Fallback, SetNumQueues(mach, set, num)), 1)
    /\ irq' \in {"msi", "legacy"}

\* Rings of each kind that vector v takes: the rx ones first when there is a
\* vector for every ring.
Share ==
    LET alone == num.qv >= num.rx + num.tx + num.xdp /\ left.rx > 0
        more == num.qv - left.v
    IN [rx |-> IF alone THEN 1 ELSE DivRoundUp(left.rx, more),
        tx |-> IF alone THEN 0 ELSE DivRoundUp(left.tx, more),
        xdp |-> IF alone THEN 0 ELSE DivRoundUp(left.xdp, more),
        next |-> IF alone THEN 0 ELSE 1]

Own(k, is) == [i \in DOMAIN rings[k] \cup is |-> IF i \in is THEN left.v ELSE rings[k][i]]

\* One ixgbe_alloc_q_vector: rx and tx rings are dealt out, xdp rings follow
\* one another.
AllocQVector ==
    /\ phase = "alloc"
    /\ left.v < num.qv
    /\ LET n == Share
           dealt(i, many) == {i + j * num.qv : j \in 0..(many - 1)}
       IN /\ rings' = [rx |-> Own("rx", dealt(left.rxi, n.rx)),
                       tx |-> Own("tx", dealt(left.txi, n.tx)),
                       xdp |-> Own("xdp", left.xdpi..(left.xdpi + n.xdp - 1))]
          /\ left' = [v |-> left.v + 1, rx |-> left.rx - n.rx, tx |-> left.tx - n.tx,
                      xdp |-> left.xdp - n.xdp, rxi |-> left.rxi + 1,
                      txi |-> left.txi + n.next, xdpi |-> left.xdpi + n.xdp]
    /\ UNCHANGED <<mach, set, num, irq, reg, phase, turns>>

\* An allocation fails: the vectors before it are freed, and the interrupt
\* capability is given back.
AllocFails ==
    /\ phase = "alloc"
    /\ left.v < num.qv
    /\ rings' = FreeQVectors(0..(left.v - 1))
    /\ num' = NoQueues
    /\ left' = Idle
    /\ irq' = "none"
    /\ phase' = "failed"
    /\ UNCHANGED <<mach, set, reg, turns>>

CacheRingRegister ==
    /\ phase = "alloc"
    /\ left.v = num.qv
    /\ reg' = [k \in Kinds |-> CacheRing(mach, set, num, k)]
    /\ left' = Idle
    /\ phase' = "ready"
    /\ UNCHANGED <<mach, set, num, irq, rings, turns>>

Next ==
    \/ \E tc \in Tcs : \E ftc \in {0, tc - 1} \ {-1} : SetupTc(tc, ftc)
    \/ \E n \in Channels : SetChannels(n)
    \/ \E n \in VfCounts : EnableVfs(n)
    \/ DisableVfs
    \/ SetFcoe
    \/ XdpSetup
    \/ InitMsix
    \/ InitNoMsix
    \/ AllocQVector
    \/ AllocFails
    \/ CacheRingRegister

Spec == Init /\ [][Next]_qvars

-----------------------------------------------------------------------------
TypeOK ==
    /\ mach \in Machines
    /\ irq \in {"none", "msix", "msi", "legacy"}
    /\ phase \in {"clear", "alloc", "ready", "failed"}
    /\ \A k \in Kinds : num[k] \in Nat /\ left[k] \in 0..num[k]
    /\ num.qv \in Nat /\ left.v \in 0..num.qv
    /\ \A k \in Kinds : \A i \in DOMAIN rings[k] : i \in Nat /\ rings[k][i] \in Nat
    /\ turns \in 0..MaxTurns

\* Outside of the allocation loop the ring arrays hold exactly the rings the
\* counts announce: code that walks rx_ring, tx_ring and xdp_ring up to
\* num_*_queues meets no NULL, and nothing survives a failed allocation or
\* ixgbe_clear_interrupt_scheme. Each ring has one of the vectors, and no vector
\* has two rings of a kind more than another (ixgbe_alloc_q_vectors).
RingsServed ==
    phase # "alloc" =>
    \A k \in Kinds :
        /\ DOMAIN rings[k] = 0..(num[k] - 1)
        /\ LET load(v) == Cardinality({i \in DOMAIN rings[k] : rings[k][i] = v})
           IN \A v, w \in 0..(num.qv - 1) : load(v) <= load(w) + 1
        /\ \A i \in DOMAIN rings[k] : rings[k][i] < num.qv

Registers(k) == IF mach.mac = "82598" THEN (IF k = "rx" THEN 64 ELSE 32) ELSE 128

\* The pools fit behind those of the VFs (the u16 difference of
\* ixgbe_set_vmdq_queues and ixgbe_set_dcb_vmdq_queues does not wrap), and two
\* rings never drive one hardware queue: the register indices are distinct
\* (those of XDP among those of Tx), exist on the device, and stay out of the
\* pools of the VFs, in every mode of ixgbe_cache_ring_register.
RegsOwned ==
    /\ phase = "alloc" /\ set.vmdqOn => set.vfs + num.pools <= 128 \div num.vm.q
    /\ phase = "ready" =>
       LET used(k) == {reg[k][i] : i \in DOMAIN reg[k]}
           first == IF set.vmdqOn THEN set.vfs * num.vm.q ELSE 0
       IN /\ \A k \in Kinds : used(k) \subseteq first..(Registers(k) - 1)
          /\ Cardinality(used("rx")) = num.rx
          /\ Cardinality(used("tx") \cup used("xdp")) = num.tx + num.xdp

\* An attached program has an XDP ring for each Rx ring: ixgbe_xdp_setup reads
\* xdp_ring[i] for every Rx ring once the scheme is built again.
XdpBacked == phase = "ready" /\ set.xdp => num.rx <= num.xdp
=============================================================================
