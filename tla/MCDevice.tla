----------------------------- MODULE MCDevice -----------------------------
(***************************************************************************)
(* The parts of the driver and of the device that share no state with the  *)
(* others, each on a small instance: those of Device (virtual functions,   *)
(* Flow Director rules, flash images), receive buffers, the clock, flow    *)
(* control, filters, queues and their settings, bring-up and self-test,    *)
(* firmware, the EEPROM and the buses, and module parameters.  A behaviour *)
(* is about one part.                                                      *)
(***************************************************************************)
EXTENDS Device, Sequences, TLC

CONSTANTS
    Parts,        \* the parts that are looked at
    Sheets        \* module parameters

\* Frames of one or more buffers, with errors; and an XDP program when memory
\* is short.
RxModes ==
    {[kinds |-> {"big", "more"}, xdp |-> FALSE, fail |-> FALSE],
     [kinds |-> {"bad", "more"}, xdp |-> FALSE, fail |-> FALSE],
     [kinds |-> {"small"}, xdp |-> TRUE, fail |-> TRUE]}

\* Small and large packet buffers, pause settings, and two ports on every kind
\* of medium.
Buffer(mtu, tcs, fdir) ==
    [x540 |-> FALSE, mtu |-> mtu, tcs |-> tcs, fdir |-> fdir, sriov |-> FALSE]
FcBuffers == {Buffer(1500, 1, 0), Buffer(3500, 8, 256)}
FcRequests == {[an |-> p[1], rx |-> p[2], tx |-> p[3]] :
                  p \in {<<TRUE, TRUE, TRUE>>, <<FALSE, FALSE, TRUE>>,
                         <<FALSE, TRUE, FALSE>>, <<FALSE, FALSE, FALSE>>}}
Cable(medium, a, b) == [media |-> medium, mac |-> "a" :> a @@ "b" :> b]
FcCables ==
    {Cable("backplane", "82598", "82599"), Cable("copper", "X540", "X540"),
     Cable("fiber", "82599", "82598"), Cable("sgmii", "X550EM_a", "X550EM_a")}

\* The worlds of VfConfig: which messages, requests and events meet.
MCVfWorlds ==
    {{"82599", "multicast", "rxmode", "reset"}, {"82599", "multicast", "down"},
     {"82599", "lpe", "link", "reset", "down"}, {"rate", "spoof", "down"},
     {"xcast", "trust", "rxmode", "mdd"}}

\* Machines with few processors, so that queue limits of every kind matter.
Machine(kind, cpus, atr, vmdq) ==
    [mac |-> kind, cpus |-> cpus, atr |-> atr, vmdq |-> vmdq]
Machines ==
    {Machine("82598", 4, FALSE, 0), Machine("82599", 4, TRUE, 8),
     Machine("82599", 3, TRUE, 0), Machine("X550", 3, FALSE, 0)}

\* Bandwidth groups: equal shares, and the smallest share there is.
Shares(a, b, x, y) == [pct |-> 0 :> a @@ 1 :> b, map |-> 0 :> x @@ 1 :> y]
DcbGroups == {Shares(50, 50, 0, 0), Shares(99, 1, 0, 1)}

\* The worlds of RingConfig, and loads on each side of the thresholds of the
\* adaptive moderation.
RingLoads == {[packets |-> p[1], bytes |-> p[2]] :
                 p \in {<<0, 0>>, <<10, 1000>>, <<300, 18000>>, <<300, 40500>>}}
RingWorld(kind, mixed, vmdq, ntcs, asks) ==
    [mac |-> kind, mixed |-> mixed, vmdq |-> vmdq, four |-> FALSE,
     tcs |-> ntcs, many |-> FALSE, fast |-> TRUE, ops |-> asks]
RingWorlds ==
    {RingWorld("82599", TRUE, FALSE, 0, {"coalesce", "features", "mtu", "down"}),
     RingWorld("X550", TRUE, FALSE, 0, {"coalesce", "poll"}),
     RingWorld("X550", TRUE, FALSE, 0, {"ring", "mtu", "xdp", "down"}),
     RingWorld("82599", TRUE, FALSE, 0, {"priv", "mtu", "rss"}),
     RingWorld("82598", TRUE, FALSE, 0, {"coalesce", "flags"}),
     RingWorld("82599", FALSE, TRUE, 4, {"coalesce", "flags", "rss"})}

\* Module parameters: the options that act on each other, each with values on
\* both sides of its limits. -1 is a parameter that is not given.
OptionNames ==
    {"IntMode", "MQ", "DCA", "RSS", "VMDQ", "max_vfs", "VEPA", "ITR", "LLIPort",
     "LLISize", "LLIPush", "LLIEType", "LLIVLANP", "FdirPballoc",
     "AtrSampleRate", "FCoE", "LRO", "sfp", "dmac_watchdog", "vxlan_rx", "MDD"}
NoOptions == [n \in OptionNames |-> -1]
QueueSheets ==
    {[NoOptions EXCEPT !["IntMode"] = a, !["MQ"] = b, !["RSS"] = c, !["VMDQ"] = d,
                       !["max_vfs"] = e] :
        a \in {-1, 0, 3}, b \in {-1, 0, 2}, c \in {-1, 4, 17, 64},
        d \in {-1, 2, 65}, e \in {-1, 3}}
RateSheets ==
    {[NoOptions EXCEPT !["ITR"] = a, !["LRO"] = b, !["dmac_watchdog"] = c,
                       !["max_vfs"] = d, !["vxlan_rx"] = e] :
        a \in {-1, 0, 1, 956, 488281}, b \in {-1, 1, 2}, c \in {-1, 40, 10001},
        d \in {-1, 2}, e \in {-1, 2}}
LatencySheets ==
    {[NoOptions EXCEPT !["LLIPort"] = a, !["LLISize"] = b, !["LLIPush"] = c,
                       !["LLIEType"] = d, !["LLIVLANP"] = e] :
        a \in {-1, 0, 80}, b \in {-1, 1501}, c \in {-1, 0, 1}, d \in {-1, 36864},
        e \in {-1, 8}}
OtherSheets ==
    {[NoOptions EXCEPT !["DCA"] = a, !["VEPA"] = b, !["FdirPballoc"] = c,
                       !["AtrSampleRate"] = d, !["FCoE"] = e, !["sfp"] = f,
                       !["MDD"] = g] :
        a \in {-1, 3}, b \in {-1, 1}, c \in {-1, 4}, d \in {-1, 0, 256},
        e \in {-1, 2}, f \in {1, 2}, g \in {-1, 2}}
MCSheets == {NoOptions} \cup QueueSheets \cup RateSheets \cup LatencySheets \cup OtherSheets

\* An InterruptThrottleRate below the smallest one.
ItrSheets == {NoOptions, [NoOptions EXCEPT !["ITR"] = 5]}

\* Adapters under test: broken in one place, failing to allocate, or with
\* virtual functions.
Sound ==
    [running |-> TRUE, offline |-> TRUE, link |-> TRUE, dcb |-> FALSE, vt |-> FALSE,
     vfs |-> FALSE, family |-> "82599", orig_autoc |-> TRUE, irq |-> "legacy",
     fault |-> "none", at |-> 0, fails |-> {}]
TestSetups ==
    {[Sound EXCEPT !.fault = f, !.at = a, !.irq = q, !.dcb = d] :
        f \in {"none", "status", "stuck0", "stuck1", "eeprom", "deaf", "leaky", "lossy"},
        a \in 0 .. 3, q \in {"msix", "msi", "legacy", "shared"}, d \in BOOLEAN}
    \cup {[Sound EXCEPT !.fails = s, !.family = m, !.orig_autoc = o, !.running = r] :
        s \in SUBSET {"irq", "tx", "rx", "skb"}, m \in {"82598", "X540"},
        o \in BOOLEAN, r \in BOOLEAN}
    \cup {[Sound EXCEPT !.offline = o, !.vt = n, !.vfs = f, !.link = l] :
        o \in BOOLEAN, n \in BOOLEAN, f \in BOOLEAN, l \in BOOLEAN}

\* Images with a newer version, a higher security revision, and one whose
\* checksum is wrong.
Content(version, srev, nodes, ok) ==
    [ver |-> version, srev |-> srev, hdr |-> 2, nodes |-> nodes, sum |-> ok]
FlashContents == {Content(2, 1, 1, TRUE), Content(3, 2, 0, TRUE), Content(4, 2, 0, FALSE)}
FlashActive == Content(1, 1, 0, TRUE)

\* An EEPROM of 16 words, and writes that start or end in the middle of a word
\* or go past a page.
EepromImage == <<6, 9, 0, 1, 5, 6, 2, 1, 3, 2, 1, 2, 0, 0, 0, 0>>
EepromWrites ==
    {[off |-> w[1], len |-> w[2], fill |-> w[3]] :
        w \in {<<8, 12, 3>>, <<3, 2, 1>>, <<1, 2, 3>>, <<16, 16, 2>>}}

\* Three clusters of tables, with several blocks and several tables.
LogClusters == (0 :> <<2, 1>>) @@ (1 :> <<1>>) @@ (2 :> <<1, 2>>)

PldmDevice ==
    [type \in {"vendor", "device", "subvendor", "subdev"} |->
        IF type = "vendor" THEN 8 ELSE 5]

\* (The instance of Pldm is for its lengths alone.)
Length == INSTANCE Pldm WITH
    Packages <- {}, Device <- PldmDevice, MaxTrouble <- 0,
    pkg <- x1, offset <- x2, at <- x3, records <- x4, components <- x5,
    matching <- x6, sent <- x7, pstage <- x8, perr <- x9, ptrouble <- x10
\* Update packages: well-formed ones with one or two records, and all that
\* differ from one of them in a length, a size or a checksum.
Descriptor(type, size, id) == [type |-> type, size |-> size, value |-> id]
Record(descs, data, map) ==
    [len |-> 0, vlen |-> 1, descs |-> descs, data |-> data, map |-> map]
Mine == Record(<<Descriptor("vendor", 2, 8), Descriptor("device", 2, 5)>>, 2, {0, 2})
Other == Record(<<Descriptor("device", 2, 6)>>, 1, {1})
Generic == Record(<<Descriptor("oem", 5, 3)>>, 0, {0, 1, 2})
One == Record(<<Descriptor("uuid", 16, 3), Descriptor("device", 2, 0)>>, 0, {1})
WellMade(recs) ==
    LET part1 == [vlen |-> 1, place |-> 0, size |-> 5]
        p == [fsize |-> 0, total |-> 0, vlen |-> 1, bits |-> 8, recs |-> recs,
              comps |-> <<part1, part1, part1>>, id |-> TRUE, revision |-> TRUE,
              crc |-> TRUE]
        q == [p EXCEPT !.recs = [i \in DOMAIN recs |->
                  [recs[i] EXCEPT !.len = Length!TrueRecord(p, recs[i])]]]
        n == Length!TrueHeader(q)
    IN [q EXCEPT !.total = n, !.fsize = n + 30,
                 !.comps = [i \in 1 .. 3 |-> [part1 EXCEPT !.place = n + 5 * i]]]
Good == {WellMade(r) : r \in {<<Mine>>, <<Other, Mine>>, <<Other>>, <<Generic, Mine>>, <<One>>,
                              <<Other, Generic>>}}
Spoilt(p) ==
    {[p EXCEPT !.id = FALSE], [p EXCEPT !.revision = FALSE], [p EXCEPT !.crc = FALSE],
     [p EXCEPT !.bits = 9],
     [p EXCEPT !.recs[1].len = @ + 1, !.recs[1].descs[1].size = @ + 1]}
    \cup {[p EXCEPT !.fsize = n] : n \in 0 .. (p.total + 30)}
    \cup UNION {{[p EXCEPT !.total = @ + d], [p EXCEPT !.vlen = @ + d],
                 [p EXCEPT !.recs[1].len = @ + d]} : d \in {-1, 1, 100}}
    \cup {[p EXCEPT !.recs[1].len = @ + d, !.total = @ + d] : d \in {-1, 1}}
    \cup UNION {{[p EXCEPT !.recs[1].data = @ + d], [p EXCEPT !.comps[2].vlen = @ + d],
                 [p EXCEPT !.comps[2].size = @ + d]} : d \in {1, 100}}
PldmPackages == Good \cup UNION {Spoilt(p) : p \in Good}

\* Calls on an array of each kind: indices on both sides of what one, two and
\* three levels hold.
ArrayCall(op, i, hi, e, old, m) ==
    [op |-> op, index |-> i, hi |-> hi, entry |-> e, old |-> old, mark |-> m]
ArrayCalls ==
    [plain |->
        {ArrayCall("store", i, 0, e, "null", 0) : i \in {0, 5}, e \in {"null", "value"}}
        \cup {ArrayCall("cmpxchg", 1, 0, e, "null", 0) : e \in {"zero", "p"}}
        \cup {ArrayCall("erase", 5, 0, "null", "null", 0),
              ArrayCall("set_mark", 5, 0, "null", "null", 1),
              ArrayCall("clear_mark", 5, 0, "null", "null", 1),
              ArrayCall("destroy", 0, 0, "null", "null", 0)},
     alloc |->
        {ArrayCall("alloc", i, 7, e, "null", 0) : i \in {0, 3}, e \in {"null", "value"}}
        \cup {ArrayCall("alloc", 0, 0, "p", "null", 0), ArrayCall("cyclic", 6, 7, "p", "null", 0),
              ArrayCall("insert", 4, 0, "p", "null", 0),
              ArrayCall("store", 0, 0, "null", "null", 0)}
        \cup {ArrayCall("erase", i, 0, "null", "null", 0) : i \in {0, 6}},
     alloc1 |->
        {ArrayCall("alloc", i, 7, "value", "null", 0) : i \in {0, 2}}
        \cup {ArrayCall("erase", i, 0, "null", "null", 0) : i \in {1, 2}}
        \cup {ArrayCall("insert", 4, 0, "p", "null", 0)}]

Rx == INSTANCE RxRing WITH
    Count <- 3, Write <- 1, BiasMax <- 3, Pages <- 1 .. 3, NoPage <- 0,
    Modes <- RxModes, MaxFrags <- 2, mode <- x1, pc <- x2, slot <- x3,
    desc <- x4, head <- x5, next_to_clean <- x6, next_to_use <- x7,
    next_to_alloc <- x8, cleaned_count <- x9, fill <- x10, todo <- x11,
    chain <- x12, held <- x13, count <- x14, mapped <- x15
Zc == INSTANCE Xsk WITH
    Bufs <- {1, 2}, NoBuf <- 0, Page <- 99, RxCount <- 3, TxCount <- 2,
    Write <- 1, Budget <- 1, ActMod <- 8, Rates <- {0}, Parts <- 2,
    Verdicts <- {"redirect", "tx", "pass", "drop"}, MaxSetups <- 2, xq <- x1,
    xrx <- x2, xtx <- x3, pool <- x4, user <- x5, txq <- x6, flight <- x7,
    poll <- x8, xbad <- x9, twice <- x10, rate <- x11, setups <- x12
Clk == INSTANCE PtpClock WITH
    Boards <- {"82599", "X540", "X550", "E610"}, Mask <- 2199, Mask32 <- 67,
    Period <- 15, PerTick <- 16, Second <- 8, Rates <- {15, 17},
    Flaps <- {"82599", "X540", "E610"}, Speeds <- {"10G"}, MaxTicks <- 24,
    MaxCalls <- 2, board <- x1, speed <- x2, systime <- x3, inc <- x4,
    shift <- x5, mult <- x6, cycle_last <- x7, nsec <- x8,
    last_overflow_check <- x9, ticks <- x10, pps <- x11, edge <- x12,
    registered <- x13, due <- x14, calls <- x15
Fc == INSTANCE FlowControl WITH
    Ends <- {"a", "b"}, Buffers <- FcBuffers, Requests <- FcRequests,
    Cables <- FcCables, MaxTurns <- 2, req <- x1, noan <- x2, adv <- x3,
    lp <- x4, cur <- x5, negged <- x6, regs <- x7, buf <- x8, ret <- x9,
    up <- x10, seen <- x11, cable <- x12, gbps <- x13, complete <- x14,
    fturns <- x15
Vl == INSTANCE VlanFilter WITH
    NVids <- 2, NVfs <- 2, NSlots <- 3, WordBits <- 4, PortVfs <- {0},
    Worlds <- {{"reset", "promisc"}, {"port"}}, vhw <- x1, todo <- x2,
    active_vlans <- x3, promisc <- x4, user_promisc <- x5, granted <- x6,
    who <- x7, was <- x8, pf_vlan <- x9, clear_to_send <- x10, world <- x11
Mac == INSTANCE MacFilter WITH
    NRars <- 3, NMvs <- 1, NVfs <- 2, Managed <- {0}, Addrs <- {"a1", "a2"},
    mac_table <- x1, rar <- x2, vf_mac <- x3, pf_set_mac <- x4, trusted <- x5,
    vf_mvs <- x6, uc <- x7, synced <- x8, upe <- x9, alive <- x10
Q == INSTANCE QueueLayout WITH
    Tcs <- {0, 4, 8}, VfCounts <- {2, 15, 40}, Channels <- {2}, MaxTurns <- 3,
    mach <- x1, set <- x2, num <- x3, irq <- x4, left <- x5, rings <- x6,
    reg <- x7, phase <- x8, turns <- x9
D == INSTANCE Dcb WITH
    NTc <- 2, Ups <- {0, 1}, Chips <- {"82598", "82599"}, Groups <- DcbGroups,
    Frames <- {1518, 9018}, MaxSteps <- 4, mode <- x1, temp <- x2, cfg <- x3,
    ets <- x4, ipfc <- x5, tcs <- x6, prio <- x7, frame <- x8, running <- x9,
    link <- x10, dchip <- x11, dcb_hw <- x12, steps <- x13
Rc == INSTANCE RingConfig WITH
    Worlds <- RingWorlds, Mtus <- {1500, 2500, 9000}, Usecs <- {0, 1, 8, 50},
    Counts <- {512, 1024}, Loads <- RingLoads, MaxSteps <- 5, cw <- x1,
    ad <- x2, ring <- x3, vec <- x4, hw <- x5, steps <- x6
Par == INSTANCE Params WITH
    Macs <- {"82598", "82599", "X540", "X550", "X550EM", "E610"}, Cpus <- 8,
    sheet <- x1, board <- x2, adapter <- x3, stage <- x4
Pr == INSTANCE Probe WITH
    Kinds <- {"82599", "X550", "E610"}, kind <- x1, pstep <- x2, at <- x3,
    holds <- x4, off <- x5
Hw == INSTANCE HwReset WITH
    Macs <- {"82598", "82599", "X540", "X550em", "E610"}, MaxResets <- 3,
    MaxTrouble <- 2, mac <- x1, lesm <- x2, wol <- x3, medium <- x4,
    autoc <- x5, orig <- x6, stored <- x7, double <- x8, dirty <- x9,
    sem <- x10, started <- x11, smart <- x12, num_rar <- x13, san <- x14,
    step <- x15, status <- x16, lms_was <- x17, adv_was <- x18, rturns <- x19,
    rtrouble <- x20
St == INSTANCE SelfTest WITH
    Setups <- TestSetups, Vectors <- 4, Count <- 8, Batch <- 3, setup <- x1,
    phase <- x2, data <- x3, drv <- x4, chip <- x5, loop <- x6
Inf == INSTANCE FlashInfo WITH
    Contents <- FlashContents, ActiveNow <- FlashActive, MaxUpdates <- 2,
    MaxTrouble <- 1, flash <- x1, active <- x2, pending <- x3, minsrev <- x4,
    drv <- x5, stale <- x6, phase <- x7, told <- x8, nupdates <- x9,
    ntrouble <- x10
Ee == INSTANCE Eeprom WITH
    Kinds <- {"82599", "X540", "X550"}, Byte <- 4, Size <- 16, Csum <- 2,
    Last <- 3, Ptrs <- {0, 1}, Sized <- (1 :> 2), Image <- EepromImage,
    Writes <- EepromWrites, ChipPage <- 2, PageMax <- 4, ChunkMax <- 8,
    MaxWrites <- 3, MaxFaults <- 1, ekind <- x1, mem <- x2, flash <- x3,
    page <- x4, job <- x5, probed <- x6, writes <- x7, efaults <- x8
Bus == INSTANCE I2cBus WITH
    Bits <- 2, MaxRetry <- 2, LoseMax <- 30, MaxJobs <- 2, bus <- x1,
    mem <- x2, call <- x3, lost <- x4, before <- x5, jobs <- x6
Log == INSTANCE FwLog WITH
    Modules <- {"link", "nvm"}, Levels <- {1}, RingDflt <- 4,
    RingSizes <- {1, 2, 4}, Clusters <- LogClusters, MaxSent <- 5,
    MaxOps <- 3, MaxLate <- 2, fwl <- x1, fwlog_cfg <- x2, fwlog_ring <- x3,
    mail <- x4, got <- x5, dump <- x6, bound <- x7, stray <- x8, fwops <- x9
Pl == INSTANCE Pldm WITH
    Packages <- PldmPackages, Device <- PldmDevice, MaxTrouble <- 1,
    pkg <- x1, offset <- x2, at <- x3, records <- x4, components <- x5,
    matching <- x6, sent <- x7, pstage <- x8, perr <- x9, ptrouble <- x10
Xa == INSTANCE XArray WITH
    ChunkSize <- 2, MaxIndex <- 7, Arrays <- {"plain", "alloc", "alloc1"},
    Calls <- ArrayCalls, Threads <- {1, 2}, MaxCalls <- 3, MaxFails <- 1,
    kind <- x1, xa <- x2, thr <- x3, next_id <- x4, counts <- x5

MCInit ==
    /\ part \in Parts
    /\ \/ DeviceInit
       \/ part = "rx" /\ Rx!Init /\ Zero16
       \/ part = "xsk" /\ Zc!Init /\ Zero13
       \/ part = "clock" /\ Clk!Init /\ Zero16
       \/ part = "fc" /\ Fc!Init /\ Zero16
       \/ part = "vlan" /\ Vl!Init /\ Zero12
       \/ part = "mac" /\ Mac!Init /\ Zero11
       \/ part = "queues" /\ Q!Init /\ Zero10
       \/ part = "dcb" /\ D!Init /\ Zero14
       \/ part = "rings" /\ Rc!Init /\ Zero7
       \/ part = "params" /\ Par!Init /\ Zero5
       \/ part = "probe" /\ Pr!Init /\ Zero6
       \/ part = "reset" /\ Hw!Init /\ Zero21
       \/ part = "test" /\ St!Init /\ Zero7
       \/ part = "info" /\ Inf!Init /\ Zero11
       \/ part = "eeprom" /\ Ee!Init /\ Zero9
       \/ part = "i2c" /\ Bus!Init /\ Zero7
       \/ part = "log" /\ Log!Init /\ Zero10
       \/ part = "pldm" /\ Pl!Init /\ Zero11
       \/ part = "xarray" /\ Xa!Init /\ Zero6

MCNext ==
    \/ DeviceNext
    \/ part = "rx" /\ Rx!Next /\ Keep16
    \/ part = "xsk" /\ Zc!Next /\ Keep13
    \/ part = "clock" /\ Clk!Next /\ Keep16
    \/ part = "fc" /\ Fc!Next /\ Keep16
    \/ part = "vlan" /\ Vl!Next /\ Keep12
    \/ part = "mac" /\ Mac!Next /\ Keep11
    \/ part = "queues" /\ Q!Next /\ Keep10
    \/ part = "dcb" /\ D!Next /\ Keep14
    \/ part = "rings" /\ Rc!Next /\ Keep7
    \/ part = "params" /\ Par!Next /\ Keep5
    \/ part = "probe" /\ Pr!Next /\ Keep6
    \/ part = "reset" /\ Hw!Next /\ Keep21
    \/ part = "test" /\ St!Next /\ Keep7
    \/ part = "info" /\ Inf!Next /\ Keep11
    \/ part = "eeprom" /\ Ee!Next /\ Keep9
    \/ part = "i2c" /\ Bus!Next /\ Keep7
    \/ part = "log" /\ Log!Next /\ Keep10
    \/ part = "pldm" /\ Pl!Next /\ Keep11
    \/ part = "xarray" /\ Xa!Next /\ Keep6

MCSpec == MCInit /\ [][MCNext]_mcvars
---------------------------------------------------------------------------
(* Properties *)

\* Every part keeps to its types.
TypesOK ==
    /\ part = "rx" => Rx!TypeOK
    /\ part = "clock" => Clk!TypeOK
    /\ part = "fc" => Fc!TypeOK
    /\ part = "vlan" => Vl!TypeOK
    /\ part = "mac" => Mac!TypeOK
    /\ part = "iov" => Iov!TypeOK
    /\ part = "vf" => Vf!TypeOK
    /\ part = "queues" => Q!TypeOK
    /\ part = "dcb" => D!TypeOK
    /\ part = "rings" => Rc!TypeOK
    /\ part = "rules" => Fd!TypeOK
    /\ part = "params" => Par!TypeOK
    /\ part = "probe" => Pr!TypeOK
    /\ part = "reset" => Hw!TypeOK
    /\ part = "test" => St!TypeOK
    /\ part = "nvm" => Nvm!TypeOK
    /\ part = "info" => Inf!TypeOK
    /\ part = "eeprom" => Ee!TypeOK
    /\ part = "i2c" => Bus!TypeOK
    /\ part = "log" => Log!TypeOK
    /\ part = "pldm" => Pl!TypeOK
    /\ part = "xarray" => Xa!TypeOK

\* Received data is never overwritten, and no page or buffer is lost, freed
\* twice or left mapped: pages that the stack and the hardware share in halves
\* (ixgbe_can_reuse_rx_page, ixgbe_put_rx_buffer), and the buffers of a zero
\* copy socket (ixgbe_clean_rx_irq_zc, ixgbe_clean_xdp_tx_irq).
BuffersSafe ==
    /\ part = "rx" => /\ Rx!HalfExclusive /\ Rx!RefsCounted /\ Rx!MapAccounted
                      /\ Rx!StopsAtHead
    /\ part = "xsk" => Zc!BuffersKept

\* The PTP clock and the stamps show the time that is due
\* (ixgbe_ptp_overflow_check, ixgbe_ptp_start_cyclecounter).
ClockTrue == part = "clock" => Clk!ClockTrue

\* The VLVF and VFTA registers implement VLAN filtering function by function:
\* no step of a writer, in whatever order the registers are written, delivers
\* a VLAN to a function that has not asked for it (ixgbe_set_vfta_generic).
VlansIsolated ==
    /\ part = "vlan" => Vl!Policy!Init
    /\ [][part = "vlan" => Vl!PolicyStep]_mcvars

\* The filters that the functions share, VLVF slots and receive addresses,
\* belong to the functions that asked for them, and the PF keeps its own VLANs
\* (ixgbe_set_vf_vlan, ixgbe_set_vf_mac, ixgbe_set_vf_macvlan,
\* ixgbe_sync_mac_table).
FiltersOwned ==
    /\ part = "vlan" => Vl!SlotsUsed /\ Vl!PfSees
    /\ part = "mac" => Mac!RarsMirror /\ Mac!RarsOwned

\* A configuration is one that the driver can run: every ring has a vector
\* and a hardware queue of its own (ixgbe_alloc_q_vectors,
\* ixgbe_cache_ring_register), module parameters fit each other, and an
\* invalid one counts as not given (ixgbe_check_options).
ConfigSound ==
    /\ part = "queues" => Q!RingsServed /\ Q!RegsOwned
    /\ part = "params" => Par!OptionsSound /\ Par!InvalidIsDefault

\* What the administrator has set is what the registers of a running port say,
\* in whatever order it was set: traffic classes and priority flow control,
\* ring settings and moderation (ixgbe_dcbnl_set_all, ixgbe_set_coalesce,
\* ixgbe_set_features, ixgbe_configure); and neither end of the link sends
\* pause frames that the other ignores (ixgbe_negotiate_fc).
SettingsHold ==
    /\ part = "dcb" => D!DcbApplied
    /\ part = "rings" => Rc!ConfigApplied /\ Rc!WritebackTimely
    /\ part = "fc" => Fc!PauseAgrees

\* Whatever fails on the way, a function that is removed holds nothing
\* (ixgbe_probe, ixgbe_remove), a self-test tells the truth and leaves no trace
\* (ixgbe_diag_test), and a port is started only on hardware that was reset as
\* often as needed, with no semaphore held and on a link it can carry
\* (ixgbe_reset_hw_82599, ixgbe_disable_pcie_primary,
\* ixgbe_setup_mac_link_smartspeed).
BringUpClean ==
    /\ part = "probe" => Pr!Unbound
    /\ part = "test" => St!VerdictTrue /\ St!LeavesNoTrace
    /\ part = "reset" => Hw!StartedClean /\ Hw!LockReturned /\ Hw!Downgrades

\* A reported write of the EEPROM has put its words in place, the checksum
\* survives a power loss, and the I2C bus comes back in step
\* (ixgbe_set_eeprom, ixgbe_read_i2c_byte_generic_int).
StoresWhole ==
    /\ part = "eeprom" => Ee!WritesLand /\ Ee!FlashWhole
    /\ part = "i2c" => Bus!BusRecovers

\* What devlink and debugfs tell about the firmware is true: versions
\* (ixgbe_devlink_info_get), the newest log pages in order, the settings and
\* whole dumps (ixgbe_get_fwlog_data); and a package is accepted exactly when
\* it is well-formed and sent in the order that the firmware asks for
\* (pldmfw_flash_image).  A minimum security revision only grows, up to that
\* of the active image (ixgbe_devlink_minsrev_validate).
FirmwareTold ==
    /\ []/\ part = "info" => Inf!InfoTrue
         /\ part = "log" => Log!LogNewest /\ Log!CacheTrue /\ Log!DumpWhole
         /\ part = "pldm" => Pl!ParsesExactly /\ Pl!UpdateFramed
    /\ [][part = "info" => Inf!MinsrevStep]_mcvars

\* The back-ported XArray is a map with marks, its tree keeps its own books and
\* searches find what is there (__xa_store, __xa_alloc, xas_find).
ArrayIsMap ==
    /\ [](part = "xarray" => Xa!TreeWhole /\ Xa!SearchesRight)
    /\ [][part = "xarray" => Xa!MapStep]_mcvars
===========================================================================
