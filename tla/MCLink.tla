------------------------------ MODULE MCLink ------------------------------
(***************************************************************************)
(* The parts of a port that follow what happens outside it, each on a      *)
(* small instance: the link of every kind of medium, interrupts and        *)
(* polling, Flow Director sampling, timestamps, and the firmware's         *)
(* commands and events.  They share no state that the properties are       *)
(* about, so a behaviour is about one of them (part), under the fairness   *)
(* of that part.                                                           *)
(***************************************************************************)
EXTENDS LinkWatch

CONSTANT
    Parts         \* the parts that are looked at

VARIABLES
    part,         \* the part that this behaviour is about
    napi_down, napi_eims, napi_eicr, inirq, napi, disabling, missed, poll,
    napi_work, rxon, ctl, rearm, arrivals, ops,
    ptp_phy, clock, running, bit, ptp_tx_skb, ptp_late, pending, at, seenlate,
    xm, flight, txstmp, txon, asked, modes,
    how, rxvalid, rxlost, rxold, pkt, stamped, pktold, reports, intr,
    rx_tstamps,
    init_done, full, atr_cause, atr_eims, reinit, atr_sched, atr_svc, atr_irq,
    rt, hash, atr_down, failed, fills, resets,
    cage, sfp_partner, sfp_phy, sfp_reset, link_config, corectl, rate, lms,
    advertised, job, up, registered, sfp_spoiled, sfp_changes, fops,
    sfp_trouble,
    fw, e610_partner, hw, ad, e610_svc, e610_spoiled, unset, world,
    e610_changes, lops, ltrouble,
    pworld, sm, token, sb, krm, ext, mux, cs, phy_late, run, phy_irq, jobs,
    phy_changes, faults,
    thr, lock, hicr, hida, hida2, last_status, aci_work, held, evq, aci_eicr,
    async_event, executed, aci_spoiled, calls, aci_trouble, events

napivars == <<napi_down, napi_eims, napi_eicr, inirq, napi, disabling, missed,
              poll, napi_work, rxon, ctl, rearm, arrivals, ops>>
ptpvars == <<ptp_phy, clock, running, bit, ptp_tx_skb, ptp_late, pending, at,
             seenlate, xm, flight, txstmp, txon, asked, modes>>
ptprxvars == <<how, rxvalid, rxlost, rxold, pkt, stamped, pktold, reports,
               intr, rx_tstamps>>
atrvars == <<init_done, full, atr_cause, atr_eims, reinit, atr_sched,
             atr_svc, atr_irq, rt, hash, atr_down, failed, fills, resets>>
sfpvars == <<cage, sfp_partner, sfp_phy, sfp_reset, link_config, corectl,
             rate, lms, advertised, job, up, registered, sfp_spoiled,
             sfp_changes, fops, sfp_trouble>>
e610vars == <<fw, e610_partner, hw, ad, e610_svc, e610_spoiled, unset, world,
              e610_changes, lops, ltrouble>>
phyvars == <<pworld, sm, token, sb, krm, ext, mux, cs, phy_late, run,
             phy_irq, jobs, phy_changes, faults>>
acivars == <<thr, lock, hicr, hida, hida2, last_status, aci_work, held, evq,
             aci_eicr, async_event, executed, aci_spoiled, calls,
             aci_trouble, events>>

\* The worlds of E610Link: a medium that comes and goes with a command that
\* fails, energy-efficient Ethernet against a changing partner, and requests
\* of the user against a changing medium.
E610World(asks, changed, n, t) ==
    [ops |-> asks, changes |-> changed, maxops |-> n, maxtrouble |-> t]
E610Idle == E610World({"cycle"}, {"media"}, 1, 1)
E610Worlds ==
    {E610Idle, E610World({"cycle", "eee", "pause"}, {"partner"}, 2, 0),
     E610World({"cycle", "speed"}, {"media"}, 2, 0)}

\* The worlds of X550Phy: every kind of device, with one or two ports, the
\* programs that meet there, and accesses that fail.
PhyWorld(dev, ports, todo, n, changed, failing) ==
    [dev |-> dev, ports |-> ports, jobs |-> todo, speeds |-> {{1, 10}},
     blocked |-> FALSE, nvm |-> {}, on |-> {}, partners |-> {{1, 10}},
     njobs |-> n, nchanges |-> changed, nfaults |-> failing]
PhyIdle == PhyWorld("x_sfp", {0, 1}, {"link"}, 2, 0, 0)
PhyWorlds ==
    {PhyIdle,
     PhyWorld("x_sfp", {0, 1}, {"cs4227"}, 3, 0, 2),
     PhyWorld("x_kr", {0, 1}, {"fc"}, 2, 0, 1),
     PhyWorld("a_kr", {0}, {"fc", "link"}, 1, 0, 1),
     PhyWorld("a_sgmii", {0}, {"link"}, 1, 0, 1),
     PhyWorld("a_1g_t", {0}, {"link", "reset", "temp"}, 2, 1, 1),
     PhyWorld("a_sfp", {0}, {"link"}, 1, 0, 1),
     PhyWorld("a_10g_t", {0, 1}, {"reset"}, 2, 0, 0),
     PhyWorld("a_10g_t", {0}, {"reset"}, 1, 0, 2),
     PhyWorld("a_sfp_n", {0}, {"link"}, 1, 0, 1),
     PhyWorld("x_10g_t_kr", {0}, {"reset", "temp"}, 1, 1, 1),
     [PhyWorld("x_10g_t", {0}, {"link"}, 1, 2, 0) EXCEPT
         !.on = {"an_mask", "int_mask", "ven_mask", "std_mask"}],
     [PhyWorld("x_10g_t", {1}, {"lplu", "loopback"}, 1, 1, 1) EXCEPT
         !.nvm = {"lplu", "wol", "d10g0"}, !.partners = {{1, 10}, {10}}]}

\* Two calls and events in all: commands and events take turns to be rare.
AciSpent == {<<0, 2>>, <<1, 1>>, <<2, 0>>}

Nap == INSTANCE NapiIrq WITH
    Vectors <- {1}, MaxWork <- 2, Budget <- 1, MaxArrivals <- 2, MaxOps <- 2,
    down <- napi_down, eims <- napi_eims, eicr <- napi_eicr, work <- napi_work
Tx == INSTANCE Ptp WITH
    Queues <- {1}, Phys <- BOOLEAN, MaxPackets <- 2, MaxModes <- 1,
    phy <- ptp_phy, late <- ptp_late
Rx == INSTANCE PtpRx WITH
    Seqs <- {1, 2}
Atr == INSTANCE FdirAtr WITH
    NRings <- 2, MaxFills <- 3, MaxResets <- 2, cause <- atr_cause,
    eims <- atr_eims, sched <- atr_sched, svc <- atr_svc, irq <- atr_irq,
    down <- atr_down
Sfi == INSTANCE SfpLink WITH
    Modules <- {"dual", "one", "noinit", "bad"}, MaxChanges <- 3, MaxOps <- 1,
    MaxTrouble <- 1, partner <- sfp_partner, phy <- sfp_phy,
    spoiled <- sfp_spoiled, changes <- sfp_changes, trouble <- sfp_trouble
E == INSTANCE E610Link WITH
    Media <- {{1, 10}}, Partners <- {{1}, {1, 10}},
    Adverts <- {{10}, {1, 10}}, Worlds <- E610Worlds, MaxChanges <- 2,
    partner <- e610_partner, svc <- e610_svc, spoiled <- e610_spoiled,
    changes <- e610_changes
Phy == INSTANCE X550Phy WITH
    Worlds <- PhyWorlds, MaxTries <- 2, late <- phy_late, irq <- phy_irq,
    changes <- phy_changes
Cmd == INSTANCE Aci WITH
    Threads <- {"t1"}, Ops <- {"once", "retry", "acquire"}, MaxCalls <- 2,
    MaxExecute <- 2, MaxTrouble <- 1, MaxEvents <- 2, Spent <- AciSpent,
    work <- aci_work, eicr <- aci_eicr, spoiled <- aci_spoiled,
    trouble <- aci_trouble

mcvars == <<
    part, vars, napivars, ptpvars, ptprxvars, atrvars, sfpvars, e610vars,
    phyvars, acivars>>

\* A step of part p: the others keep what they were initialised with.
In(p) == part = p /\ UNCHANGED part

Only(p) ==
    /\ In(p)
    /\ p # "link" => UNCHANGED vars
    /\ p # "napi" => UNCHANGED napivars
    /\ p # "ptp" => UNCHANGED ptpvars
    /\ p # "ptprx" => UNCHANGED ptprxvars
    /\ p # "atr" => UNCHANGED atrvars
    /\ p # "sfp" => UNCHANGED sfpvars
    /\ p # "e610" => UNCHANGED e610vars
    /\ p # "phy" => UNCHANGED phyvars
    /\ p # "aci" => UNCHANGED acivars

MCInit ==
    /\ part \in Parts
    /\ Init
    /\ part # "link" => phys = TRUE
    /\ Nap!Init
    /\ Tx!Init
    /\ part # "ptp" => ptp_phy = FALSE
    /\ Rx!Init
    /\ part # "ptprx" => how = "phy"
    /\ Atr!Init
    /\ Sfi!Init
    /\ E!Init
    /\ e610_partner = {1, 10}
    /\ part # "e610" => world = E610Idle /\ hw.advertised = {10}
    /\ Phy!Init
    /\ part # "phy" => pworld = PhyIdle
    /\ Cmd!Init
    /\ part # "aci" => held = FALSE /\ calls = 0

MCNext ==
    \/ Only("link") /\ LinkChange
    \/ Only("link") /\ TimeoutPasses
    \/ Only("link") /\ UpComplete
    \/ Only("link") /\ SfpPlugged
    \/ Only("link") /\ Irq
    \/ Only("link") /\ IrqMask
    \/ Only("link") /\ IrqEnable
    \/ Only("link") /\ ServiceTimer
    \/ Only("link") /\ ServiceStart
    \/ Only("link") /\ CheckLink
    \/ Only("link") /\ Decide
    \/ Only("link") /\ ClearNeed
    \/ Only("link") /\ Unmask
    \/ Only("link") /\ Store
    \/ Only("link") /\ Report
    \/ Only("napi") /\ Nap!CheckHang
    \/ Only("napi") /\ Nap!Rearm
    \/ Only("napi") /\ Nap!UpBegin
    \/ Only("napi") /\ Nap!NapiEnable
    \/ Only("napi") /\ Nap!UpReadEicr
    \/ Only("napi") /\ Nap!UpIrqEnable
    \/ Only("napi") /\ Nap!IrqDisable
    \/ Only("napi") /\ Nap!SynchronizeIrq
    \/ Only("napi") /\ Nap!NapiDisable
    \/ Only("napi") /\ Nap!NapiDisabled
    \/ Only("napi") /\ Nap!CleanQueues
    \/ Only("napi") /\ Nap!SwitchConfigure
    \/ Only("napi") /\ Nap!XskWakeup
    \/ Only("napi") /\ Nap!DownBegin
    \/ Only("napi") /\ Nap!Fire(1)
    \/ Only("napi") /\ Nap!CleanRings(1)
    \/ Only("napi") /\ Nap!PollStart(1)
    \/ Only("napi") /\ Nap!PollClean(1)
    \/ Only("napi") /\ Nap!PollComplete(1)
    \/ Only("napi") /\ Nap!PollTest(1)
    \/ Only("napi") /\ Nap!PollEnable(1)
    \/ Only("napi") /\ Nap!Arrive(1)
    \/ Only("napi") /\ Nap!SwitchBegin(1)
    \/ Only("ptp") /\ Tx!XmitAsk(1)
    \/ Only("ptp") /\ Tx!XmitStep(1)
    \/ \E p \in 1 .. 2 : Only("ptp") /\ Tx!HwSend(p)
    \/ Only("ptp") /\ Tx!TxLate
    \/ \E a \in Tx!Actors : Only("ptp") /\ Tx!ClearStep(a)
    \/ Only("ptp") /\ Tx!WorkStep
    \/ Only("ptp") /\ Tx!PhyStamp
    \/ Only("ptp") /\ Tx!TxHang
    \/ Only("ptp") /\ Tx!SetTsConfig
    \/ Only("ptp") /\ Tx!Reset
    \/ Only("ptp") /\ Tx!Suspend
    \/ Only("ptp") /\ Tx!RtnlStep
    \/ Only("ptp") /\ Tx!PtpInit
    \/ Only("ptprx") /\ Rx!RxLatch
    \/ Only("ptprx") /\ Rx!RxTake
    \/ Only("ptprx") /\ Rx!RxAge
    \/ Only("ptprx") /\ Rx!RxHang
    \/ \E s \in {1, 2} : Only("ptprx") /\ Rx!RxPhyStamp(s)
    \/ \E s \in {1, 2} : Only("ptprx") /\ Rx!RxHold(s)
    \/ \E s \in {1, 2} : Only("ptprx") /\ Rx!FwIntr(s)
    \/ \E s \in {1, 2} : Only("ptprx") /\ Rx!PktAge(s)
    \/ \E s \in {1, 2} : Only("ptprx") /\ Rx!CompleteSkb(s)
    \/ Only("ptprx") /\ Rx!FwCache
    \/ Only("ptprx") /\ Rx!StampAge
    \/ \E r \in 1 .. 2 : Only("atr") /\ Atr!Fill(r)
    \/ \E other \in BOOLEAN : Only("atr") /\ Atr!MsixOther(other)
    \/ Only("atr") /\ Atr!MsixOtherEnd
    \/ Only("atr") /\ Atr!Timer
    \/ Only("atr") /\ Atr!Take
    \/ Only("atr") /\ Atr!ReinitTables
    \/ Only("atr") /\ Atr!ReinitFails
    \/ Only("atr") /\ Atr!MarkRing
    \/ Only("atr") /\ Atr!Unmask
    \/ \E mode \in BOOLEAN : Only("atr") /\ Atr!DownStart(mode)
    \/ Only("atr") /\ Atr!DownEnd
    \/ Only("atr") /\ Atr!Configure
    \/ Only("atr") /\ Atr!UpComplete
    \/ \E m \in {"dual", "one", "noinit", "bad"} : Only("sfp") /\ Sfi!Insert(m)
    \/ Only("sfp") /\ Sfi!Pull
    \/ \E s \in {0} \cup Sfi!Speeds : Only("sfp") /\ Sfi!Light(s)
    \/ Only("sfp") /\ Sfi!Service
    \/ \E s \in (SUBSET Sfi!Speeds) \ {{}} : Only("sfp") /\ Sfi!SetSpeed(s)
    \/ Only("sfp") /\ Sfi!Down
    \/ Only("sfp") /\ Sfi!Up
    \/ Only("e610") /\ E!Insert({1, 10})
    \/ Only("e610") /\ E!Pull
    \/ \E p \in {{1}, {1, 10}} : Only("e610") /\ E!PartnerChanges(p)
    \/ Only("e610") /\ E!Negotiate
    \/ Only("e610") /\ E!Interrupt
    \/ Only("e610") /\ E!ServiceEvents
    \/ Only("e610") /\ E!ServiceMedia
    \/ Only("e610") /\ E!ServiceWatch
    \/ Only("e610") /\ E!Open
    \/ Only("e610") /\ E!Close
    \/ \E s \in {{10}, {1, 10}} : Only("e610") /\ E!SetSpeed(s)
    \/ \E m \in E!Pauses : Only("e610") /\ E!SetPause(m)
    \/ \E on \in BOOLEAN : Only("e610") /\ E!SetEee(on)
    \/ Only("phy") /\ Phy!IosfDone
    \/ \E p \in pworld.ports : Only("phy") /\ Phy!Start(p)
    \/ \E p \in pworld.ports : Only("phy") /\ Phy!Drive(p)
    \/ \E p \in pworld.ports : Only("phy") /\ Phy!Change(p)
    \/ \E p \in pworld.ports : Only("phy") /\ Phy!Heat(p)
    \/ \E t \in Cmd!All : Only("aci") /\ Cmd!Execute(t)
    \/ \E t \in Cmd!All : Only("aci") /\ Cmd!PollSync(t)
    \/ \E t \in Cmd!All : Only("aci") /\ Cmd!PollAsync(t)
    \/ \E t \in Cmd!All : Only("aci") /\ Cmd!GiveUp(t)
    \/ \E t \in Cmd!All : Only("aci") /\ Cmd!ReadAnswer(t)
    \/ \E t \in Cmd!All : Only("aci") /\ Cmd!Retry(t)
    \/ \E t \in Cmd!All : Only("aci") /\ Cmd!Poll(t)
    \/ \E t \in Cmd!All : Only("aci") /\ Cmd!Return(t)
    \/ \E t \in Cmd!All, op \in {"once", "retry", "acquire"} : Only("aci") /\ Cmd!Call(t, op)
    \/ Only("aci") /\ Cmd!HandleEvents
    \/ Only("aci") /\ Cmd!NoEvent
    \/ Only("aci") /\ Cmd!Handled
    \/ Only("aci") /\ Cmd!Msix
    \/ \E ret \in {"ok", "busy", "error"} : Only("aci") /\ Cmd!FwAnswer(ret)
    \/ \E ret \in {"ok", "busy", "error"} : Only("aci") /\ Cmd!FwFinish(ret)
    \/ Only("aci") /\ Cmd!FwAck
    \/ Only("aci") /\ Cmd!FwEvent
    \/ Only("aci") /\ Cmd!FwRelease

\* What goes on by itself in a part: interrupts, softirqs, work items, timers,
\* firmware, and whoever holds the RTNL lock, as each module's own fairness
\* says. A behaviour is about one part, so one condition serves all of them.
Turn1 ==
    \/ In("link") /\ Irq
    \/ In("napi") /\ Nap!Fire(1)
    \/ In("ptp") /\ Tx!XmitStep(1)
    \/ In("ptprx") /\ Rx!RxTake
    \/ In("atr") /\ Atr!MsixOtherEnd
    \/ In("sfp") /\ Sfi!Service
    \/ In("e610") /\ E!Service
    \/ In("phy") /\ Phy!IosfDone
    \/ In("aci") /\ Cmd!Steps("t1")
Turn2 ==
    \/ In("link") /\ IrqMask
    \/ In("napi") /\ Nap!CleanRings(1)
    \/ In("ptp") /\ Tx!HwSend(1)
    \/ In("ptprx") /\ Rx!RxAge
    \/ In("atr") /\ Atr!Timer
    \/ In("sfp") /\ Sfi!Up
    \/ In("phy") /\ Phy!Drive(0)
    \/ In("aci") /\ Cmd!Steps(Cmd!Service)
Turn3 ==
    \/ In("link") /\ IrqEnable
    \/ In("napi") /\ Nap!PollStart(1)
    \/ In("ptp") /\ Tx!HwSend(2)
    \/ In("ptprx") /\ Rx!RxHang
    \/ In("atr") /\ Atr!Take
    \/ In("phy") /\ Phy!Drive(1)
    \/ In("aci") /\ Cmd!HandleEvents
Turn4 ==
    \/ In("link") /\ ServiceTimer
    \/ In("napi") /\ Nap!PollClean(1)
    \/ In("ptp") /\ Tx!ClearStep("work")
    \/ In("ptprx") /\ Rx!FwCache
    \/ In("atr") /\ (Atr!ReinitTables \/ Atr!ReinitFails)
    \/ In("aci") /\ Cmd!NoEvent
Turn5 ==
    \/ In("link") /\ ServiceStart
    \/ In("napi") /\ Nap!PollComplete(1)
    \/ In("ptp") /\ Tx!ClearStep("service")
    \/ In("ptprx") /\ Rx!RxHold(1)
    \/ In("atr") /\ Atr!MarkRing
    \/ In("aci") /\ Cmd!Handled
Turn6 ==
    \/ In("link") /\ CheckLink
    \/ In("napi") /\ Nap!PollTest(1)
    \/ In("ptp") /\ Tx!ClearStep("rtnl")
    \/ In("ptprx") /\ Rx!RxHold(2)
    \/ In("atr") /\ Atr!Unmask
    \/ In("aci") /\ Cmd!Msix
Turn7 ==
    \/ In("link") /\ Decide
    \/ In("napi") /\ Nap!PollEnable(1)
    \/ In("ptp") /\ Tx!WorkStep
    \/ In("ptprx") /\ Rx!PktAge(1)
    \/ In("atr") /\ Atr!DownEnd
    \/ In("aci") /\ Cmd!FwRelease
Turn8 ==
    \/ In("link") /\ ClearNeed
    \/ In("napi") /\ Nap!CheckHang
    \/ In("ptp") /\ Tx!RtnlStep
    \/ In("ptprx") /\ Rx!PktAge(2)
    \/ In("atr") /\ Atr!Configure
    \/ In("aci") /\ Cmd!FwTurn
Turn9 ==
    \/ In("link") /\ Unmask
    \/ In("napi") /\ Nap!Rearm
    \/ In("ptp") /\ Tx!TxLate
    \/ In("ptprx") /\ Rx!CompleteSkb(1)
    \/ In("atr") /\ Atr!UpComplete
Turn10 ==
    \/ In("link") /\ Store
    \/ In("napi") /\ Nap!RtnlStep
    \/ In("ptp") /\ Tx!TxHang
    \/ In("ptprx") /\ Rx!CompleteSkb(2)
Turn11 ==
    \/ In("link") /\ Report
Turn12 ==
    \/ In("link") /\ TimeoutPasses

PartVars ==
    CASE part = "link" -> vars
      [] part = "napi" -> napivars
      [] part = "ptp" -> ptpvars
      [] part = "ptprx" -> ptprxvars
      [] part = "atr" -> atrvars
      [] part = "sfp" -> sfpvars
      [] part = "e610" -> e610vars
      [] part = "phy" -> phyvars
      [] part = "aci" -> acivars

Fairness ==
    /\ WF_PartVars(Turn1) /\ WF_PartVars(Turn2) /\ WF_PartVars(Turn3) /\ WF_PartVars(Turn4)
    /\ WF_PartVars(Turn5) /\ WF_PartVars(Turn6) /\ WF_PartVars(Turn7) /\ WF_PartVars(Turn8)
    /\ WF_PartVars(Turn9) /\ WF_PartVars(Turn10) /\ WF_PartVars(Turn11) /\ WF_PartVars(Turn12)

MCSpec == MCInit /\ [][MCNext]_mcvars /\ Fairness
---------------------------------------------------------------------------
(* Properties *)

\* Every part keeps to its types.
TypesOK ==
    /\ part = "link" => TypeOK
    /\ part = "napi" => Nap!TypeOK
    /\ part = "ptp" => Tx!TypeOK
    /\ part = "ptprx" => Rx!TypeOK
    /\ part = "atr" => Atr!TypeOK
    /\ part = "sfp" => Sfi!TypeOK
    /\ part = "e610" => E!TypeOK
    /\ part = "phy" => Phy!TypeOK
    /\ part = "aci" => Cmd!TypeOK

\* What is shared is used by one at a time: a ring is cleaned by the poll
\* routine or by the holder of the RTNL lock that disabled it
\* (ixgbe_txrx_ring_disable, ixgbe_down), a command takes no answer of another
\* from PF_HIDA (ixgbe_aci_send_cmd_execute), and the two ports of an X550EM
\* keep each other's PHY accesses whole (ixgbe_read_iosf_sb_reg_x550, the
\* CS4227's reset, the PHY token).
UsedAlone == Nap!CleanedAlone /\ Cmd!AnswerIsMine /\ Phy!AccessMine

\* Work that waits is done: frames are polled or the interface goes down
\* (ixgbe_poll, ixgbe_check_hang_subtask), a full Flow Director table does not
\* end sampling for good (ixgbe_fdir_reinit_subtask), and events of the
\* firmware are fetched (ixgbe_handle_fw_event).
WorkServed == Nap!WorkPolled /\ Atr!AtrReturns /\ Cmd!EventsFetched

\* The one Tx timestamp at a time is given back, and no received packet or
\* latched stamp waits for ever (ixgbe_ptp_tx_hwtstamp_work, ixgbe_ptp_tx_hang,
\* ixgbe_ptp_rx_hang and the E610's list of packets).
TimestampsEnd == Tx!StampBitFreed /\ Rx!RxStampsLeave

\* Whatever is plugged in, and whenever, the port ends up configured for it:
\* an SFP module and the speed of its light, the medium of an E610, and the
\* integrated PHY behind a Base-T PHY (ixgbe_sfp_detection_subtask,
\* ixgbe_setup_mac_link_multispeed_fiber, ixgbe_check_media_subtask,
\* ixgbe_handle_lasi_ext_t_x550em).  When the watchdog of an E610 reports a
\* link, energy-efficient Ethernet is on in the firmware exactly when the
\* driver says so, and only at speeds that have it (ixgbe_watchdog_link_is_up).
PlugServed ==
    /\ Sfi!ModuleServed /\ Sfi!LinkComes /\ E!MediaServed
    /\ Phy!InternalFollows
    /\ E!EeeAtLinkUp
===========================================================================
