------------------------------ MODULE VfConfig ------------------------------
(***************************************************************************)
(* What the PF keeps for each VF besides addresses and VLANs, and the      *)
(* registers that carry it out (ixgbe_sriov.c): multicast hashes, receive  *)
(* modes, receive/transmit enables and link state, frame sizes, transmit   *)
(* rates and spoof checks.  The VFs ask for changes through the mailbox    *)
(* (ixgbe_msg_task), the administrator through the netdev's ndo calls, and *)
(* every reset of the PF clears the registers, which ixgbe_configure and   *)
(* ixgbe_up_complete then write again from what is kept.                   *)
(*                                                                         *)
(* A message is handled as a whole: the handlers run in one interrupt      *)
(* handler, and the ndo calls and resets hold the RTNL.  A VF negotiates   *)
(* its mailbox API only after a reset, as ixgbevf does.  A world says     *)
(* which operations a behaviour has, and whether the adapter is an 82599.  *)
(***************************************************************************)
EXTENDS Integers, FiniteSets, TLAPS

CONSTANTS NVfs, Hashes, Worlds, MaxOps

VARIABLES vf, regs, pf, wiped, vworld, vops

gvars == <<vf, regs, pf, wiped, vworld, vops>>

Vfs == 0 .. NVfs - 1
Is82599 == "82599" \in vworld
Apis == {10, 11, 13}
Xcasts == {"none", "multi", "allmulti", "promisc"}
Rates == {0, 500}
LinkStates == {"auto", "on", "off"}

XBits == [none |-> {}, multi |-> {"BAM", "ROMPE"},
          allmulti |-> {"BAM", "ROMPE", "MPE"},
          promisc |-> {"BAM", "ROMPE", "MPE", "UPE", "VPE"}]

VfInfo == [api : Apis, cts : BOOLEAN, trusted : BOOLEAN, xcast : Xcasts,
           hashes : SUBSET Hashes, link : LinkStates, enable : BOOLEAN,
           spoof : BOOLEAN, rate : Rates]

\* __ixgbe_enable_sriov
Fresh == [api |-> 10, cts |-> FALSE, trusted |-> FALSE, xcast |-> "none",
          hashes |-> {}, link |-> "auto", enable |-> TRUE, spoof |-> TRUE,
          rate |-> 0]

\* The registers after a reset of the PF (external), as far as they matter.
Cleared == [mta |-> {}, mfe |-> FALSE, vmolr |-> [v \in Vfs |-> {}], vfre |-> {},
            vfte |-> {}, spoof |-> {}, rate |-> [v \in Vfs |-> 0],
            upe |-> FALSE]

AllHashes == UNION {vf[v].hashes : v \in Vfs}

-----------------------------------------------------------------------------
\* ixgbe_restore_vf_multicasts for the VFs' receive modes.
Rompe(bits, h) == IF h = {} THEN bits \ {"ROMPE"} ELSE bits \cup {"ROMPE"}

McAddrListPf(r, info, mc) ==
    [r EXCEPT !.mta = mc, !.vmolr = [v \in Vfs |-> Rompe(@[v], info[v].hashes)]]

\* ixgbe_write_mc_addr_list: the table is built again from the hashes of all
\* VFs and the PF's own list, and the filter is switched on for a list of the
\* PF (ixgbe_update_mc_addr_list_generic counts only those).
McAddrList(r, info, mc) ==
    [r EXCEPT !.mta = mc \cup UNION {info[v].hashes : v \in Vfs},
              !.mfe = @ \/ mc # {},
              !.vmolr = [v \in Vfs |-> Rompe(@[v], info[v].hashes)]]

\* ixgbe_set_rx_mode
RxMode(r, info, p) ==
    IF p.running THEN [McAddrList(r, info, p.mc) EXCEPT !.upe = p.promisc]
    ELSE [r EXCEPT !.upe = p.promisc]

SetRxTxAny(r, info, jumbo, v) ==
    LET on(S) == IF info[v].enable THEN S \cup {v} ELSE S \ {v}
    IN [r EXCEPT !.vfte = on(@), !.vfre = on(@)]

\* ixgbe_set_vf_rx_tx
SetRxTx(r, info, jumbo, v) ==
    LET on(S) == IF info[v].enable THEN S \cup {v} ELSE S \ {v}
    IN [r EXCEPT !.vfte = on(@),
                 !.vfre = IF Is82599 /\ jumbo THEN @ \ {v} ELSE on(@)]

\* ixgbe_set_vf_link_state; up: not __IXGBE_DOWN.
LinkInfo(i, state, up) ==
    [i EXCEPT !.link = state, !.enable = state = "on" \/ (state = "auto" /\ up),
              !.cts = FALSE]

\* ixgbe_set_vf_rate_limit
RateSet(r, info, v) == [r EXCEPT !.rate[v] = info[v].rate]

\* ixgbe_set_all_vfs; the enables of different VFs do not depend on each
\* other.
AllVfs(r, info, jumbo) ==
    LET at(v) == SetRxTx(r, info, jumbo, v)
    IN [r EXCEPT !.vfte = {v \in Vfs : v \in at(v).vfte},
                 !.vfre = {v \in Vfs : v \in at(v).vfre}]

-----------------------------------------------------------------------------
Init ==
    /\ vf = [v \in Vfs |-> Fresh]
    /\ regs = Cleared
    /\ pf = [mc |-> {}, promisc |-> FALSE, jumbo |-> FALSE,
             running |-> FALSE, link |-> 0, rated |-> 0]
    /\ wiped = {}
    /\ vworld \in Worlds
    /\ vops = 0

Op(name) ==
    /\ name \in vworld /\ vops < MaxOps
    /\ vops' = vops + 1
    /\ UNCHANGED vworld

\* ixgbe_vf_reset_event on info and registers; the VF's own reset disables
\* its queues (external).
ResetInfo(v) == [vf EXCEPT ![v].hashes = {}, ![v].api = 10]

ResetRegs(v) ==
    RxMode([regs EXCEPT !.vfre = @ \ {v}, !.vfte = @ \ {v},
                        !.vmolr[v] = @ \cup {"BAM"}], ResetInfo(v), pf)

VfReset(v) ==
    /\ pf.running /\ Op("reset")
    /\ vf' = ResetInfo(v)
    /\ regs' = ResetRegs(v)
    /\ UNCHANGED <<pf, wiped>>

\* ixgbe_vf_reset_msg
VfResetMsg(v) ==
    /\ pf.running /\ ~vf[v].cts
    /\ vf' = [ResetInfo(v) EXCEPT ![v].cts = TRUE]
    /\ regs' = SetRxTx(ResetRegs(v), ResetInfo(v), pf.jumbo, v)
    /\ UNCHANGED <<pf, wiped, vworld, vops>>

\* ixgbe_negotiate_vf_api
ApiNegotiate(v, a) ==
    /\ pf.running /\ vf[v].cts /\ vf[v].api = 10
    /\ vf' = [vf EXCEPT ![v].api = a]
    /\ UNCHANGED <<regs, pf, wiped, vworld, vops>>

\* ixgbe_set_vf_multicasts
SetMulticast(v, h) ==
    /\ pf.running /\ vf[v].cts /\ Op("multicast")
    /\ vf' = [vf EXCEPT ![v].hashes = h]
    /\ regs' = McAddrList([regs EXCEPT !.vmolr[v] = @ \cup {"ROMPE"}],
                          vf', pf.mc)
    /\ UNCHANGED <<pf, wiped>>

\* ixgbe_set_vf_lpe: only the 82599 has conditions.
SetLpe(v, jumbo) ==
    LET bad == IF vf[v].api > 10 /\ pf.jumbo THEN FALSE
               ELSE pf.jumbo \/ jumbo
    IN /\ pf.running /\ vf[v].cts /\ Op("lpe")
       /\ regs' = IF ~Is82599 THEN regs
                  ELSE [regs EXCEPT !.vfre = IF bad THEN @ \ {v}
                                             ELSE @ \cup {v}]
       /\ UNCHANGED <<vf, pf, wiped>>

\* ixgbe_update_vf_xcast_mode; the 82599 has no promiscuous VFs.
XcastMode(v, asked) ==
    LET mode == IF asked \in {"allmulti", "promisc"} /\ ~vf[v].trusted
                THEN "multi" ELSE asked
    IN /\ pf.running /\ vf[v].cts /\ Op("xcast")
       /\ vf[v].api = 13
       /\ mode # vf[v].xcast
       /\ mode = "promisc" => ~Is82599 /\ regs.upe
       /\ vf' = [vf EXCEPT ![v].xcast = mode]
       /\ regs' = [regs EXCEPT !.vmolr[v] = (@ \ XBits["promisc"])
                                            \cup XBits[mode]]
       /\ wiped' = wiped \ {v}
       /\ UNCHANGED pf

\* ixgbe_check_mdd_event: the VF has to reset itself.
MddEvent(v) ==
    /\ pf.running /\ Op("mdd")
    /\ vf' = [vf EXCEPT ![v].cts = FALSE]
    /\ UNCHANGED <<regs, pf, wiped>>

-----------------------------------------------------------------------------
(* The administrator.                                                      *)

\* ixgbe_ndo_set_vf_trust
SetTrust(v, on) ==
    /\ vf[v].trusted # on /\ Op("trust")
    /\ vf' = [vf EXCEPT ![v].trusted = on, ![v].cts = FALSE]
    /\ UNCHANGED <<regs, pf, wiped>>

\* ixgbe_ndo_set_vf_spoofchk
SetSpoofchk(v, on) ==
    /\ Op("spoof")
    /\ vf' = [vf EXCEPT ![v].spoof = on]
    /\ regs' = [regs EXCEPT !.spoof = IF on THEN @ \cup {v} ELSE @ \ {v}]
    /\ UNCHANGED <<pf, wiped>>

\* ixgbe_ndo_set_vf_bw
SetRate(v, rate) ==
    /\ pf.link = 10000 /\ Op("rate")
    /\ pf' = [pf EXCEPT !.rated = pf.link]
    /\ vf' = [vf EXCEPT ![v].rate = rate]
    /\ regs' = RateSet(regs, vf', v)
    /\ UNCHANGED wiped

\* ixgbe_ndo_set_vf_link_state
SetLinkState(v, state) ==
    /\ Op("link")
    /\ vf' = [vf EXCEPT ![v] = LinkInfo(@, state, pf.running)]
    /\ regs' = SetRxTx(regs, vf', pf.jumbo, v)
    /\ UNCHANGED <<pf, wiped>>

\* ixgbe_set_rx_mode, called when the PF's list or flags change.
SetRxMode(mc, promisc) ==
    /\ Op("rxmode")
    /\ pf' = [pf EXCEPT !.mc = mc, !.promisc = promisc]
    /\ regs' = RxMode(regs, vf, pf')
    /\ UNCHANGED <<vf, wiped>>

-----------------------------------------------------------------------------
(* The PF.                                                                 *)

\* ixgbe_down: the VFs become inactive, then the reset.
DownInfo == [v \in Vfs |-> LinkInfo(vf[v], vf[v].link, FALSE)]

Down ==
    /\ pf.running /\ Op("down")
    /\ vf' = DownInfo
    /\ regs' = Cleared
    /\ pf' = [pf EXCEPT !.running = FALSE, !.link = 0]
    /\ wiped' = Vfs

UpRegsBare(info, p) == AllVfs(RxMode(Cleared, info, p), info, p.jumbo)

\* ixgbe_configure (ixgbe_configure_virtualization, ixgbe_set_rx_mode) and
\* ixgbe_up_complete (ixgbe_set_all_vfs).
UpRegs(info, p) ==
    [AllVfs(RxMode(Cleared, info, p), info, p.jumbo)
        EXCEPT !.spoof = {v \in Vfs : info[v].spoof}]

\* ixgbe_up; the frame size of the PF may have been changed
\* (ixgbe_change_mtu sets it before the reset).
Up(jumbo) ==
    /\ ~pf.running
    /\ vf' = [v \in Vfs |-> LinkInfo(vf[v], vf[v].link, TRUE)]
    /\ pf' = [pf EXCEPT !.running = TRUE, !.jumbo = jumbo]
    /\ regs' = UpRegs(vf', pf')
    /\ UNCHANGED <<wiped, vworld, vops>>

\* ixgbe_watchdog_link_is_up calls ixgbe_check_vf_rate_limit.
RateChecked(speed) ==
    IF pf.rated = 0 THEN <<vf, regs, 0>>
    ELSE LET keep == speed = pf.rated
             info == [v \in Vfs |-> IF keep THEN vf[v]
                                    ELSE [vf[v] EXCEPT !.rate = 0]]
         IN <<info, [regs EXCEPT !.rate = [v \in Vfs |-> info[v].rate]],
              IF keep THEN pf.rated ELSE 0>>

LinkUp(speed) ==
    /\ pf.running /\ pf.link = 0
    /\ vf' = RateChecked(speed)[1]
    /\ regs' = RateChecked(speed)[2]
    /\ pf' = [pf EXCEPT !.link = speed, !.rated = RateChecked(speed)[3]]
    /\ UNCHANGED <<wiped, vworld, vops>>

LinkDown ==
    /\ pf.link # 0 /\ Op("down")
    /\ pf' = [pf EXCEPT !.link = 0]
    /\ UNCHANGED <<vf, regs, wiped>>

Message(v) ==
    \/ VfReset(v)
    \/ VfResetMsg(v)
    \/ \E a \in Apis \ {10} : ApiNegotiate(v, a)
    \/ \E h \in SUBSET Hashes : SetMulticast(v, h)
    \/ \E j \in BOOLEAN : SetLpe(v, j)
    \/ \E x \in Xcasts : XcastMode(v, x)
    \/ MddEvent(v)

Admin(v) ==
    \/ \E b \in BOOLEAN : SetTrust(v, b)
    \/ \E b \in BOOLEAN : SetSpoofchk(v, b)
    \/ \E r \in Rates : SetRate(v, r)
    \/ \E s \in LinkStates : SetLinkState(v, s)

Next ==
    \/ \E v \in Vfs : Message(v) \/ Admin(v)
    \/ \E mc \in SUBSET Hashes, b \in BOOLEAN : SetRxMode(mc, b)
    \/ Down
    \/ \E b \in BOOLEAN : Up(b)
    \/ \E s \in {1000, 10000} : LinkUp(s)
    \/ LinkDown

Spec == Init /\ [][Next]_gvars

-----------------------------------------------------------------------------
(* Properties.                                                             *)

TypeOK ==
    /\ vf \in [Vfs -> VfInfo]
    /\ regs.mta \subseteq Hashes /\ regs.mfe \in BOOLEAN /\ regs.vfre \subseteq Vfs
    /\ regs.vfte \subseteq Vfs /\ regs.spoof \subseteq Vfs
    /\ regs.vmolr \in [Vfs -> SUBSET XBits["promisc"]]
    /\ regs.rate \in [Vfs -> Rates]
    /\ wiped \subseteq Vfs /\ vworld \in Worlds /\ vops \in 0 .. MaxOps

\* The multicast table, which the PF and all VFs share, holds the hashes of
\* each of them whoever changed its list last, resets its VF or resets the PF
\* ("Sync up the PF and VF in the same MTA table", ixgbe_set_vf_multicasts).
McastShared == pf.running => regs.mta = pf.mc \cup AllHashes

\* What is kept for a VF is what the hardware does, across resets of the PF
\* and link changes: the spoof checks (ixgbe_configure_virtualization), the
\* transmit rates while the link is up (ixgbe_check_vf_rate_limit), no
\* transmission of a VF whose link is off (ixgbe_set_vf_rx_tx), and the receive
\* mode until the PF is reset (ixgbe_update_vf_xcast_mode).
VfCfgApplied ==
    pf.running => \A v \in Vfs :
        /\ (v \in regs.spoof) = vf[v].spoof
        /\ pf.link # 0 => regs.rate[v] = vf[v].rate
        /\ v \in regs.vfte => vf[v].enable
        /\ v \notin wiped => ("MPE" \in regs.vmolr[v]) =
                                 (vf[v].xcast \in {"allmulti", "promisc"})

\* "For 82599EB we cannot allow legacy VFs to enable their receive paths when
\* MTU greater than 1500 is configured" (ixgbe_change_mtu).
LegacyOff ==
    Is82599 /\ pf.running /\ pf.jumbo =>
        \A v \in regs.vfre : vf[v].api > 10

\* The hashes filter: the multicast filter is on when the shared table has
\* entries.
McastFiltered == pf.running /\ regs.mta # {} => regs.mfe

\* A VF whose link the administrator switched off receives nothing.
LinkStateHeld ==
    pf.running => \A v \in regs.vfre : vf[v].link # "off"

-----------------------------------------------------------------------------
(***************************************************************************)
(* McastShared, VfCfgApplied and LegacyOff, for any number of VFs and any  *)
(* hashes.  VfHeld says of one VF how its registers follow what is kept    *)
(* for it, also while the port is down, when most of the properties are    *)
(* silent: two facts carry it over the next up, that there is no link      *)
(* without a running port and that a rate is only kept while               *)
(* vf_rate_link_speed is set.                                              *)
(***************************************************************************)
VfRegs == [mta : SUBSET Hashes, mfe : BOOLEAN, vmolr : [Vfs -> SUBSET XBits["promisc"]],
           vfre : SUBSET Vfs, vfte : SUBSET Vfs, spoof : SUBSET Vfs,
           rate : [Vfs -> Rates], upe : BOOLEAN]
UpSpeeds == {1000, 10000}
LinkSpeeds == {0, 1000, 10000}
RatedSpeeds == {0, 10000}
VfPf == [mc : SUBSET Hashes, promisc : BOOLEAN, jumbo : BOOLEAN, running : BOOLEAN,
         link : LinkSpeeds, rated : RatedSpeeds]

VfTyped == vf \in [Vfs -> VfInfo] /\ regs \in VfRegs /\ pf \in VfPf

\* The registers of one VF.
MayMulticast(v) == vf[v].xcast \in {"allmulti", "promisc"}
VfHeld(v) ==
    /\ pf.running => (v \in regs.spoof) = vf[v].spoof
    /\ v \in regs.vfte => vf[v].enable
    /\ pf.link # 0 => regs.rate[v] = vf[v].rate
    /\ pf.rated = 0 => vf[v].rate = 0 /\ regs.rate[v] = 0
    /\ v \notin wiped => ("MPE" \in regs.vmolr[v]) = MayMulticast(v)
    /\ ~pf.running => "MPE" \notin regs.vmolr[v]

VfInv ==
    /\ VfTyped
    /\ pf.link # 0 => pf.running
    /\ \A v \in Vfs : VfHeld(v)
    /\ McastShared /\ LegacyOff

\* What is kept for one VF is a record of its kind.
LEMMA VfRecords == ASSUME VfTyped, NEW v \in Vfs
    PROVE  vf[v] \in VfInfo
  BY DEF VfTyped

\* __ixgbe_enable_sriov sets the VFs up after a reset of the port.
LEMMA VfInit == Init => VfInv
<1> SUFFICES ASSUME Init PROVE VfInv
  OBVIOUS
<1>1. Fresh \in VfInfo
  BY DEF Fresh, VfInfo, LinkStates, Apis, Xcasts, Rates
<1>2. Cleared \in VfRegs
  BY DEF Cleared, VfRegs, Rates
<1>3. VfTyped
  BY <1>1, <1>2 DEF Init, VfTyped, VfPf, LinkSpeeds, RatedSpeeds
<1>4. \A v \in Vfs : VfHeld(v)
  BY SMTT(30) DEF Init, VfHeld, MayMulticast, Fresh, Cleared
<1>5. QED
  BY <1>3, <1>4 DEF Init, VfInv, McastShared, LegacyOff

\* ixgbe_write_mc_addr_list builds the shared table anew, and no VF receives
\* all multicasts, or ceases to, by it.
LEMMA McListWrites ==
    ASSUME NEW r \in VfRegs, NEW info \in [Vfs -> VfInfo], NEW mc \in SUBSET Hashes
    PROVE  LET q == McAddrList(r, info, mc)
           IN  /\ q \in VfRegs
               /\ q.vfre = r.vfre /\ q.vfte = r.vfte /\ q.spoof = r.spoof /\ q.rate = r.rate
               /\ q.mta = mc \cup UNION {info[v].hashes : v \in Vfs}
               /\ \A v \in Vfs : ("MPE" \in q.vmolr[v]) <=> ("MPE" \in r.vmolr[v])
<1> DEFINE all == UNION {info[v].hashes : v \in Vfs}
           modes == [v \in Vfs |-> Rompe(r.vmolr[v], info[v].hashes)]
<1>1. mc \cup all \in SUBSET Hashes
  BY DEF VfInfo
<1>2. modes \in [Vfs -> SUBSET XBits["promisc"]]
  BY DEF Rompe, VfRegs, XBits
<1>3. \A v \in Vfs : ("MPE" \in modes[v]) <=> ("MPE" \in r.vmolr[v])
  BY DEF Rompe
<1>4. McAddrList(r, info, mc) =
      [r EXCEPT !.mta = mc \cup all, !.mfe = r.mfe \/ mc # {}, !.vmolr = modes]
  BY DEF McAddrList
<1>5. (r.mfe \/ mc # {}) \in BOOLEAN
  OBVIOUS
<1> HIDE DEF modes
<1>6. QED
  BY <1>1, <1>2, <1>3, <1>4, <1>5, ZenonT(30) DEF VfRegs

\* ixgbe_set_rx_mode does the same while the port runs.
LEMMA RxModeWrites ==
    ASSUME NEW r \in VfRegs, NEW info \in [Vfs -> VfInfo], NEW p \in VfPf
    PROVE  LET q == RxMode(r, info, p)
           IN  /\ q \in VfRegs
               /\ q.vfre = r.vfre /\ q.vfte = r.vfte /\ q.spoof = r.spoof /\ q.rate = r.rate
               /\ p.running => q.mta = p.mc \cup UNION {info[v].hashes : v \in Vfs}
               /\ \A v \in Vfs : ("MPE" \in q.vmolr[v]) <=> ("MPE" \in r.vmolr[v])
<1> DEFINE l == McAddrList(r, info, p.mc)
<1>1. /\ l \in VfRegs
      /\ l.vfre = r.vfre /\ l.vfte = r.vfte /\ l.spoof = r.spoof /\ l.rate = r.rate
      /\ l.mta = p.mc \cup UNION {info[v].hashes : v \in Vfs}
      /\ \A v \in Vfs : ("MPE" \in l.vmolr[v]) <=> ("MPE" \in r.vmolr[v])
  <2>1. p.mc \in SUBSET Hashes
    BY DEF VfPf
  <2>2. QED
    BY <2>1, McListWrites
<1> HIDE DEF l
<1>2. CASE p.running
  <2>1. RxMode(r, info, p) = [l EXCEPT !.upe = p.promisc]
    BY <1>2 DEF RxMode, l
  <2>2. QED
    BY <1>1, <2>1 DEF VfRegs, VfPf
<1>3. CASE ~p.running
  BY <1>3 DEF RxMode, VfRegs, VfPf
<1>4. QED
  BY <1>2, <1>3

\* ixgbe_set_vf_rx_tx lets a VF send only when it is enabled, and one of an
\* 82599 with large frames not receive.
LEMMA RxTxWrites ==
    ASSUME NEW r \in VfRegs, NEW info \in [Vfs -> VfInfo], NEW jumbo \in BOOLEAN,
           NEW v \in Vfs
    PROVE  LET q == SetRxTx(r, info, jumbo, v)
           IN  /\ q \in VfRegs
               /\ q.mta = r.mta /\ q.vmolr = r.vmolr /\ q.spoof = r.spoof /\ q.rate = r.rate
               /\ v \in q.vfte <=> info[v].enable
               /\ \A w \in Vfs \ {v} : /\ w \in q.vfte <=> w \in r.vfte
                                       /\ w \in q.vfre <=> w \in r.vfre
               /\ Is82599 /\ jumbo => v \notin q.vfre
  BY ZenonT(30) DEF SetRxTx, VfRegs

\* ixgbe_set_vf_link_state touches the link state, the enable and clear_to_send.
LEMMA LinkWrites ==
    ASSUME NEW i \in VfInfo, NEW state \in LinkStates, NEW up \in BOOLEAN
    PROVE  LET j == LinkInfo(i, state, up)
           IN  /\ j \in VfInfo
               /\ j.spoof = i.spoof /\ j.rate = i.rate /\ j.api = i.api /\ j.hashes = i.hashes
               /\ j.xcast = i.xcast
<1> DEFINE e == state = "on" \/ (state = "auto" /\ up)
<1>1. e \in BOOLEAN
  OBVIOUS
<1>2. LinkInfo(i, state, up) = [i EXCEPT !.link = state, !.enable = e, !.cts = FALSE]
  BY DEF LinkInfo
<1> HIDE DEF e
<1>3. QED
  BY <1>1, <1>2, ZenonT(30) DEF VfInfo

\* What was set for a VF is the same in info.
SameSettings(info, v) ==
    /\ info[v].spoof = vf[v].spoof /\ info[v].enable = vf[v].enable
    /\ info[v].rate = vf[v].rate /\ info[v].xcast = vf[v].xcast

\* What ixgbe_vf_reset_event forgets and writes.
LEMMA ResetWrites ==
    ASSUME VfInv, NEW v \in Vfs, pf.running
    PROVE  /\ ResetInfo(v) \in [Vfs -> VfInfo]
           /\ \A w \in Vfs : /\ SameSettings(ResetInfo(v), w)
                             /\ w # v => ResetInfo(v)[w].api = vf[w].api
           /\ ResetRegs(v) \in VfRegs
           /\ ResetRegs(v).mta = pf.mc \cup UNION {ResetInfo(v)[w].hashes : w \in Vfs}
           /\ ResetRegs(v).vfre = regs.vfre \ {v} /\ ResetRegs(v).vfte = regs.vfte \ {v}
           /\ ResetRegs(v).spoof = regs.spoof /\ ResetRegs(v).rate = regs.rate
           /\ \A w \in Vfs : ("MPE" \in ResetRegs(v).vmolr[w]) <=> ("MPE" \in regs.vmolr[w])
<1> DEFINE r == [regs EXCEPT !.vfre = @ \ {v}, !.vfte = @ \ {v}, !.vmolr[v] = @ \cup {"BAM"}]
           i == [vf[v] EXCEPT !.hashes = {}, !.api = 10]
<1>1. i \in VfInfo /\ i.spoof = vf[v].spoof /\ i.enable = vf[v].enable
      /\ i.rate = vf[v].rate /\ i.xcast = vf[v].xcast
  BY VfRecords, ZenonT(30) DEF VfInv, VfInfo, Apis
<1>2. ResetInfo(v) = [vf EXCEPT ![v] = i]
  BY ZenonT(30) DEF VfInv, VfTyped, ResetInfo
<1> HIDE DEF i
<1>3. /\ ResetInfo(v) \in [Vfs -> VfInfo]
      /\ \A w \in Vfs : /\ SameSettings(ResetInfo(v), w)
                        /\ w # v => ResetInfo(v)[w].api = vf[w].api
  BY <1>1, <1>2 DEF VfInv, VfTyped, SameSettings
<1>4. r \in VfRegs
  BY ZenonT(30) DEF VfInv, VfTyped, VfRegs, XBits
<1>5. \A w \in Vfs : ("MPE" \in r.vmolr[w]) <=> ("MPE" \in regs.vmolr[w])
  BY DEF VfInv, VfTyped, VfRegs
<1>6. r.vfre = regs.vfre \ {v} /\ r.vfte = regs.vfte \ {v} /\ r.spoof = regs.spoof /\ r.rate = regs.rate
  BY DEF VfInv, VfTyped, VfRegs
<1>7. pf \in VfPf /\ ResetRegs(v) = RxMode(r, ResetInfo(v), pf)
  BY DEF VfInv, VfTyped, ResetRegs
<1> HIDE DEF r
<1>8. QED
  BY <1>3, <1>4, <1>5, <1>6, <1>7, RxModeWrites

\* What ixgbe_configure and ixgbe_up_complete write.
LEMMA UpWrites ==
    ASSUME NEW info \in [Vfs -> VfInfo], NEW p \in VfPf, p.running
    PROVE  LET q == UpRegs(info, p)
           IN  /\ q \in VfRegs
               /\ q.mta = p.mc \cup UNION {info[v].hashes : v \in Vfs}
               /\ \A v \in Vfs : /\ (v \in q.spoof) = info[v].spoof
                                 /\ v \in q.vfte => info[v].enable
                                 /\ q.rate[v] = 0 /\ "MPE" \notin q.vmolr[v]
               /\ Is82599 /\ p.jumbo => q.vfre = {}
<1> DEFINE r == RxMode(Cleared, info, p)
           te == {v \in Vfs : v \in SetRxTx(r, info, p.jumbo, v).vfte}
           re == {v \in Vfs : v \in SetRxTx(r, info, p.jumbo, v).vfre}
           sp == {v \in Vfs : info[v].spoof}
<1>1. Cleared \in VfRegs /\ Cleared.rate = [v \in Vfs |-> 0]
      /\ \A v \in Vfs : "MPE" \notin Cleared.vmolr[v]
  BY DEF Cleared, VfRegs, Rates
<1>2. /\ r \in VfRegs /\ r.rate = [v \in Vfs |-> 0]
      /\ r.mta = p.mc \cup UNION {info[v].hashes : v \in Vfs}
      /\ \A v \in Vfs : "MPE" \notin r.vmolr[v]
  <2>1. /\ r \in VfRegs /\ r.rate = Cleared.rate
        /\ r.mta = p.mc \cup UNION {info[v].hashes : v \in Vfs}
        /\ \A v \in Vfs : ("MPE" \in r.vmolr[v]) <=> ("MPE" \in Cleared.vmolr[v])
    <3>1. Cleared \in VfRegs
      BY <1>1
    <3>2. QED
      BY <3>1, RxModeWrites
  <2>2. QED
    BY <1>1, <2>1
<1>3. p.jumbo \in BOOLEAN
  BY DEF VfPf
<1> HIDE DEF r
<1>w. ASSUME NEW v \in Vfs
      PROVE  /\ v \in SetRxTx(r, info, p.jumbo, v).vfte <=> info[v].enable
             /\ Is82599 /\ p.jumbo => v \notin SetRxTx(r, info, p.jumbo, v).vfre
  BY <1>2, <1>3, RxTxWrites, ZenonT(30)
<1>4. \A v \in te : info[v].enable
  BY <1>w
<1>5. Is82599 /\ p.jumbo => re = {}
  BY <1>w, ZenonT(30)
<1>6. UpRegs(info, p) = [[r EXCEPT !.vfte = te, !.vfre = re] EXCEPT !.spoof = sp]
  BY DEF UpRegs, AllVfs, r
<1>7. \A v \in Vfs : (v \in sp) = info[v].spoof
  BY DEF VfInfo
<1>8. te \subseteq Vfs /\ re \subseteq Vfs /\ sp \subseteq Vfs
  OBVIOUS
<1> HIDE DEF te, re, sp
<1> DEFINE q == [[r EXCEPT !.vfte = te, !.vfre = re] EXCEPT !.spoof = sp]
<1>9. /\ q \in VfRegs /\ q.vfte = te /\ q.vfre = re /\ q.spoof = sp /\ q.mta = r.mta
      /\ q.rate = r.rate /\ q.vmolr = r.vmolr
  BY <1>2, <1>8, ZenonT(30) DEF VfRegs
<1> HIDE DEF q
<1>10. UpRegs(info, p) = q
  BY <1>6 DEF q
<1>11. QED
  BY <1>2, <1>4, <1>5, <1>7, <1>9, <1>10

\* Messages of the VFs, settings of the administrator, and what happens to the
\* port: each writes what it keeps, or keeps what stays written.
LEMMA VfKept == ASSUME VfInv, [Next]_gvars PROVE VfInv'
<1>a. /\ VfTyped /\ vf \in [Vfs -> VfInfo] /\ regs \in VfRegs /\ pf \in VfPf
      /\ \A v \in Vfs : vf[v] \in VfInfo
      /\ \A v \in Vfs : VfHeld(v)
      /\ pf.link # 0 => pf.running
  BY DEF VfInv, VfTyped
<1>p. pf \in VfPf
  BY <1>a
<1>q. 0 \in LinkSpeeds
  BY DEF LinkSpeeds
<1>r. 0 \in RatedSpeeds
  BY DEF RatedSpeeds
<1>b. (pf.running => regs.mta = pf.mc \cup UNION {vf[v].hashes : v \in Vfs}) /\ LegacyOff
  BY DEF VfInv, McastShared, AllHashes
<1>1. ASSUME NEW v \in Vfs, VfReset(v) PROVE VfInv'
  <2>1. pf.running /\ vf' = ResetInfo(v) /\ regs' = ResetRegs(v) /\ UNCHANGED <<pf, wiped, vworld>>
    BY <1>1 DEF VfReset, Op
  <2>2. /\ vf' \in [Vfs -> VfInfo] /\ regs' \in VfRegs
        /\ \A w \in Vfs : SameSettings(vf', w) /\ (w # v => vf'[w].api = vf[w].api)
        /\ regs'.mta = pf.mc \cup UNION {vf'[w].hashes : w \in Vfs}
        /\ regs'.vfre = regs.vfre \ {v} /\ regs'.vfte = regs.vfte \ {v}
        /\ regs'.spoof = regs.spoof /\ regs'.rate = regs.rate
        /\ \A w \in Vfs : ("MPE" \in regs'.vmolr[w]) <=> ("MPE" \in regs.vmolr[w])
    BY <2>1, ResetWrites
  <2>3. ASSUME NEW w \in Vfs PROVE VfHeld(w)'
    BY <1>a, <2>1, <2>2 DEF VfHeld, MayMulticast, SameSettings
  <2>4. McastShared'
    BY <2>1, <2>2 DEF McastShared, AllHashes
  <2>5. LegacyOff'
    BY <1>a, <1>b, <2>1, <2>2 DEF LegacyOff, Is82599, VfRegs
  <2>6. QED
    BY <1>a, <2>1, <2>2, <2>3, <2>4, <2>5 DEF VfInv, VfTyped
<1>2. ASSUME NEW v \in Vfs, VfResetMsg(v) PROVE VfInv'
  <2> DEFINE i == ResetInfo(v)
             r == ResetRegs(v)
  <2>1. /\ pf.running /\ vf' = [i EXCEPT ![v].cts = TRUE]
        /\ regs' = SetRxTx(r, i, pf.jumbo, v) /\ UNCHANGED <<pf, wiped, vworld>>
    BY <1>2 DEF VfResetMsg
  <2>2. i \in [Vfs -> VfInfo] /\ r \in VfRegs /\ pf.jumbo \in BOOLEAN
    BY <1>a, <2>1, ResetWrites DEF VfPf
  <2>3. \A w \in Vfs : /\ vf'[w].hashes = i[w].hashes /\ vf'[w].spoof = i[w].spoof
                       /\ vf'[w].enable = i[w].enable /\ vf'[w].rate = i[w].rate
                       /\ vf'[w].xcast = i[w].xcast /\ vf'[w].api = i[w].api
    BY <2>1, <2>2 DEF VfInfo
  <2>4. vf' \in [Vfs -> VfInfo]
    <3>1. [i[v] EXCEPT !.cts = TRUE] \in VfInfo
      BY <2>2, ZenonT(30) DEF VfInfo
    <3>2. vf' = [i EXCEPT ![v] = [i[v] EXCEPT !.cts = TRUE]]
      BY <2>1, <2>2 DEF VfInfo
    <3> HIDE DEF i
    <3>3. QED
      BY <2>2, <3>1, <3>2
  <2>5. \A w \in Vfs : SameSettings(i, w) /\ (w # v => i[w].api = vf[w].api)
    BY <2>1, ResetWrites
  <2>6. /\ regs' \in VfRegs /\ regs'.mta = r.mta /\ regs'.spoof = r.spoof /\ regs'.rate = r.rate
        /\ regs'.vmolr = r.vmolr
        /\ v \in regs'.vfte <=> i[v].enable
        /\ \A w \in Vfs \ {v} : /\ w \in regs'.vfte <=> w \in r.vfte
                                /\ w \in regs'.vfre <=> w \in r.vfre
        /\ Is82599 /\ pf.jumbo => v \notin regs'.vfre
    BY <2>1, <2>2, RxTxWrites
  <2>7. /\ r.mta = pf.mc \cup UNION {i[w].hashes : w \in Vfs}
        /\ r.vfre = regs.vfre \ {v} /\ r.vfte = regs.vfte \ {v}
        /\ r.spoof = regs.spoof /\ r.rate = regs.rate
        /\ \A w \in Vfs : ("MPE" \in r.vmolr[w]) <=> ("MPE" \in regs.vmolr[w])
    BY <2>1, ResetWrites
  <2> HIDE DEF i, r
  <2>8. ASSUME NEW w \in Vfs PROVE VfHeld(w)'
    BY <1>a, <2>1, <2>3, <2>5, <2>6, <2>7 DEF VfHeld, MayMulticast, SameSettings
  <2>9. McastShared'
    BY <2>1, <2>3, <2>6, <2>7 DEF McastShared, AllHashes
  <2>10. ASSUME Is82599, pf.jumbo, NEW w \in regs'.vfre PROVE vf'[w].api > 10
    <3>1. w \in Vfs /\ w # v
      BY <2>6, <2>10 DEF VfRegs
    <3>2. w \in regs.vfre
      BY <2>6, <2>7, <3>1, <2>10
    <3>3. vf[w].api > 10
      BY <1>b, <2>1, <2>10, <3>2 DEF LegacyOff
    <3>4. QED
      BY <2>3, <2>5, <3>1, <3>3
  <2>11. QED
    BY <1>a, <2>1, <2>4, <2>6, <2>8, <2>9, <2>10 DEF VfInv, VfTyped, LegacyOff, Is82599
<1>3. ASSUME NEW v \in Vfs, NEW a \in Apis \ {10}, ApiNegotiate(v, a) PROVE VfInv'
  <2>1. vf' = [vf EXCEPT ![v].api = a] /\ UNCHANGED <<regs, pf, wiped, vworld>>
    BY <1>3 DEF ApiNegotiate
  <2>2. \A w \in Vfs : /\ SameSettings(vf', w) /\ vf'[w].hashes = vf[w].hashes
                       /\ vf'[w].api = IF w = v THEN a ELSE vf[w].api
    BY <1>a, <2>1 DEF SameSettings, VfInfo
  <2>3. VfTyped'
    BY <1>a, <2>1 DEF VfTyped, VfInfo
  <2>4. ASSUME NEW w \in Vfs PROVE VfHeld(w)'
    BY <1>a, <2>1, <2>2 DEF VfHeld, MayMulticast, SameSettings
  <2>5. McastShared'
    BY <1>b, <2>1, <2>2 DEF McastShared, AllHashes
  <2>6. LegacyOff'
    BY <1>a, <1>b, <2>1, <2>2 DEF LegacyOff, Is82599, VfRegs, Apis
  <2>7. QED
    BY <1>a, <2>1, <2>3, <2>4, <2>5, <2>6 DEF VfInv
<1>4. ASSUME NEW v \in Vfs, NEW h \in SUBSET Hashes, SetMulticast(v, h) PROVE VfInv'
  <2> DEFINE r == [regs EXCEPT !.vmolr[v] = @ \cup {"ROMPE"}]
  <2>1. /\ vf' = [vf EXCEPT ![v].hashes = h] /\ UNCHANGED <<pf, wiped, vworld>> /\ pf.running
    BY <1>4 DEF SetMulticast, Op
  <2>2. \A w \in Vfs : SameSettings(vf', w) /\ vf'[w].api = vf[w].api
    BY <1>a, <2>1 DEF SameSettings, VfInfo
  <2>3. vf' \in [Vfs -> VfInfo]
    BY <1>a, <2>1 DEF VfInfo
  <2>4. /\ r \in VfRegs /\ r.vfre = regs.vfre /\ r.vfte = regs.vfte /\ r.spoof = regs.spoof
        /\ r.rate = regs.rate
        /\ \A w \in Vfs : ("MPE" \in r.vmolr[w]) <=> ("MPE" \in regs.vmolr[w])
    BY <1>a, SMTT(30) DEF VfRegs, XBits
  <2> HIDE DEF r
  <2>i. regs' = McAddrList(r, vf', pf.mc) /\ pf.mc \in SUBSET Hashes
    BY <1>a, <1>4 DEF SetMulticast, r, VfPf
  <2>5. /\ regs' \in VfRegs /\ regs'.mta = pf.mc \cup UNION {vf'[w].hashes : w \in Vfs}
        /\ regs'.vfre = regs.vfre /\ regs'.vfte = regs.vfte /\ regs'.spoof = regs.spoof /\ regs'.rate = regs.rate
        /\ \A w \in Vfs : ("MPE" \in regs'.vmolr[w]) <=> ("MPE" \in regs.vmolr[w])
    BY <2>i, <2>3, <2>4, McListWrites
  <2>6. ASSUME NEW w \in Vfs PROVE VfHeld(w)'
    BY <1>a, <2>1, <2>2, <2>5 DEF VfHeld, MayMulticast, SameSettings
  <2>7. McastShared'
    BY <2>1, <2>5 DEF McastShared, AllHashes
  <2>8. LegacyOff'
    BY <1>a, <1>b, <2>1, <2>2, <2>5 DEF LegacyOff, Is82599, VfRegs
  <2>9. QED
    BY <1>a, <2>1, <2>3, <2>5, <2>6, <2>7, <2>8 DEF VfInv, VfTyped
<1>5. ASSUME NEW v \in Vfs, NEW j \in BOOLEAN, SetLpe(v, j) PROVE VfInv'
  <2>1. /\ UNCHANGED <<vf, pf, wiped, vworld>>
        /\ regs' = regs \/ regs' = [regs EXCEPT !.vfre = @ \ {v}]
           \/ (regs' = [regs EXCEPT !.vfre = @ \cup {v}] /\ (pf.jumbo => vf[v].api > 10))
    BY <1>5 DEF SetLpe, Op
  <2>2. /\ regs' \in VfRegs /\ regs'.mta = regs.mta /\ regs'.vmolr = regs.vmolr /\ regs'.vfte = regs.vfte
        /\ regs'.spoof = regs.spoof /\ regs'.rate = regs.rate
        /\ \A w \in regs'.vfre : w \in regs.vfre \/ (w = v /\ (pf.jumbo => vf[v].api > 10))
    BY <1>a, <2>1 DEF VfRegs
  <2>3. ASSUME NEW w \in Vfs PROVE VfHeld(w)'
    BY <1>a, <2>1, <2>2 DEF VfHeld, MayMulticast
  <2>4. McastShared'
    BY <1>b, <2>1, <2>2 DEF McastShared, AllHashes
  <2>5. LegacyOff'
    BY <1>b, <2>1, <2>2 DEF LegacyOff, Is82599
  <2>6. QED
    BY <1>a, <2>1, <2>2, <2>3, <2>4, <2>5 DEF VfInv, VfTyped
<1>6. ASSUME NEW v \in Vfs, NEW asked \in Xcasts, XcastMode(v, asked) PROVE VfInv'
  <2>1. PICK mode \in Xcasts :
           /\ pf.running /\ UNCHANGED <<pf, vworld>>
           /\ vf' = [vf EXCEPT ![v].xcast = mode]
           /\ regs' = [regs EXCEPT !.vmolr[v] = (@ \ XBits["promisc"]) \cup XBits[mode]]
           /\ wiped' = wiped \ {v}
    BY <1>6, ZenonT(30) DEF XcastMode, Op, Xcasts
  <2>2. \A w \in Vfs : /\ vf'[w].spoof = vf[w].spoof /\ vf'[w].enable = vf[w].enable
                       /\ vf'[w].rate = vf[w].rate /\ vf'[w].api = vf[w].api
                       /\ vf'[w].hashes = vf[w].hashes
                       /\ vf'[w].xcast = IF w = v THEN mode ELSE vf[w].xcast
    BY <1>a, <2>1 DEF VfInfo
  <2>3. vf' \in [Vfs -> VfInfo]
    BY <1>a, <2>1 DEF VfInfo
  <2>4. XBits[mode] \in SUBSET XBits["promisc"]
    BY DEF XBits, Xcasts
  <2>5. ("MPE" \in XBits[mode]) = (mode \in {"allmulti", "promisc"}) /\ "MPE" \in XBits["promisc"]
    BY DEF XBits, Xcasts
  <2>6. /\ regs' \in VfRegs /\ regs'.mta = regs.mta /\ regs'.vfre = regs.vfre /\ regs'.vfte = regs.vfte
        /\ regs'.spoof = regs.spoof /\ regs'.rate = regs.rate
    BY <1>a, <2>1, <2>4 DEF VfRegs
  <2>7. /\ \A w \in Vfs \ {v} : regs'.vmolr[w] = regs.vmolr[w]
        /\ ("MPE" \in regs'.vmolr[v]) = (mode \in {"allmulti", "promisc"})
    BY <1>a, <2>1, <2>5 DEF VfRegs
  <2>8. ASSUME NEW w \in Vfs PROVE VfHeld(w)'
    BY <1>a, <2>1, <2>2, <2>6, <2>7 DEF VfHeld, MayMulticast
  <2>9. McastShared'
    BY <1>b, <2>1, <2>2, <2>6 DEF McastShared, AllHashes
  <2>10. LegacyOff'
    BY <1>a, <1>b, <2>1, <2>2, <2>6 DEF LegacyOff, Is82599, VfRegs
  <2>11. QED
    BY <1>a, <2>1, <2>3, <2>6, <2>8, <2>9, <2>10 DEF VfInv, VfTyped
<1>7. ASSUME NEW v \in Vfs, MddEvent(v) \/ \E on \in BOOLEAN : SetTrust(v, on) PROVE VfInv'
  <2>1. UNCHANGED <<regs, pf, wiped, vworld>>
    BY <1>7, ZenonT(30) DEF MddEvent, SetTrust, Op
  <2>2. PICK i \in VfInfo :
           /\ vf' = [vf EXCEPT ![v] = i]
           /\ i.spoof = vf[v].spoof /\ i.enable = vf[v].enable /\ i.rate = vf[v].rate
           /\ i.xcast = vf[v].xcast /\ i.api = vf[v].api /\ i.hashes = vf[v].hashes
    <3>1. CASE MddEvent(v)
      <4>1. [vf[v] EXCEPT !.cts = FALSE] \in VfInfo
        BY <1>a, ZenonT(30) DEF VfInfo
      <4>2. vf' = [vf EXCEPT ![v] = [vf[v] EXCEPT !.cts = FALSE]]
        BY <1>a, <3>1 DEF MddEvent
      <4>3. QED
        BY <1>a, <4>1, <4>2, ZenonT(30) DEF VfInfo
    <3>2. ASSUME NEW on \in BOOLEAN, SetTrust(v, on)
          PROVE  \E i \in VfInfo :
                    /\ vf' = [vf EXCEPT ![v] = i]
                    /\ i.spoof = vf[v].spoof /\ i.enable = vf[v].enable /\ i.rate = vf[v].rate
                    /\ i.xcast = vf[v].xcast /\ i.api = vf[v].api /\ i.hashes = vf[v].hashes
      <4>1. [vf[v] EXCEPT !.trusted = on, !.cts = FALSE] \in VfInfo
        BY <1>a, ZenonT(30) DEF VfInfo
      <4>2. vf' = [vf EXCEPT ![v] = [vf[v] EXCEPT !.trusted = on, !.cts = FALSE]]
        BY <1>a, <3>2, ZenonT(30) DEF SetTrust
      <4>3. QED
        BY <1>a, <4>1, <4>2, ZenonT(30) DEF VfInfo
    <3>3. QED
      BY <1>7, <3>1, <3>2
  <2>3. /\ VfTyped'
        /\ \A w \in Vfs : /\ SameSettings(vf', w) /\ vf'[w].api = vf[w].api
                          /\ vf'[w].hashes = vf[w].hashes
    BY <1>a, <2>1, <2>2 DEF VfTyped, SameSettings
  <2>4. ASSUME NEW w \in Vfs PROVE VfHeld(w)'
    BY <1>a, <2>1, <2>3 DEF VfHeld, MayMulticast, SameSettings
  <2>5. McastShared'
    BY <1>b, <2>1, <2>3 DEF McastShared, AllHashes
  <2>6. LegacyOff'
    BY <1>a, <1>b, <2>1, <2>3 DEF LegacyOff, Is82599, VfRegs
  <2>7. QED
    BY <1>a, <2>1, <2>3, <2>4, <2>5, <2>6 DEF VfInv
<1>8. ASSUME NEW v \in Vfs, NEW on \in BOOLEAN, SetSpoofchk(v, on) PROVE VfInv'
  <2>1. /\ vf' = [vf EXCEPT ![v].spoof = on] /\ UNCHANGED <<pf, wiped, vworld>>
        /\ regs' = [regs EXCEPT !.spoof = IF on THEN @ \cup {v} ELSE @ \ {v}]
    BY <1>8 DEF SetSpoofchk, Op
  <2>2. \A w \in Vfs : /\ vf'[w].spoof = IF w = v THEN on ELSE vf[w].spoof
                       /\ vf'[w].enable = vf[w].enable
                       /\ vf'[w].rate = vf[w].rate /\ vf'[w].api = vf[w].api
                       /\ vf'[w].hashes = vf[w].hashes /\ vf'[w].xcast = vf[w].xcast
    BY <1>a, <2>1 DEF VfInfo
  <2>3. vf' \in [Vfs -> VfInfo]
    BY <1>a, <2>1 DEF VfInfo
  <2>4. /\ regs' \in VfRegs /\ regs'.mta = regs.mta /\ regs'.vfre = regs.vfre /\ regs'.vfte = regs.vfte
        /\ regs'.vmolr = regs.vmolr /\ regs'.rate = regs.rate
        /\ (v \in regs'.spoof) = on
        /\ \A w \in Vfs \ {v} : (w \in regs'.spoof) = (w \in regs.spoof)
    BY <1>a, <2>1 DEF VfRegs
  <2>5. ASSUME NEW w \in Vfs PROVE VfHeld(w)'
    BY <1>a, <2>1, <2>2, <2>4 DEF VfHeld, MayMulticast
  <2>6. McastShared'
    BY <1>b, <2>1, <2>2, <2>4 DEF McastShared, AllHashes
  <2>7. LegacyOff'
    BY <1>a, <1>b, <2>1, <2>2, <2>4 DEF LegacyOff, Is82599, VfRegs
  <2>8. QED
    BY <1>a, <2>1, <2>3, <2>4, <2>5, <2>6, <2>7 DEF VfInv, VfTyped
<1>9. ASSUME NEW v \in Vfs, NEW rate \in Rates, SetRate(v, rate) PROVE VfInv'
  <2>1. /\ pf.link = 10000 /\ pf' = [pf EXCEPT !.rated = 10000]
        /\ vf' = [vf EXCEPT ![v].rate = rate]
        /\ regs' = [regs EXCEPT !.rate[v] = vf'[v].rate] /\ UNCHANGED <<wiped, vworld>>
    BY <1>9 DEF SetRate, Op, RateSet
  <2>2. \A w \in Vfs : /\ vf'[w].spoof = vf[w].spoof /\ vf'[w].enable = vf[w].enable
                       /\ vf'[w].rate = IF w = v THEN rate ELSE vf[w].rate
                       /\ vf'[w].api = vf[w].api
                       /\ vf'[w].hashes = vf[w].hashes /\ vf'[w].xcast = vf[w].xcast
    BY <1>a, <2>1 DEF VfInfo
  <2>3. vf' \in [Vfs -> VfInfo]
    BY <1>a, <2>1 DEF VfInfo
  <2>4. /\ regs' \in VfRegs /\ regs'.mta = regs.mta /\ regs'.vfre = regs.vfre /\ regs'.vfte = regs.vfte
        /\ regs'.vmolr = regs.vmolr /\ regs'.spoof = regs.spoof
        /\ \A w \in Vfs : regs'.rate[w] = IF w = v THEN rate ELSE regs.rate[w]
    <3>1. regs' = [regs EXCEPT !.rate = [regs.rate EXCEPT ![v] = rate]]
      BY <1>a, <2>1, <2>2 DEF VfRegs
    <3>2. regs.rate \in [Vfs -> Rates]
      BY <1>a DEF VfRegs
    <3> DEFINE new == [regs.rate EXCEPT ![v] = rate]
    <3>3. new \in [Vfs -> Rates] /\ \A w \in Vfs : new[w] = IF w = v THEN rate ELSE regs.rate[w]
      BY <3>2
    <3>4. regs' = [regs EXCEPT !.rate = new]
      BY <3>1
    <3> HIDE DEF new
    <3>5. QED
      BY <1>a, <3>3, <3>4 DEF VfRegs
  <2>5. /\ pf' \in VfPf /\ pf'.running = pf.running /\ pf'.link = pf.link /\ pf'.rated = 10000
        /\ pf'.mc = pf.mc /\ pf'.jumbo = pf.jumbo
    BY <1>p, <2>1 DEF VfPf, RatedSpeeds
  <2>6. ASSUME NEW w \in Vfs PROVE VfHeld(w)'
    BY <1>a, <2>1, <2>2, <2>4, <2>5 DEF VfHeld, MayMulticast
  <2>7. McastShared'
    BY <1>b, <2>2, <2>4, <2>5 DEF McastShared, AllHashes
  <2>8. LegacyOff'
    BY <1>a, <1>b, <2>1, <2>2, <2>4, <2>5 DEF LegacyOff, Is82599, VfRegs
  <2>9. QED
    BY <1>a, <2>3, <2>4, <2>5, <2>6, <2>7, <2>8 DEF VfInv, VfTyped
<1>10. ASSUME NEW v \in Vfs, NEW state \in LinkStates, SetLinkState(v, state)
       PROVE  VfInv'
  <2>1. /\ vf' = [vf EXCEPT ![v] = LinkInfo(vf[v], state, pf.running)]
        /\ UNCHANGED <<pf, wiped, vworld>>
    BY <1>10 DEF SetLinkState, Op
  <2>u. UNCHANGED <<pf, wiped, vworld>>
    BY <2>1
  <2>i. LinkInfo(vf[v], state, pf.running) \in VfInfo
    <3>1. vf[v] \in VfInfo /\ pf.running \in BOOLEAN
      BY <1>a DEF VfPf
    <3>2. QED
      BY <3>1, LinkWrites
  <2>2. vf' \in [Vfs -> VfInfo] /\ pf.jumbo \in BOOLEAN
    BY <1>a, <2>1, <2>i DEF VfPf
  <2>j. PICK info \in [Vfs -> VfInfo] : vf' = info /\ regs' = SetRxTx(regs, info, pf.jumbo, v)
    BY <1>10, <2>2, ZenonT(30) DEF SetLinkState
  <2>3. \A w \in Vfs : /\ vf'[w].spoof = vf[w].spoof
                       /\ w # v => vf'[w].enable = vf[w].enable
                       /\ vf'[w].rate = vf[w].rate /\ vf'[w].api = vf[w].api
                       /\ vf'[w].hashes = vf[w].hashes /\ vf'[w].xcast = vf[w].xcast
    BY <1>a, <2>1 DEF LinkInfo, VfInfo
  <2>4. /\ regs' \in VfRegs /\ regs'.mta = regs.mta /\ regs'.spoof = regs.spoof /\ regs'.rate = regs.rate
        /\ regs'.vmolr = regs.vmolr
        /\ v \in regs'.vfte <=> info[v].enable
        /\ \A w \in Vfs \ {v} : /\ w \in regs'.vfte <=> w \in regs.vfte
                                /\ w \in regs'.vfre <=> w \in regs.vfre
        /\ Is82599 /\ pf.jumbo => v \notin regs'.vfre
    BY <1>a, <2>2, <2>j, RxTxWrites
  <2>5. ASSUME NEW w \in Vfs PROVE VfHeld(w)'
    BY <1>a, <2>1, <2>3, <2>4, <2>j DEF VfHeld, MayMulticast
  <2>6. McastShared'
    BY <1>b, <2>u, <2>3, <2>4 DEF McastShared, AllHashes
  <2>7. ASSUME Is82599, pf.running, pf.jumbo, NEW w \in regs'.vfre PROVE vf'[w].api > 10
    <3>1. w \in Vfs /\ w # v
      BY <2>4, <2>7 DEF VfRegs
    <3>2. QED
      BY <1>b, <2>3, <2>4, <2>7, <3>1 DEF LegacyOff
  <2>8. QED
    BY <1>a, <2>1, <2>2, <2>4, <2>5, <2>6, <2>7 DEF VfInv, VfTyped, LegacyOff, Is82599
<1>11. ASSUME NEW mc \in SUBSET Hashes, NEW b \in BOOLEAN, SetRxMode(mc, b) PROVE VfInv'
  <2>1. pf' = [pf EXCEPT !.mc = mc, !.promisc = b] /\ UNCHANGED <<vf, wiped, vworld>>
    BY <1>11 DEF SetRxMode, Op
  <2>2. /\ pf' \in VfPf /\ pf'.running = pf.running /\ pf'.link = pf.link /\ pf'.rated = pf.rated
        /\ pf'.jumbo = pf.jumbo
    BY <1>p, <2>1, ZenonT(30) DEF VfPf
  <2>m. regs' = RxMode(regs, vf, pf')
    BY <1>11 DEF SetRxMode
  <2>3. /\ regs' \in VfRegs
        /\ regs'.vfre = regs.vfre /\ regs'.vfte = regs.vfte /\ regs'.spoof = regs.spoof /\ regs'.rate = regs.rate
        /\ pf'.running => regs'.mta = pf'.mc \cup UNION {vf[v].hashes : v \in Vfs}
        /\ \A v \in Vfs : ("MPE" \in regs'.vmolr[v]) <=> ("MPE" \in regs.vmolr[v])
    BY <1>a, <2>m, <2>2, RxModeWrites
  <2>4. ASSUME NEW w \in Vfs PROVE VfHeld(w)'
    BY <1>a, <2>1, <2>2, <2>3 DEF VfHeld, MayMulticast
  <2>5. McastShared'
    BY <2>1, <2>3 DEF McastShared, AllHashes
  <2>6. LegacyOff'
    BY <1>b, <2>1, <2>2, <2>3 DEF LegacyOff, Is82599
  <2>7. QED
    BY <1>a, <2>1, <2>2, <2>3, <2>4, <2>5, <2>6 DEF VfInv, VfTyped
<1>12. CASE Down
  <2>1. /\ vf' = DownInfo /\ regs' = Cleared /\ wiped' = Vfs
        /\ pf' = [pf EXCEPT !.running = FALSE, !.link = 0]
    BY <1>12 DEF Down
  <2>t. pf' = [pf EXCEPT !.running = FALSE, !.link = 0]
    BY <2>1
  <2>2. pf' \in VfPf /\ ~pf'.running /\ pf'.link = 0 /\ pf'.rated = pf.rated
    BY <1>p, <1>q, <2>t, ZenonT(30) DEF VfPf
  <2>3. ASSUME NEW w \in Vfs PROVE vf'[w] \in VfInfo /\ vf'[w].rate = vf[w].rate
    <3> DEFINE on == vf[w].link = "on" \/ (vf[w].link = "auto" /\ FALSE)
    <3>1. vf'[w] = [vf[w] EXCEPT !.link = vf[w].link, !.enable = on, !.cts = FALSE]
      BY <2>1, ZenonT(30) DEF DownInfo, LinkInfo
    <3>2. on \in BOOLEAN
      OBVIOUS
    <3> HIDE DEF on
    <3>3. vf[w] \in VfInfo
      BY <1>a
    <3>4. QED
      BY <3>1, <3>2, <3>3, ZenonT(30) DEF VfInfo
  <2>4. vf' \in [Vfs -> VfInfo]
    BY <2>1, <2>3, ZenonT(30) DEF DownInfo
  <2>5. /\ regs' \in VfRegs /\ regs'.vfte = {}
        /\ \A w \in Vfs : regs'.rate[w] = 0 /\ "MPE" \notin regs'.vmolr[w]
    BY <2>1 DEF Cleared, VfRegs, Rates
  <2>6. ASSUME NEW w \in Vfs PROVE VfHeld(w)'
    BY <1>a, <2>1, <2>2, <2>3, <2>5 DEF VfHeld
  <2>7. QED
    BY <2>2, <2>4, <2>5, <2>6 DEF VfInv, VfTyped, McastShared, LegacyOff
<1>13. ASSUME NEW b \in BOOLEAN, Up(b) PROVE VfInv'
  <2>1. /\ ~pf.running /\ vf' = [w \in Vfs |-> LinkInfo(vf[w], vf[w].link, TRUE)]
        /\ pf' = [pf EXCEPT !.running = TRUE, !.jumbo = b] /\ UNCHANGED <<wiped, vworld>>
        /\ regs' = UpRegs(vf', pf')
    BY <1>13 DEF Up
  <2>t. pf' = [pf EXCEPT !.running = TRUE, !.jumbo = b] /\ pf.link = 0
    BY <1>a, <2>1
  <2>2. pf' \in VfPf /\ pf'.running /\ pf'.link = 0 /\ pf'.rated = pf.rated
    BY <1>p, <2>t, ZenonT(30) DEF VfPf
  <2>3. ASSUME NEW w \in Vfs
        PROVE  vf'[w] \in VfInfo /\ vf'[w].rate = vf[w].rate /\ vf'[w].xcast = vf[w].xcast
    <3> DEFINE on == vf[w].link = "on" \/ (vf[w].link = "auto" /\ TRUE)
    <3>1. vf'[w] = [vf[w] EXCEPT !.link = vf[w].link, !.enable = on, !.cts = FALSE]
      BY <2>1, ZenonT(30) DEF LinkInfo
    <3>2. on \in BOOLEAN
      OBVIOUS
    <3> HIDE DEF on
    <3>3. vf[w] \in VfInfo
      BY <1>a
    <3>4. QED
      BY <3>1, <3>2, <3>3, ZenonT(30) DEF VfInfo
  <2>4. vf' \in [Vfs -> VfInfo]
    BY <2>1, <2>3, ZenonT(30)
  <2>5. /\ regs' \in VfRegs
        /\ regs'.mta = pf'.mc \cup UNION {vf'[v].hashes : v \in Vfs}
        /\ \A v \in Vfs : /\ (v \in regs'.spoof) = vf'[v].spoof
                          /\ v \in regs'.vfte => vf'[v].enable
                          /\ regs'.rate[v] = 0 /\ "MPE" \notin regs'.vmolr[v]
        /\ Is82599 /\ pf'.jumbo => regs'.vfre = {}
    <3>1. regs' = UpRegs(vf', pf')
      BY <2>1
    <3>2. QED
      BY <2>2, <2>4, <3>1, UpWrites
  <2>u. ~pf.running /\ UNCHANGED <<wiped, vworld>>
    BY <2>1
  <2>6. ASSUME NEW w \in Vfs PROVE VfHeld(w)'
    BY <1>a, <2>u, <2>2, <2>3, <2>5 DEF VfHeld, MayMulticast
  <2>7. McastShared'
    BY <2>5 DEF McastShared, AllHashes
  <2>8. LegacyOff'
    BY <2>u, <2>5 DEF LegacyOff, Is82599
  <2>9. QED
    BY <2>2, <2>4, <2>5, <2>6, <2>7, <2>8 DEF VfInv, VfTyped
<1>14. ASSUME NEW s \in UpSpeeds, LinkUp(s) PROVE VfInv'
  <2>1. /\ pf.running /\ UNCHANGED <<wiped, vworld>>
        /\ vf' = RateChecked(s)[1] /\ regs' = RateChecked(s)[2]
        /\ pf' = [pf EXCEPT !.link = s, !.rated = RateChecked(s)[3]]
    BY <1>14 DEF LinkUp
  <2>2. CASE pf.rated = 0
    <3>1. vf' = vf /\ regs' = regs /\ pf' = [pf EXCEPT !.link = s, !.rated = 0]
      BY <2>1, <2>2 DEF RateChecked
    <3>t. pf' = [pf EXCEPT !.link = s, !.rated = 0] /\ pf.running
      BY <2>1, <3>1
    <3>2. /\ pf' \in VfPf /\ pf'.running /\ pf'.rated = 0 /\ pf'.mc = pf.mc /\ pf'.jumbo = pf.jumbo
      <4>1. s \in LinkSpeeds
        BY DEF LinkSpeeds, UpSpeeds
      <4>2. QED
        BY <1>p, <1>r, <3>t, <4>1, ZenonT(30) DEF VfPf
    <3>3. ASSUME NEW w \in Vfs PROVE VfHeld(w)'
      BY <1>a, <2>1, <2>2, <3>1, <3>2 DEF VfHeld, MayMulticast
    <3>4. QED
      BY <1>a, <1>b, <2>1, <3>1, <3>2, <3>3
      DEF VfInv, VfTyped, McastShared, AllHashes, LegacyOff, Is82599
  <2>3. CASE pf.rated # 0
    <3> DEFINE kept == s = pf.rated
               info == [v \in Vfs |-> IF kept THEN vf[v] ELSE [vf[v] EXCEPT !.rate = 0]]
               rates == [v \in Vfs |-> info[v].rate]
    <3>1. /\ vf' = info /\ regs' = [regs EXCEPT !.rate = rates]
          /\ pf' = [pf EXCEPT !.link = s, !.rated = IF kept THEN pf.rated ELSE 0]
      BY <2>1, <2>3 DEF RateChecked
    <3>t. pf' = [pf EXCEPT !.link = s, !.rated = IF kept THEN pf.rated ELSE 0] /\ pf.running
      BY <2>1, <3>1
    <3>2. /\ pf' \in VfPf /\ pf'.running /\ pf'.mc = pf.mc /\ pf'.jumbo = pf.jumbo
          /\ ~kept <=> pf'.rated = 0
      <4> DEFINE n == IF kept THEN pf.rated ELSE 0
      <4>1. s \in LinkSpeeds /\ n \in RatedSpeeds /\ (~kept <=> n = 0)
        BY <1>p, <1>r, <2>3 DEF LinkSpeeds, UpSpeeds, VfPf
      <4> HIDE DEF n
      <4>2. pf' = [pf EXCEPT !.link = s, !.rated = n]
        BY <3>t DEF n
      <4>3. QED
        BY <1>p, <3>t, <4>1, <4>2, ZenonT(30) DEF VfPf
    <3>3. \A w \in Vfs : /\ info[w] \in VfInfo
                         /\ info[w].spoof = vf[w].spoof /\ info[w].enable = vf[w].enable
                         /\ info[w].xcast = vf[w].xcast /\ info[w].api = vf[w].api
                         /\ info[w].hashes = vf[w].hashes /\ (~kept => info[w].rate = 0)
      BY <1>a DEF VfInfo, Rates
    <3>4. vf' \in [Vfs -> VfInfo]
      BY <3>1, <3>3
    <3> HIDE DEF info
    <3>5. rates \in [Vfs -> Rates] /\ \A w \in Vfs : rates[w] = info[w].rate
      BY <3>3 DEF VfInfo
    <3> HIDE DEF rates
    <3>6. /\ regs' \in VfRegs /\ regs'.mta = regs.mta /\ regs'.vfre = regs.vfre /\ regs'.vfte = regs.vfte
          /\ regs'.spoof = regs.spoof /\ regs'.vmolr = regs.vmolr /\ regs'.rate = rates
      BY <1>a, <3>1, <3>5 DEF VfRegs
    <3>7. ASSUME NEW w \in Vfs PROVE VfHeld(w)'
      BY <1>a, <2>1, <3>1, <3>2, <3>3, <3>5, <3>6 DEF VfHeld, MayMulticast
    <3>8. McastShared'
      BY <1>b, <2>1, <3>1, <3>2, <3>3, <3>6 DEF McastShared, AllHashes
    <3>9. LegacyOff'
      BY <1>a, <1>b, <2>1, <3>1, <3>2, <3>3, <3>6 DEF LegacyOff, Is82599, VfRegs
    <3>10. QED
      BY <3>2, <3>4, <3>6, <3>7, <3>8, <3>9 DEF VfInv, VfTyped
  <2>4. QED
    BY <2>2, <2>3
<1>15. CASE LinkDown
  <2>1. pf' = [pf EXCEPT !.link = 0] /\ UNCHANGED <<vf, regs, wiped, vworld>>
    BY <1>15 DEF LinkDown, Op
  <2>2. /\ pf' \in VfPf /\ pf'.running = pf.running /\ pf'.link = 0 /\ pf'.rated = pf.rated
        /\ pf'.mc = pf.mc /\ pf'.jumbo = pf.jumbo
    BY <1>p, <1>q, <2>1 DEF VfPf
  <2>3. ASSUME NEW w \in Vfs PROVE VfHeld(w)'
    BY <1>a, <2>1, <2>2, SMTT(30) DEF VfHeld, MayMulticast
  <2>4. QED
    BY <1>a, <1>b, <2>1, <2>2, <2>3
    DEF VfInv, VfTyped, McastShared, AllHashes, LegacyOff, Is82599
<1>16. CASE UNCHANGED gvars
  BY <1>a, <1>b, <1>16
  DEF gvars, VfInv, VfTyped, VfHeld, MayMulticast, McastShared, AllHashes, LegacyOff,
      Is82599
<1>17. QED
  BY <1>1, <1>2, <1>3, <1>4, <1>5, <1>6, <1>7, <1>8, <1>9, <1>10, <1>11, <1>12, <1>13, <1>14,
     <1>15, <1>16 DEF Next, Message, Admin, UpSpeeds

\* What the invariant says of the registers of a port that runs.
LEMMA VfSound == VfInv => McastShared /\ VfCfgApplied /\ LegacyOff
<1> SUFFICES ASSUME VfInv PROVE McastShared /\ VfCfgApplied /\ LegacyOff
  OBVIOUS
<1>1. ASSUME NEW v \in Vfs, pf.running
      PROVE  /\ (v \in regs.spoof) = vf[v].spoof
             /\ pf.link # 0 => regs.rate[v] = vf[v].rate
             /\ v \in regs.vfte => vf[v].enable
             /\ v \notin wiped => ("MPE" \in regs.vmolr[v]) =
                                      (vf[v].xcast \in {"allmulti", "promisc"})
  BY <1>1 DEF VfInv, VfHeld, MayMulticast
<1>2. VfCfgApplied
  BY <1>1 DEF VfCfgApplied
<1>3. QED
  BY <1>2 DEF VfInv
=============================================================================
