---------------------------- MODULE VlanFilter -----------------------------
(***************************************************************************)
(* The VLAN filter registers of a port with VFs: VFTA (VLANs that pass),   *)
(* and the VLVF/VLVFB slots that name the pools of a VLAN (ixgbe_common.c: *)
(* ixgbe_find_vlvf_slot, ixgbe_set_vfta_generic, ixgbe_set_vlvf_generic;   *)
(* ixgbe_main.c: ixgbe_vlan_rx_add_vid to ixgbe_restore_vlan;              *)
(* ixgbe_sriov.c: ixgbe_set_vf_vlan, ixgbe_clear_vf_vlans and the port     *)
(* VLANs).                                                                 *)
(*                                                                         *)
(* A handler is a sequence of register writes, each visible to arriving    *)
(* frames: the action that starts it computes the register files it will   *)
(* go through, Write applies them one at a time.  Handlers do not overlap. *)
(* One PF pool (no macvlan offload), 82599 or later, VMDQ enabled.         *)
(***************************************************************************)
EXTENDS Integers, Sequences, SequencesExt, FiniteSetsExt

CONSTANTS
    NVids,      \* VLANs 0 .. NVids
    NVfs,       \* VFs are the pools 0 .. NVfs - 1, the PF is pool NVfs
    NSlots,     \* VLVF slots 0 .. NSlots - 1 (64); slot 0 is for VLAN 0
    WordBits,   \* pools in one VLVFB word (32)
    PortVfs,    \* bound: VFs whose port VLAN is configured
    Worlds      \* sets of what the environment does: see world

VARIABLES
    vhw,        \* the registers: vfta, vlvf and vlvfb
    todo,       \* the register files that the running handler goes through
    active_vlans, promisc, user_promisc,
    granted,    \* the VLANs that each VF was given
    who,        \* the pool that the handler runs for
    was,        \* what each pool was to receive before the running handler
    pf_vlan,    \* port VLAN of each VF, 0: none
    clear_to_send,
    world       \* "reset": resets of the port, "port": port VLANs,
                \* "promisc": promiscuous mode

vvars == <<vhw, todo, active_vlans, promisc, user_promisc, granted, who, was,
           pf_vlan, clear_to_send, world>>

Vids == 0 .. NVids
Vfs == 0 .. NVfs - 1
PF == NVfs
Pools == Vfs \cup {PF}
Slots == 0 .. NSlots - 1
None == -1
Word(p) == {q \in Pools : q \div WordBits = p \div WordBits}
-----------------------------------------------------------------------------
(* Register writes.  A trace is a non-empty sequence of register files;    *)
(* writing what a register holds already adds nothing.                     *)

Then(tr, h) == IF h = Last(tr) THEN tr ELSE Append(tr, h)
SetFilter(tr, v) == Then(tr, [Last(tr) EXCEPT !.vfta = @ \cup {v}])
ClearFilter(tr, v) == Then(tr, [Last(tr) EXCEPT !.vfta = @ \ {v}])
SetSlot(tr, s, v) == Then(tr, [Last(tr) EXCEPT !.vlvf[s] = v])
SetPools(tr, s, P) == Then(tr, [Last(tr) EXCEPT !.vlvfb[s] = P])

Entries(h, v) == {s \in Slots \ {0} : h.vlvf[s] = v}

find_vlvf_slot(h, v, bypass) ==
    IF v = 0 THEN 0
    ELSE IF Entries(h, v) # {} THEN Max(Entries(h, v))
    ELSE IF bypass \/ Entries(h, None) = {} THEN None
    ELSE Max(Entries(h, None))

\* The last pool leaves the VLAN: VFTA first, or frames would leak into the
\* default pool.
LeaveStray(tr, s, v, p) ==
    SetPools(ClearFilter(SetSlot(tr, s, None), v), s, Last(tr).vlvfb[s] \ Word(p))
Leave(tr, s, v, p) ==
    SetPools(SetSlot(ClearFilter(tr, v), s, None), s, Last(tr).vlvfb[s] \ Word(p))

Ok(tr) == [err |-> FALSE, tr |-> tr]

\* ixgbe_set_vlvf_generic on the slot s, with the write of VFTA that belongs to
\* it; b are the pools of the slot.
set_vlvf(tr, s, b, v, p, on) ==
    IF on THEN Ok(SetFilter(SetSlot(SetPools(tr, s, b \cup {p}), s, v), v))
    ELSE IF b \subseteq {p} THEN Ok(Leave(tr, s, v, p))
    ELSE Ok(SetSlot(SetPools(tr, s, b \ {p}), s, v))

\* Without a slot: an error, or the VLAN goes to the default pool.
set_vfta_in(tr, s, v, p, on, bypass) ==
    IF s # None THEN set_vlvf(tr, s, Last(tr).vlvfb[s], v, p, on)
    ELSE IF ~bypass THEN [err |-> TRUE, tr |-> tr]
    ELSE Ok(IF on THEN SetFilter(tr, v) ELSE ClearFilter(tr, v))

\* ixgbe_set_vfta_generic
set_vfta(tr, v, p, on, bypass) ==
    set_vfta_in(tr, find_vlvf_slot(Last(tr), v, bypass), v, p, on, bypass)

\* ixgbe_find_vlvf_entry, ixgbe_update_pf_promisc_vlvf: a slot that only the PF
\* uses is given back, its VLAN falls into the default pool.
update_pf_promisc_vlvf(tr, v) ==
    LET E == Entries(Last(tr), v)
        s == Max(E)
        b == Last(tr).vlvfb[s]
    IN  IF v = 0 \/ E = {} THEN tr
        ELSE IF b \subseteq {PF}
             THEN SetSlot(IF promisc THEN tr ELSE SetPools(tr, s, b \ Word(PF)), s, None)
             ELSE tr

\* The PF joins the slot before the VF does.
PfFirstNot(tr, v) == Ok(tr)
PfFirst(tr, v) == IF v \in active_vlans THEN set_vfta(tr, v, PF, TRUE, FALSE) ELSE Ok(tr)

\* Whether the PF is still needed in the slot, after the result r.
PfLast(r, add, v) ==
    IF (add /\ ~r.err) \/ ~(v \in active_vlans \/ promisc) THEN r
    ELSE [r EXCEPT !.tr = update_pf_promisc_vlvf(@, v)]

VfNext(first, add, v, f) ==
    IF first.err THEN first ELSE PfLast(set_vfta(first.tr, v, f, add, FALSE), add, v)

set_vf_vlan(tr, add, v, f) == VfNext(IF add THEN PfFirst(tr, v) ELSE Ok(tr), add, v, f)

\* A slot that only the PF is left in is given back, too.
OthersAny(P) == P # {}
Others(P) == P \ {PF} # {}

\* One slot of ixgbe_clear_vf_vlans.
ClearVfSlot(tr, s, f) ==
    LET b == Last(tr).vlvfb[s]
        others == b \ {f}
        v == Last(tr).vlvf[s]
        freed == IF promisc THEN others ELSE b \ Word(f)
    IN  IF f \notin b THEN tr
        ELSE IF Others(others) \/ (others = {} /\ v = None)
             THEN SetPools(tr, s, others)
        ELSE SetPools(SetSlot(IF others = {} THEN ClearFilter(tr, v) ELSE tr,
                              s, None), s, freed)

Down(n) == [i \in 1 .. n |-> n - i]   \* n - 1 down to 0

clear_vf_vlans(tr, f) ==
    FoldLeft(LAMBDA t, s : ClearVfSlot(t, s, f), tr, Down(NSlots))

AllFilters(tr) == Then(tr, [Last(tr) EXCEPT !.vfta = Vids])
vlan_promisc_enable(tr) ==
    AllFilters(FoldLeft(LAMBDA t, s : SetPools(t, s, Last(t).vlvfb[s] \cup {PF}),
                        tr, SelectSeq(Down(NSlots), LAMBDA s : s # 0)))

\* ixgbe_scrub_vfta over all the blocks of the table.
ScrubSlot(tr, s) ==
    IF Last(tr).vlvf[s] \in active_vlans THEN tr
    ELSE SetPools(tr, s, Last(tr).vlvfb[s] \ {PF})
Scrubbed(h) == active_vlans \cup {h.vlvf[s] : s \in {t \in Slots \ {0} : h.vlvf[t] # None}}
ScrubFilters(tr) == Then(tr, [Last(tr) EXCEPT !.vfta = Scrubbed(Last(tr))])
scrub_vfta(tr) ==
    ScrubFilters(FoldLeft(ScrubSlot, tr, SelectSeq(Down(NSlots), LAMBDA s : s # 0)))
-----------------------------------------------------------------------------
\* What each pool is to receive.
Wish == [p \in Pools |-> IF p \in Vfs THEN granted[p]
                        ELSE IF promisc THEN Vids ELSE active_vlans]

\* What the filters deliver: a VLAN that passes VFTA goes to the pools of its
\* slot, or to the default pool, the PF.
Delivered(h) ==
    [p \in Pools |-> {v \in h.vfta :
        LET E == {s \in Slots : h.vlvf[s] = v} IN
        IF E = {} THEN p = PF ELSE \E s \in E : p \in h.vlvfb[s]}]

Cleared == [vfta |-> {}, vlvf |-> [s \in Slots |-> None], vlvfb |-> [s \in Slots |-> {}]]

Fresh == Last(set_vfta(<<Cleared>>, 0, PF, TRUE, FALSE).tr)

Init ==
    /\ vhw = Fresh /\ todo = <<>>
    /\ active_vlans = {0} /\ promisc = FALSE /\ user_promisc = FALSE
    /\ granted = [f \in Vfs |-> {}] /\ was = Wish /\ who = PF
    /\ pf_vlan = [f \in Vfs |-> 0]
    /\ clear_to_send = [f \in Vfs |-> FALSE]
    /\ world \in Worlds

TypeOK ==
    /\ \A h \in {vhw} \cup Range(todo) :
          /\ h.vfta \subseteq Vids
          /\ h.vlvf \in [Slots -> Vids \cup {None}]
          /\ h.vlvfb \in [Slots -> SUBSET Pools]
    /\ active_vlans \in SUBSET Vids /\ promisc \in BOOLEAN
    /\ granted \in [Vfs -> SUBSET Vids] /\ was \in [Pools -> SUBSET Vids]
    /\ pf_vlan \in [Vfs -> Vids] /\ clear_to_send \in [Vfs -> BOOLEAN]

\* A handler for the pool p starts from the register file h and goes through tr after it.
From(p, h, tr) ==
    /\ who' = p /\ vhw' = h /\ todo' = Tail(tr)
    /\ was' = IF todo' = <<>> THEN Wish' ELSE Wish
Start(p, tr) == todo = <<>> /\ From(p, vhw, tr)

Write ==
    /\ todo # <<>>
    /\ vhw' = Head(todo) /\ todo' = Tail(todo)
    /\ was' = IF todo' = <<>> THEN Wish ELSE was
    /\ UNCHANGED <<active_vlans, promisc, user_promisc, granted, pf_vlan,
                   clear_to_send, who, world>>

vlan_rx_add_vid(v) ==
    /\ active_vlans' = active_vlans \cup {v}
    /\ UNCHANGED <<promisc, user_promisc, granted, pf_vlan, clear_to_send, world>>
    /\ Start(PF, IF v = 0 \/ ~promisc THEN set_vfta(<<vhw>>, v, PF, TRUE, v # 0).tr
                                  ELSE <<vhw>>)

vlan_rx_kill_vid(v) ==
    /\ v # 0 /\ v \in active_vlans
    /\ active_vlans' = active_vlans \ {v}
    /\ UNCHANGED <<promisc, user_promisc, granted, pf_vlan, clear_to_send, world>>
    /\ Start(PF, IF promisc THEN <<vhw>> ELSE set_vfta(<<vhw>>, v, PF, FALSE, TRUE).tr)

\* ixgbe_set_rx_mode when IFF_PROMISC changes.
SetPromisc ==
    /\ "promisc" \in world
    /\ user_promisc' = ~user_promisc /\ promisc' = user_promisc'
    /\ UNCHANGED <<active_vlans, granted, pf_vlan, clear_to_send, world>>
    /\ Start(PF, IF user_promisc' THEN vlan_promisc_enable(<<vhw>>) ELSE scrub_vfta(<<vhw>>))

\* ixgbe_set_vf_vlan_msg.  A VF with a port VLAN, or one that has not reset
\* itself, is refused; VLAN 0 stays.  VFs remove only VLANs that they have.
set_vf_vlan_msg(f, add, v) ==
    \E r \in {set_vf_vlan(<<vhw>>, add, v, f)} :
    /\ clear_to_send[f] /\ pf_vlan[f] = 0
    /\ add \/ v \in granted[f] \ {0}
    /\ granted' = [granted EXCEPT ![f] = IF ~add THEN @ \ {v}
                                         ELSE IF r.err THEN @ ELSE @ \cup {v}]
    /\ UNCHANGED <<active_vlans, promisc, user_promisc, pf_vlan, clear_to_send, world>>
    /\ Start(f, r.tr)

\* ixgbe_vf_reset_msg and ixgbe_vf_reset_event.
vf_reset_msg(f) ==
    \E r \in {set_vf_vlan(clear_vf_vlans(<<vhw>>, f), TRUE, pf_vlan[f], f)} :
    /\ granted' = [granted EXCEPT ![f] = IF r.err THEN {} ELSE {pf_vlan[f]}]
    /\ clear_to_send' = [clear_to_send EXCEPT ![f] = TRUE]
    /\ UNCHANGED <<active_vlans, promisc, user_promisc, pf_vlan, world>>
    /\ Start(f, r.tr)

\* r: the port VLAN is taken off the VF.
Untagged(r, f) ==
    [err |-> r.err, tr |-> set_vf_vlan(r.tr, TRUE, 0, f).tr, vlan |-> 0,
     has |-> (granted[f] \ {pf_vlan[f]}) \cup {0}]
disable_port_vlan(tr, f) == Untagged(set_vf_vlan(tr, FALSE, pf_vlan[f], f), f)

\* r: the port VLAN v is given to the VF.
Tagged(d, r, f, v) ==
    IF r.err THEN [d EXCEPT !.tr = r.tr]
    ELSE [d EXCEPT !.tr = set_vf_vlan(r.tr, FALSE, 0, f).tr, !.vlan = v,
                   !.has = (@ \cup {v}) \ {0}]
enable_port_vlan(d, f, v) ==
    IF d.err THEN d ELSE Tagged(d, set_vf_vlan(d.tr, TRUE, v, f), f, v)

\* qos: a priority without a VLAN also takes the first branch.
ndo_set_vf_vlan(f, v, qos) ==
    /\ "port" \in world
    /\ \E d \in {IF pf_vlan[f] # 0 \/ (v = 0 /\ ~qos) THEN disable_port_vlan(<<vhw>>, f)
                 ELSE [err |-> FALSE, tr |-> <<vhw>>, vlan |-> pf_vlan[f], has |-> granted[f]]} :
       \E r \in {IF v = 0 /\ ~qos THEN d ELSE enable_port_vlan(d, f, v)} :
          /\ pf_vlan' = [pf_vlan EXCEPT ![f] = r.vlan]
          /\ granted' = [granted EXCEPT ![f] = r.has]
          /\ UNCHANGED <<active_vlans, promisc, user_promisc, clear_to_send, world>>
          /\ Start(f, r.tr)

\* ixgbe_down and ixgbe_up: the reset clears the tables, ixgbe_configure
\* restores the VLANs of the PF, the VFs have to reset themselves.
restore_vlan(tr) ==
    FoldLeft(LAMBDA t, v : IF v = 0 \/ ~user_promisc
                           THEN set_vfta(t, v, PF, TRUE, v # 0).tr ELSE t,
             tr, SetToSortSeq(active_vlans, <))

Reset ==
    /\ "reset" \in world /\ todo = <<>>
    /\ promisc' = user_promisc
    /\ granted' = [f \in Vfs |-> {}]
    /\ clear_to_send' = [f \in Vfs |-> FALSE]
    /\ UNCHANGED <<active_vlans, user_promisc, pf_vlan, world>>
    /\ From(PF, Cleared, restore_vlan(IF user_promisc THEN vlan_promisc_enable(<<Cleared>>)
                                                 ELSE <<Cleared>>))

Next ==
    \/ Write \/ SetPromisc \/ Reset
    \/ \E v \in Vids : vlan_rx_add_vid(v) \/ vlan_rx_kill_vid(v)
    \/ \E f \in Vfs : vf_reset_msg(f)
    \/ \E f \in Vfs, v \in Vids, b \in BOOLEAN : set_vf_vlan_msg(f, b, v)
    \/ \E f \in PortVfs, v \in Vids, b \in BOOLEAN : ndo_set_vf_vlan(f, v, b)

Spec == Init /\ [][Next]_vvars
-----------------------------------------------------------------------------
\* ixgbe_clear_vf_vlans, ixgbe_update_pf_promisc_vlvf: "free up the VLVF
\* resources".  At rest a slot holds a VLAN exactly as long as some VF uses
\* it, no VLAN has two slots, and a free slot remembers no pool (but the PF,
\* in promiscuous mode), so its next user shares it with nobody.
SlotsUsed ==
    todo = <<>> =>
        \A s \in Slots \ {0} :
            /\ vhw.vlvf[s] # None => vhw.vlvfb[s] \cap Vfs # {}
            /\ vhw.vlvf[s] = None => vhw.vlvfb[s] = IF promisc THEN {PF} ELSE {}
            /\ \A t \in Slots \ {0, s} : vhw.vlvf[s] = None \/ vhw.vlvf[t] # vhw.vlvf[s]

\* ixgbe_set_vf_vlan: "it guarantees PF will maintain visibility to the VLAN".
\* At rest the PF receives every VLAN of its own.
PfSees == todo = <<>> => active_vlans \subseteq Delivered(vhw)[PF]

\* The register protocol implements VlanPolicy, with what the hardware
\* delivers as what each pool sees.
Policy == INSTANCE VlanPolicy WITH wish <- Wish, seen <- Delivered(vhw), busy <- todo # <<>>
PolicyVars == <<Wish, was, Delivered(vhw), todo # <<>>, who>>
PolicyStep == Policy!Next \/ PolicyVars' = PolicyVars
VlansIsolated == Policy!Init /\ [][PolicyStep]_vvars
=============================================================================
