----------------------------- MODULE MacFilter -----------------------------
(***************************************************************************)
(* The table of receive addresses (RARs) that the PF and its VFs share:    *)
(* ixgbe_main.c (mac_table, ixgbe_add_mac_filter, ixgbe_del_mac_filter,    *)
(* the sync functions, ixgbe_set_rx_mode, ixgbe_reset), ixgbe_sriov.c      *)
(* (ixgbe_set_vf_mac, ixgbe_set_vf_macvlan and the messages that use them).*)
(***************************************************************************)
EXTENDS Integers, FiniteSets, FiniteSetsExt

CONSTANTS
    NRars,      \* num_rar_entries
    NMvs,       \* entries of vf_mvs
    NVfs,
    Managed,    \* bound: VFs that the administrator configures
    Addrs       \* MAC addresses besides the PF's own

VARIABLES
    mac_table,  \* the table in memory: addr, pool, in use, modified
    rar,        \* the registers: addr and pool, or Off
    vf_mac,     \* vf_mac_addresses, Zero: none
    pf_set_mac, trusted,
    vf_mvs,     \* macvlan entries: vf (None: free) and address
    uc,         \* unicast list of the PF's net device
    synced,     \* those of them that __dev_uc_sync has added
    upe,        \* FCTRL.UPE: unicast promiscuous
    alive       \* clear_to_send

mvars == <<mac_table, rar, vf_mac, pf_set_mac, trusted, vf_mvs, uc, synced, upe, alive>>
lists == <<uc, synced, upe>>

Vfs == 0 .. NVfs - 1
PF == NVfs
Rars == 0 .. NRars - 1
Zero == "zero"
Own == "own"
None == -1
Off == [addr |-> Zero, pool |-> None]
Blank == [addr |-> Zero, pool |-> None, used |-> FALSE, mod |-> FALSE]

Register(e) == IF e.used THEN [addr |-> e.addr, pool |-> e.pool] ELSE Off

\* ixgbe_sync_mac_table: only the modified entries are written.
Synced(t) == [i \in Rars |-> IF t[i].mod THEN Register(t[i]) ELSE rar[i]]
Clean(t) == [i \in Rars |-> [t[i] EXCEPT !.mod = FALSE]]
sync_mac_table(t) == mac_table' = Clean(t) /\ rar' = Synced(t)

\* ixgbe_add_mac_filter and ixgbe_del_mac_filter before their sync: the first
\* entry that fits, the table unchanged where there is none.  (The address left
\* in a free entry is never read.)
Unused(t) == {i \in Rars : ~t[i].used}
Holding(t, a, p) == {i \in Rars : t[i].used /\ t[i].pool = p /\ t[i].addr = a}

AddUnmarked(t, a, p) ==
    [t EXCEPT ![Min(Unused(t))] = [@ EXCEPT !.addr = a, !.pool = p, !.used = TRUE]]
Add(t, a, p) ==
    [t EXCEPT ![Min(Unused(t))] = [addr |-> a, pool |-> p, used |-> TRUE, mod |-> TRUE]]
Del(t, a, p) ==
    IF Holding(t, a, p) = {} THEN t
    ELSE [t EXCEPT ![Min(Holding(t, a, p))] = [Blank EXCEPT !.mod = TRUE]]

\* ixgbe_set_vf_mac: the new address, none when the table is full.
Moved(t, f, a) ==
    LET d == Del(t, vf_mac[f], f)
    IN  IF Unused(d) = {} \/ a = Zero THEN d ELSE Add(d, a, f)
Kept(t, f, a) == IF Unused(Del(t, vf_mac[f], f)) = {} THEN Zero ELSE a

\* ixgbe_set_vf_macvlan with index 0 or 1 first gives the VF's entries back.
Mine(f) == {m \in 1 .. NMvs : vf_mvs[m].vf = f}
DropMvsNot(t, f) == t
DropMvs(t, f) == FoldSet(LAMBDA m, u : Del(u, vf_mvs[m].addr, f), t, Mine(f))
FreedMvs(f) == [m \in 1 .. NMvs |-> IF m \in Mine(f) THEN [vf |-> None, addr |-> Zero]
                                         ELSE vf_mvs[m]]

Default == [addr |-> Own, pool |-> PF, used |-> TRUE, mod |-> FALSE]

Init ==
    /\ mac_table = [i \in Rars |-> IF i = 0 THEN Default ELSE Blank]
    /\ rar = [i \in Rars |-> Register(mac_table[i])]
    /\ vf_mac = [f \in Vfs |-> Zero] /\ pf_set_mac = {} /\ trusted = {}
    /\ vf_mvs = [m \in 1 .. NMvs |-> [vf |-> None, addr |-> Zero]]
    /\ uc = {} /\ synced = {} /\ upe = FALSE /\ alive = {}

TypeOK ==
    /\ mac_table \in [Rars -> [addr : Addrs \cup {Zero, Own}, pool : Vfs \cup {PF, None},
                               used : BOOLEAN, mod : BOOLEAN]]
    /\ rar \in [Rars -> [addr : Addrs \cup {Zero, Own}, pool : Vfs \cup {PF, None}]]
    /\ vf_mac \in [Vfs -> Addrs \cup {Zero}]
    /\ vf_mvs \in [1 .. NMvs -> [vf : Vfs \cup {None}, addr : Addrs \cup {Zero}]]
    /\ pf_set_mac \subseteq Vfs /\ trusted \subseteq Vfs /\ alive \subseteq Vfs
    /\ uc \subseteq Addrs /\ synced \subseteq Addrs
-----------------------------------------------------------------------------
(* Messages of a VF (ixgbe_rcv_msg_from_vf).                               *)

\* ixgbe_vf_reset_event: also what ixgbe_msg_task does for a function reset.
vf_reset_event(f, t) == DropMvs(Del(t, vf_mac[f], f), f)

VfFlr(f) ==
    /\ sync_mac_table(vf_reset_event(f, mac_table))
    /\ vf_mvs' = FreedMvs(f)
    /\ UNCHANGED <<vf_mac, pf_set_mac, trusted, lists, alive>>

\* ixgbe_vf_reset_msg: the VF's address comes back.
VfReset(f) ==
    LET t == vf_reset_event(f, mac_table) IN
    /\ sync_mac_table(Moved(t, f, vf_mac[f]))
    /\ vf_mac' = [vf_mac EXCEPT ![f] = Kept(t, f, @)]
    /\ vf_mvs' = FreedMvs(f)
    /\ alive' = alive \cup {f}
    /\ UNCHANGED <<pf_set_mac, trusted, lists>>

\* ixgbe_set_vf_mac_addr.
VfSetMac(f, a) ==
    /\ f \in alive /\ (f \notin pf_set_mac \/ f \in trusted \/ vf_mac[f] = a)
    /\ sync_mac_table(Moved(mac_table, f, a))
    /\ vf_mac' = [vf_mac EXCEPT ![f] = Kept(mac_table, f, a)]
    /\ UNCHANGED <<pf_set_mac, trusted, vf_mvs, lists, alive>>

\* ixgbe_set_vf_macvlan_msg and ixgbe_set_vf_macvlan: first (index 1) or
\* further address of the list.
VfMacvlan(f, first, a) ==
    LET t == IF first THEN DropMvs(mac_table, f) ELSE mac_table
        l == IF first THEN FreedMvs(f) ELSE vf_mvs
        free == {m \in 1 .. NMvs : l[m].vf = None}
        ok == free # {} /\ Unused(t) # {}
    IN  /\ f \in alive /\ (f \notin pf_set_mac \/ f \in trusted)
        /\ sync_mac_table(IF ok THEN Add(t, a, f) ELSE t)
        /\ vf_mvs' = IF ok THEN [l EXCEPT ![Min(free)] = [vf |-> f, addr |-> a]] ELSE l
        /\ UNCHANGED <<vf_mac, pf_set_mac, trusted, lists, alive>>

VfNoMacvlans(f) ==
    /\ f \in alive
    /\ sync_mac_table(DropMvs(mac_table, f))
    /\ vf_mvs' = FreedMvs(f)
    /\ UNCHANGED <<vf_mac, pf_set_mac, trusted, lists, alive>>
-----------------------------------------------------------------------------
(* The PF's administrator.                                                 *)

\* ixgbe_ndo_set_vf_mac: an address, or none.
ndo_set_vf_mac(f, a) ==
    /\ sync_mac_table(Moved(mac_table, f, a))
    /\ vf_mac' = [vf_mac EXCEPT ![f] = Kept(mac_table, f, a)]
    /\ pf_set_mac' = IF vf_mac'[f] = a THEN pf_set_mac \cup {f} ELSE pf_set_mac
    /\ UNCHANGED <<trusted, vf_mvs, lists, alive>>

ndo_clear_vf_mac(f) ==
    /\ vf_mac[f] # Zero /\ Holding(mac_table, vf_mac[f], f) # {}
    /\ sync_mac_table(Del(mac_table, vf_mac[f], f))
    /\ vf_mac' = [vf_mac EXCEPT ![f] = Zero] /\ pf_set_mac' = pf_set_mac \ {f}
    /\ UNCHANGED <<trusted, vf_mvs, lists, alive>>

ndo_set_vf_trust(f) ==
    /\ trusted' = IF f \in trusted THEN trusted \ {f} ELSE trusted \cup {f}
    /\ alive' = alive \ {f}
    /\ UNCHANGED <<mac_table, rar, vf_mac, pf_set_mac, vf_mvs, lists>>

\* __dev_uc_sync of the list U: drop the addresses that are gone, add the new
\* ones until one fails; then the port is unicast promiscuous.
uc_sync(t, have, U) ==
    LET d == FoldSet(LAMBDA a, u : Del(u, a, PF), t, have \ U)
        room == Cardinality(Unused(d))
    IN  \E New \in SUBSET (U \ have) :
          /\ IF Cardinality(U \ have) <= room THEN New = U \ have
                                              ELSE Cardinality(New) = room
          /\ sync_mac_table(FoldSet(LAMBDA a, u : Add(u, a, PF), d, New))
          /\ synced' = (have \cap U) \cup New
          /\ upe' = (synced' # U)

set_rx_mode(U) ==
    /\ uc' = U
    /\ uc_sync(mac_table, synced, U)
    /\ UNCHANGED <<vf_mac, pf_set_mac, trusted, vf_mvs, alive>>

\* ixgbe_reset (in ixgbe_down): ixgbe_flush_sw_mac_table, __dev_uc_unsync and
\* ixgbe_mac_set_default_filter; ixgbe_configure then syncs the list again.
Reset ==
    /\ uc_sync([i \in Rars |-> [(IF i = 0 THEN Default ELSE Blank) EXCEPT !.mod = TRUE]],
               {}, uc)
    /\ alive' = {}
    /\ UNCHANGED <<vf_mac, pf_set_mac, trusted, vf_mvs, uc>>
-----------------------------------------------------------------------------
Next ==
    \/ \E f \in Vfs : VfFlr(f) \/ VfReset(f) \/ VfNoMacvlans(f)
    \/ \E f \in Vfs, a \in Addrs : VfSetMac(f, a)
    \/ \E f \in Managed, a \in Addrs : ndo_set_vf_mac(f, a)
    \/ \E f \in Vfs, a \in Addrs, first \in BOOLEAN : VfMacvlan(f, first, a)
    \/ \E f \in Managed : ndo_clear_vf_mac(f) \/ ndo_set_vf_trust(f)
    \/ \E U \in SUBSET Addrs : set_rx_mode(U)
    \/ Reset

Spec == Init /\ [][Next]_mvars

\* ixgbe_sync_mac_table writes only the entries marked as modified: between
\* operations the registers still hold exactly the entries in use.
RarsMirror == rar = [i \in Rars |-> Register(mac_table[i])]

\* ixgbe_set_vf_mac, ixgbe_set_vf_macvlan, ixgbe_vf_reset_event: a register
\* delivers an address to a VF only while the VF owns the address, as its own
\* or as a macvlan, and no address twice for one claim.
RarsOwned ==
    \A f \in Vfs, a \in Addrs :
        Cardinality(Holding(mac_table, a, f))
            <= (IF vf_mac[f] = a THEN 1 ELSE 0)
               + Cardinality({m \in Mine(f) : vf_mvs[m].addr = a})
=============================================================================
