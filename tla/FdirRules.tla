------------------------------ MODULE FdirRules -----------------------------
(***************************************************************************)
(* Perfect filters of the Flow Director: the rules of ethtool -N and the   *)
(* classifiers of tc-u32 share one list (fdir_filter_list), one input mask *)
(* and one hardware table, which resets empty and ixgbe_configure refills  *)
(* from the list.  ethtool, resets and mode changes hold RTNL; tc holds    *)
(* only fdir_perfect_lock.                                                 *)
(*                                                                         *)
(* A rule steers to a receive ring or drops; that a VF is a valid target   *)
(* is checked the same way and left out.  The hash of a rule stands for    *)
(* the fields that it matches.                                             *)
(***************************************************************************)
EXTENDS Naturals, FiniteSets

CONSTANTS
    Locs,       \* soft indices
    Hashes,
    Masks,      \* input masks; one of them is refused by the hardware code
    BadMask,
    Rings       \* numbers of receive rings that can be configured

VARIABLES
    list,       \* soft index -> the rule of fdir_filter_list
    fdir_mask,
    table,      \* hardware: the filters of the table
    hwmask,     \* hardware: the mask registers
    perfect,    \* IXGBE_FLAG_FDIR_PERFECT_CAPABLE
    running,    \* netif_running
    rt,         \* "idle", or "reset": the table is empty, before the refill
    nrx,        \* num_rx_queues
    missed,     \* soft indices whose refill the hardware did not complete
    hnode,      \* adapter->tables has the hash table
    jump,       \* jump_tables[] has its link
    child       \* child_loc_map of the link

fvars == <<list, fdir_mask, table, hwmask, perfect, running, rt, nrx, missed,
           hnode, jump, child>>
tc == <<hnode, jump, child>>
dev == <<perfect, running, rt, nrx>>

Drop == 127
NoMask == "none"
None == [hash |-> "none", action |-> 0]
Actions == {r - 1 : r \in Rings} \cup {Drop}

TypeOK ==
    /\ \A l \in Locs : list[l] = None \/ list[l].hash \in Hashes
    /\ fdir_mask \in Masks \cup {NoMask} /\ hwmask \in Masks \cup {NoMask}
    /\ \A f \in table : f.loc \in Locs /\ f.hash \in Hashes /\ f.queue \in Actions
    /\ {perfect, running, hnode, jump} \subseteq BOOLEAN
    /\ rt \in {"idle", "reset"} /\ nrx \in Rings
    /\ missed \subseteq Locs /\ child \subseteq Locs

Init ==
    /\ list = [l \in Locs |-> None] /\ fdir_mask = NoMask
    /\ table = {} /\ hwmask = NoMask /\ missed = {}
    /\ perfect = TRUE /\ running = TRUE /\ rt = "idle" /\ nrx \in Rings
    /\ hnode = FALSE /\ jump = FALSE /\ child = {}

Listed(ls) == {l \in Locs : ls[l] # None}
Empty == Listed(list) = {}
ValidQueue(a) == a = Drop \/ a < nrx

\* The table takes filters once FDIRCTRL has been written.
Ready == running /\ rt = "idle" /\ perfect

-----------------------------------------------------------------------------
(* Commands to the table.  One that the poll of FDIRCMD gives up on is not *)
(* carried out.                                                            *)

\* ixgbe_fdir_write_perfect_filter_82599.
Written(t, l, r) ==
    {f \in t : f.loc # l \/ f.hash # r.hash}
        \cup {[loc |-> l, hash |-> r.hash, queue |-> r.action]}

\* ixgbe_fdir_erase_perfect_filter_82599.
Erased(t, l, r) == {f \in t : f.loc # l \/ f.hash # r.hash}

EraseNever(l, new) == FALSE

\* ixgbe_update_ethtool_fdir_entry erases the old rule unless the new one has
\* overwritten it; filter commands are issued only while the interface runs.
EraseOld(l, new) ==
    running /\ list[l] # None /\ (new = None \/ list[l].hash # new.hash)

update_entry(t, l, new) ==
    /\ table' = IF EraseOld(l, new) THEN Erased(t, l, list[l]) ELSE t
    /\ list' = [list EXCEPT ![l] = new]
    /\ missed' = missed \ {l}

\* The first rule sets the mask (it is remembered even if the hardware code
\* refuses it), the others must have the same.
SetMask(m) ==
    IF Empty
    THEN fdir_mask' = m /\ hwmask' = IF m = BadMask THEN hwmask ELSE m
    ELSE UNCHANGED <<fdir_mask, hwmask>>
MaskOk(m) == IF Empty THEN m # BadMask ELSE m = fdir_mask

Known(r) == \E l \in Locs : list[l] = r

-----------------------------------------------------------------------------
(* ethtool                                                                 *)

\* ixgbe_add_ethtool_fdir_entry; ok: the hardware completes the command.
AddRule(l, r, m, ok) ==
    /\ rt = "idle" /\ perfect /\ ValidQueue(r.action)
    /\ SetMask(m)
    /\ IF MaskOk(m) /\ ~Known(r) /\ (running => ok)
       THEN update_entry(IF running THEN Written(table, l, r) ELSE table, l, r)
       ELSE UNCHANGED <<table, list, missed>>
    /\ UNCHANGED <<dev, tc>>

\* ixgbe_del_ethtool_fdir_entry.
DelRule(l) ==
    /\ rt = "idle" /\ list[l] # None
    /\ update_entry(table, l, None)
    /\ UNCHANGED <<fdir_mask, hwmask, dev, tc>>

-----------------------------------------------------------------------------
(* tc-u32.  Its callbacks are only offloaded while the feature, and with   *)
(* it perfect, is on (tc_can_offload).                                     *)

\* ixgbe_configure_clsu32_add_hnode and _del_hnode.
Hnode(b) ==
    /\ hnode' = b
    /\ UNCHANGED <<list, fdir_mask, table, hwmask, missed, dev, jump, child>>

\* ixgbe_configure_clsu32 for a link.
AddLink ==
    /\ perfect /\ hnode /\ ~jump
    /\ jump' = TRUE /\ child' = {}
    /\ UNCHANGED <<list, fdir_mask, table, hwmask, missed, dev, hnode>>

\* ixgbe_configure_clsu32 for a filter of the root or (sub) of the link: drop
\* is its only target here.  The table may not be ready.  The location is
\* marked in the link even when the command fails.
AddKnode(sub, l, h, m, ok) ==
    /\ perfect
    /\ sub => jump /\ l \notin child
    /\ SetMask(m)
    /\ LET r == [hash |-> h, action |-> Drop]
       IN  IF MaskOk(m) /\ ok
           THEN update_entry(IF Ready THEN Written(table, l, r) ELSE table, l, r)
           ELSE UNCHANGED <<table, list, missed>>
    /\ child' = IF sub /\ MaskOk(m) THEN child \cup {l} ELSE child
    /\ UNCHANGED <<dev, hnode, jump>>

\* ixgbe_delete_clsu32 for a filter.
DelKnode(sub, l) ==
    /\ perfect
    /\ sub => jump /\ l \in child
    /\ child' = IF sub THEN child \ {l} ELSE child
    /\ IF list[l] # None
       THEN update_entry(table, l, None)
       ELSE UNCHANGED <<table, list, missed>>
    /\ UNCHANGED <<fdir_mask, hwmask, dev, hnode, jump>>

\* ixgbe_delete_clsu32 for the link: the filters of its child table go too.
DelLink ==
    /\ perfect /\ jump
    /\ table' = {f \in table : ~(f.loc \in child /\ running
                                 /\ list[f.loc].hash = f.hash)}
    /\ list' = [l \in Locs |-> IF l \in child THEN None ELSE list[l]]
    /\ missed' = missed \ child
    /\ jump' = FALSE /\ child' = {}
    /\ UNCHANGED <<fdir_mask, hwmask, dev, hnode>>

-----------------------------------------------------------------------------
(* The device                                                              *)

Cleared == table' = {} /\ hwmask' = NoMask

\* ixgbe_reinit_locked, or ixgbe_set_features with a change of mode.
Reset(mode) ==
    /\ rt = "idle" /\ running
    /\ Cleared /\ rt' = "reset"
    /\ perfect' = mode
    /\ UNCHANGED <<list, fdir_mask, running, nrx, missed, tc>>

\* ixgbe_close: ixgbe_down resets the device, ixgbe_fdir_filter_exit.
Close ==
    /\ rt = "idle" /\ running
    /\ Cleared /\ list' = [l \in Locs |-> None] /\ missed' = {}
    /\ running' = FALSE
    /\ UNCHANGED <<fdir_mask, perfect, rt, nrx, tc>>

\* ixgbe_set_features, ixgbe_set_channels of a closed interface.
SetClosed(mode, n) ==
    /\ ~running
    /\ perfect' = mode /\ nrx' = n
    /\ UNCHANGED <<list, fdir_mask, table, hwmask, running, rt, missed, tc>>

\* ixgbe_fdir_filter_restore: the mask and every rule whose ring still exists;
\* bad are the ones whose command does not complete.
Restored(bad) ==
    {[loc |-> l, hash |-> list[l].hash, queue |-> list[l].action] :
        l \in {k \in Listed(list) \ bad : ValidQueue(list[k].action)}}

\* ixgbe_configure, in ixgbe_up or ixgbe_open.
Configure(bad) ==
    /\ rt = "reset" \/ ~running
    /\ bad \subseteq Listed(list)
    /\ IF perfect
       THEN /\ table' = Restored(bad)
            /\ hwmask' = IF Empty THEN hwmask ELSE fdir_mask
            /\ missed' = bad
       ELSE UNCHANGED <<table, hwmask, missed>>
    /\ running' = TRUE /\ rt' = "idle"
    /\ UNCHANGED <<list, fdir_mask, perfect, nrx, tc>>

Next ==
    \/ \E l \in Locs, h \in Hashes, a \in Actions, m \in Masks, ok \in BOOLEAN :
           AddRule(l, [hash |-> h, action |-> a], m, ok)
    \/ \E l \in Locs : DelRule(l)
    \/ \E b \in BOOLEAN : Hnode(b)
    \/ AddLink \/ DelLink
    \/ \E sub \in BOOLEAN, l \in Locs, h \in Hashes, m \in Masks, ok \in BOOLEAN :
           AddKnode(sub, l, h, m, ok)
    \/ \E sub \in BOOLEAN, l \in Locs : DelKnode(sub, l)
    \/ \E mode \in BOOLEAN : Reset(mode)
    \/ Close
    \/ \E mode \in BOOLEAN, n \in Rings : SetClosed(mode, n)
    \/ \E bad \in SUBSET Locs : Configure(bad)

Spec == Init /\ [][Next]_fvars

(***************************************************************************)
(* The table holds the listed rules and nothing else: a filter of the      *)
(* table is the listed rule of its soft index, under the mask that the     *)
(* list was hashed with (so that ethtool can show and delete what steers   *)
(* the packets), and a listed rule with an existing ring is in the table   *)
(* unless the hardware gave up on it.                                      *)
(***************************************************************************)
RulesMirror ==
    Ready =>
        /\ \A f \in table :
              list[f.loc] = [hash |-> f.hash, action |-> f.queue]
        /\ \A l \in Listed(list) \ missed :
              ValidQueue(list[l].action) => \E f \in table : f.loc = l
        /\ ~Empty => hwmask = fdir_mask
=============================================================================
