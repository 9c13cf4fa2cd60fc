---------------------------- MODULE VlanPolicy -----------------------------
(***************************************************************************)
(* What the VLAN filters promise to the pools of the port (the PF and its  *)
(* VFs): at rest a pool receives exactly the VLANs that it asked for; while *)
(* an operation rewrites the filter registers a pool receives no VLAN that *)
(* it asked for neither before nor after (but VLAN 0: a port VLAN is       *)
(* replaced by way of it), and an operation on behalf of one pool takes    *)
(* nothing away from another VF.                                            *)
(***************************************************************************)
CONSTANTS Vids, Pools, PF

VARIABLES
    wish,   \* the VLANs that each pool asked for
    was,    \* and those it had asked for before the operation in progress
    seen,   \* the VLANs that the filters deliver to each pool
    busy,   \* an operation is rewriting the registers
    who     \* the pool that it is for

vars == <<wish, was, seen, busy, who>>

Sets == [Pools -> SUBSET Vids]

Init == wish \in Sets /\ was = wish /\ seen = wish /\ busy = FALSE /\ who = PF

\* One pool asks for other VLANs, or a reset of the port takes all the VFs'
\* VLANs (each asks again when it has reset itself).
Ask ==
    /\ ~busy
    /\ wish' \in Sets
    /\ who' \in Pools
    /\ \/ \A q \in Pools \ {who'} : wish'[q] = wish[q]
       \/ \A p \in Pools \ {PF} : wish'[p] = {}

Rewrite ==
    /\ seen' \in Sets
    /\ \A p \in Pools : seen'[p] \subseteq was'[p] \cup wish'[p] \cup {0}
    /\ \A p \in Pools \ {PF, who'} : was'[p] \cap wish'[p] \subseteq seen'[p]

Begin == Ask /\ was' = wish /\ busy' = TRUE /\ Rewrite
AtOnce == Ask /\ was' = wish' /\ busy' = FALSE /\ seen' = wish'
Write == busy /\ UNCHANGED <<wish, was, busy, who>> /\ Rewrite
Finish == busy /\ UNCHANGED <<wish, who>> /\ was' = wish /\ seen' = wish /\ busy' = FALSE

Next == Begin \/ AtOnce \/ Write \/ Finish

Spec == Init /\ [][Next]_vars
=============================================================================
