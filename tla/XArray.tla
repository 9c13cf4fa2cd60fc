------------------------------- MODULE XArray -------------------------------
(***************************************************************************)
(* The XArray that the driver carries for old kernels (kcompat_xarray.c),  *)
(* as built without CONFIG_XARRAY_MULTI: a radix tree of nodes with        *)
(* ChunkSize slots, per-slot marks that are summed up towards the head,    *)
(* and the free mark from which identifiers are allocated.                 *)
(*                                                                         *)
(* The node of level l above the leaves that covers index i is named       *)
(* <<l, i \div ChunkSize^(l+1)>>; its parent pointer and its offset in the *)
(* parent follow from the name.  A node is allocated under the lock if     *)
(* memory is there; otherwise the lock is dropped, a node is allocated and *)
(* the operation starts again (__xas_nomem), and other threads run in      *)
(* between.                                                                *)
(***************************************************************************)
EXTENDS Integers, Sequences, TLC, FiniteSetsExt

CONSTANTS
    ChunkSize, MaxIndex,    \* slots of a node; the largest index (u32 of an id)
    Arrays,     \* kinds of arrays: subset of {"plain", "alloc", "alloc1"}
    Calls,      \* Calls[kind]: the calls made on an array of that kind, see Call
    Threads, MaxCalls, MaxFails

VARIABLES
    kind,       \* the array's flags
    xa,         \* struct xarray: its head, its nodes and its marks
    thr,        \* what each thread is doing
    next_id,    \* the cursor of __xa_alloc_cyclic and its wrapped flag
    counts      \* calls begun, allocations failed

xvars == <<kind, xa, thr, next_id, counts>>

Null == "null"
Zero == "zero"      \* XA_ZERO_ENTRY
IsNode == "node"    \* the slot holds the child of that name
IsValue(e) == e = "value"

Marks == {0, 1}
FREE == 0
Slots == 0..ChunkSize - 1
Index == 0..MaxIndex
TrackFree == kind # "plain"
ZeroBusy == kind = "alloc1"
ZeroToNull(e) == IF e = Zero THEN Null ELSE e

Call == [op : {"store", "erase", "cmpxchg", "insert", "alloc", "cyclic", "set_mark",
               "clear_mark", "destroy"},
         index : Index, hi : Index, entry : STRING, old : STRING, mark : Marks]

-----------------------------------------------------------------------------
\* Nodes and positions.  A position is an xa_state: at the head ("root"), in
\* a slot of a node ("node"), to be started again, out of bounds, or failed.

get_offset(i, l) == (i \div (ChunkSize ^ l)) % ChunkSize
Prefix(i, l) == i \div (ChunkSize ^ (l + 1))
MaxOf(x) == IF x.top = -1 THEN 0 ELSE (ChunkSize ^ (x.top + 1)) - 1
XaHead(x) == IF x.top = -1 THEN x.head ELSE IsNode

At(what, i) == [at |-> what, l |-> 0, p |-> 0, off |-> 0, index |-> i]
In(l, p, off, i) == [at |-> "node", l |-> l, p |-> p, off |-> off, index |-> i]
Invalid(s) == s.at \notin {"root", "node"}

Node(x, s) == x.nodes[<<s.l, s.p>>]
Entry(x, s) == IF s.at = "root" THEN XaHead(x) ELSE Node(x, s).slots[s.off]
SetNode(x, l, p, n) == [x EXCEPT !.nodes = (<<l, p>> :> n) @@ @]
FreeNode(x, l, p) == [x EXCEPT !.nodes = [k \in DOMAIN @ \ {<<l, p>>} |-> @[k]]]

\* xas_start and xas_descend: the slot of the deepest node that covers i.
Load(x, i) ==
    IF i > MaxOf(x) THEN At("bounds", i)
    ELSE IF x.top = -1 THEN At("root", i)
    ELSE LET l == Min({k \in 0..x.top : <<k, Prefix(i, k)>> \in DOMAIN x.nodes})
         IN  In(l, Prefix(i, l), get_offset(i, l), i)

XasEntry(x, s) == IF Invalid(s) THEN Null ELSE Entry(x, s)
Raw(x, i) == XasEntry(x, Load(x, i))

\* xas_set_mark and xas_clear_mark from a slot of node <<l, p>> upwards.
RECURSIVE SetUp(_, _, _, _, _)
SetUp(x, l, p, off, m) ==
    LET n == x.nodes[<<l, p>>]
        y == SetNode(x, l, p, [n EXCEPT !.marks[m] = @ \cup {off}])
    IN  IF off \in n.marks[m] THEN x
        ELSE IF l = x.top THEN [y EXCEPT !.marks = @ \cup {m}]
        ELSE SetUp(y, l + 1, p \div ChunkSize, p % ChunkSize, m)

RECURSIVE ClearUp(_, _, _, _, _)
ClearUp(x, l, p, off, m) ==
    LET n == x.nodes[<<l, p>>]
        y == SetNode(x, l, p, [n EXCEPT !.marks[m] = @ \ {off}])
    IN  IF off \notin n.marks[m] THEN x
        ELSE IF n.marks[m] # {off} THEN y
        ELSE IF l = x.top THEN [y EXCEPT !.marks = @ \ {m}]
        ELSE ClearUp(y, l + 1, p \div ChunkSize, p % ChunkSize, m)

SetMark(x, s, m) ==
    IF Invalid(s) THEN x
    ELSE IF s.at = "root" THEN [x EXCEPT !.marks = @ \cup {m}]
    ELSE SetUp(x, s.l, s.p, s.off, m)

ClearMark(x, s, m) ==
    IF Invalid(s) THEN x
    ELSE IF s.at = "root" THEN [x EXCEPT !.marks = @ \ {m}]
    ELSE ClearUp(x, s.l, s.p, s.off, m)

\* Only the free mark is set.
InitMarksFree(x, s) == IF TrackFree THEN SetMark(x, s, FREE) ELSE x
\* xas_init_marks
InitMarks(x, s) == LET y == ClearMark(x, s, 1)
                   IN  IF TrackFree THEN SetMark(y, s, FREE) ELSE ClearMark(y, s, FREE)

\* xa_get_mark, from the head down.
GetMark(x, i, m) ==
    /\ i <= MaxOf(x) /\ m \in x.marks
    /\ \A l \in 0..x.top :
         (\A k \in l..x.top : <<k, Prefix(i, k)>> \in DOMAIN x.nodes)
            => get_offset(i, l) \in x.nodes[<<l, Prefix(i, l)>>].marks[m]

-----------------------------------------------------------------------------
\* Growing the tree.  n is how many more nodes can be had; the result has
\* the position "enomem" when one was missing.

EmptyNode == [count |-> 0, nr_values |-> 0, slots |-> [k \in Slots |-> Null],
              marks |-> [m \in Marks |-> {}]]

\* Slot 0 counted as free like the others.
GrowHeadFree(x) ==
    LET old(m) == IF m \in x.marks THEN {0} ELSE {}
        h == IF x.top = -1 /\ x.head = Null THEN Zero ELSE XaHead(x)
        n == [EmptyNode EXCEPT !.count = 1, !.nr_values = IF IsValue(h) THEN 1 ELSE 0,
                !.slots[0] = h,
                !.marks = [m \in Marks |-> IF TrackFree /\ m = FREE THEN Slots ELSE old(m)]]
    IN  [SetNode(x, x.top + 1, 0, n) EXCEPT
            !.top = x.top + 1, !.head = Null,
            !.marks = IF TrackFree THEN @ \cup {FREE} ELSE @]

\* One more level on top of the head, whose summary of marks moves to slot 0.
GrowHead(x) ==
    LET free == IF FREE \in x.marks THEN Slots ELSE Slots \ {0}
        old(m) == IF m \in x.marks THEN {0} ELSE {}
        h == IF x.top = -1 /\ x.head = Null THEN Zero ELSE XaHead(x)
        n == [EmptyNode EXCEPT !.count = 1, !.nr_values = IF IsValue(h) THEN 1 ELSE 0,
                !.slots[0] = h,
                !.marks = [m \in Marks |-> IF TrackFree /\ m = FREE THEN free ELSE old(m)]]
    IN  [SetNode(x, x.top + 1, 0, n) EXCEPT
            !.top = x.top + 1, !.head = Null,
            !.marks = IF TrackFree THEN @ \cup {FREE} ELSE @]

\* xas_expand: [x, n, lv], lv the levels below the head to walk or make, -1
\* when a node was missing.  An empty array is not grown from the head,
\* unless its index 0 is reserved.
RECURSIVE Expand(_, _, _)
Expand(x, i, n) ==
    IF x.top = -1 /\ x.head = Null /\ ~ZeroBusy
    THEN [x |-> x, n |-> n,
          lv |-> IF i = 0 THEN 0 ELSE Min({k \in 1..8 : i < ChunkSize ^ k})]
    ELSE IF i <= MaxOf(x) THEN [x |-> x, n |-> n, lv |-> x.top + 1]
    ELSE IF n = 0 THEN [x |-> x, n |-> n, lv |-> -1]
    ELSE Expand(GrowHead(x), i, n - 1)

\* The loop of xas_create: from position s, lv levels above the leaves.
RECURSIVE Descend(_, _, _, _)
Descend(x, s, lv, n) ==
    LET e == Entry(x, s)
        l == lv - 1
        p == Prefix(s.index, l)
        fresh == IF TrackFree THEN [EmptyNode EXCEPT !.marks[FREE] = Slots] ELSE EmptyNode
        y == IF s.at = "root" THEN [x EXCEPT !.top = l, !.head = Null]
             ELSE SetNode(x, s.l, s.p, [Node(x, s) EXCEPT !.count = @ + 1, !.slots[s.off] = IsNode])
        below == In(l, p, get_offset(s.index, l), s.index)
    IN  IF lv = 0 \/ e \notin {Null, IsNode} THEN [x |-> x, s |-> s]
        ELSE IF e = IsNode THEN Descend(x, below, l, n)
        ELSE IF n = 0 THEN [x |-> x, s |-> At("enomem", s.index)]
        ELSE Descend(SetNode(y, l, p, fresh), below, l, n - 1)

\* xas_create; g is what xas_expand left.
CreateFrom(g, i, root) ==
    IF g.lv = -1 THEN [x |-> g.x, s |-> At("enomem", i)]
    ELSE Descend(g.x, At("root", i), IF g.lv = 0 /\ ~root THEN 1 ELSE g.lv, g.n)

Create(x, s, root, n) ==
    IF s.at = "node" THEN Descend(x, s, s.l, n)
    ELSE IF s.at \in {"enomem", "ebusy"} THEN [x |-> x, s |-> s]
    ELSE CreateFrom(Expand(x, s.index, n), s.index, root)

-----------------------------------------------------------------------------
\* Shrinking it.

\* xas_shrink: a top node with nothing but slot 0 gives its place to it.
RECURSIVE Shrink(_)
Shrink(x) ==
    LET n == x.nodes[<<x.top, 0>>]
        e == n.slots[0]
        y == [FreeNode(x, x.top, 0) EXCEPT
                !.top = IF e = IsNode THEN x.top - 1 ELSE -1,
                !.head = IF e = IsNode THEN Null ELSE IF ZeroBusy THEN ZeroToNull(e) ELSE e,
                !.marks = IF TrackFree /\ 0 \notin n.marks[FREE] THEN @ \ {FREE} ELSE @]
    IN  IF n.count # 1 \/ e = Null \/ (e # IsNode /\ x.top # 0) THEN x
        ELSE IF e = IsNode THEN Shrink(y) ELSE y

\* xas_delete_node: empty nodes go, up to the head.
RECURSIVE DeleteNode(_, _, _)
DeleteNode(x, l, p) ==
    LET y == FreeNode(x, l, p)
        q == <<l + 1, p \div ChunkSize>>
        n == x.nodes[q]
    IN  IF x.nodes[<<l, p>>].count > 0 THEN IF l = x.top THEN Shrink(x) ELSE x
        ELSE IF l = x.top THEN [y EXCEPT !.top = -1, !.head = Null]
        ELSE DeleteNode(SetNode(y, q[1], q[2], [n EXCEPT !.count = @ - 1,
                                                        !.slots[p % ChunkSize] = Null]),
                        q[1], q[2])

\* update_node: entry e replaces first in the slot at s.
UpdateNode(x, s, e, first) ==
    LET gone == (IF first = Null THEN 1 ELSE 0) - (IF e = Null THEN 1 ELSE 0)
        vals == (IF IsValue(first) THEN 0 ELSE 1) - (IF IsValue(e) THEN 0 ELSE 1)
        y == SetNode(x, s.l, s.p, [Node(x, s) EXCEPT
                !.slots[s.off] = e, !.count = @ + gone, !.nr_values = @ + vals])
    IN  IF s.at = "root" THEN [x EXCEPT !.head = e]
        ELSE IF gone < 0 THEN DeleteNode(y, s.l, s.p) ELSE y

\* xas_store: [x, s, first], the slot's old entry; c is the slot it made or found.
StoreAt(c, e) ==
    [s |-> c.s, first |-> XasEntry(c.x, c.s),
     x |-> IF Invalid(c.s) \/ Entry(c.x, c.s) = e THEN c.x
           ELSE UpdateNode(IF e = Null THEN InitMarks(c.x, c.s) ELSE c.x, c.s, e,
                           Entry(c.x, c.s))]

Store(x, s, e, n) ==
    StoreAt(IF e # Null THEN Create(x, s, e # Zero, n)
            ELSE [x |-> x, s |-> IF s.at \in {"restart", "bounds"} THEN Load(x, s.index) ELSE s],
            e)

-----------------------------------------------------------------------------
\* Searching.

\* xas_next_offset
NextOffset(s) == [s EXCEPT !.off = @ + 1,
                           !.index = ((@ \div (ChunkSize ^ (s.l + 1))) * ChunkSize ^ (s.l + 1))
                                     + (s.off + 1) * ChunkSize ^ s.l]

\* xas_find, from the position s: [s, e].
RECURSIVE FindLoop(_, _, _)
FindLoop(x, s, max) ==
    LET e == Entry(x, s)
    IN  IF s.at = "root" THEN [s |-> At("bounds", s.index), e |-> Null]
        ELSE IF s.index > max THEN [s |-> s, e |-> Null]
        ELSE IF s.off = ChunkSize
             THEN FindLoop(x, IF s.l = x.top THEN At("root", s.index)
                              ELSE [s EXCEPT !.l = @ + 1, !.p = @ \div ChunkSize,
                                             !.off = (s.p % ChunkSize) + 1], max)
        ELSE IF e = IsNode
             THEN FindLoop(x, In(s.l - 1, s.p * ChunkSize + s.off, 0, s.index), max)
        ELSE IF e # Null THEN [s |-> s, e |-> e]
        ELSE FindLoop(x, NextOffset(s), max)

Find(x, s, max) ==
    LET s1 == Load(x, s.index)
    IN  IF s.at = "bounds" THEN [s |-> s, e |-> Null]
        ELSE IF s.index > max THEN [s |-> At("bounds", s.index), e |-> Null]
        ELSE IF s.at = "root" THEN [s |-> At("bounds", 1), e |-> Null]
        ELSE IF s.at = "restart"
             THEN IF s1.at # "node" THEN [s |-> s1, e |-> IF s1.at = "root" THEN XaHead(x) ELSE Null]
                  ELSE IF Entry(x, s1) # Null THEN [s |-> s1, e |-> Entry(x, s1)]
                  ELSE FindLoop(x, NextOffset(s1), max)
        ELSE FindLoop(x, NextOffset(s), max)

\* xas_find_marked.  After a hit it goes on behind the slot ("advance").
RECURSIVE MarkedLoop(_, _, _, _, _)
MarkedLoop(x, s, max, m, advance) ==
    LET from == IF advance THEN s.off + 1 ELSE s.off
        hits == {k \in Node(x, s).marks[m] : k >= from}
        off == IF hits = {} THEN ChunkSize ELSE Min(hits)
        unit == ChunkSize ^ s.l
        moved == IF off > s.off
                 THEN [s EXCEPT !.off = off, !.index = ((@ \div (unit * ChunkSize)) * unit * ChunkSize)
                                                      + off * unit]
                 ELSE s
        adv2 == advance /\ ~(off > s.off)
        e == Entry(x, moved)
    IN  IF s.index > max THEN [s |-> At("restart", s.index), e |-> Null]
        ELSE IF s.off = ChunkSize
             THEN IF s.l = x.top
                  THEN [s |-> At(IF s.index > max THEN "restart" ELSE "bounds", s.index), e |-> Null]
                  ELSE MarkedLoop(x, [s EXCEPT !.l = @ + 1, !.p = @ \div ChunkSize,
                                               !.off = (s.p % ChunkSize) + 1], max, m, FALSE)
        ELSE IF off > s.off /\ moved.index - 1 >= max
             THEN [s |-> At("restart", moved.index), e |-> Null]
        ELSE IF moved.off = ChunkSize THEN MarkedLoop(x, moved, max, m, adv2)
        ELSE IF e = Null /\ ~(TrackFree /\ m = FREE) THEN MarkedLoop(x, moved, max, m, adv2)
        ELSE IF e # IsNode THEN [s |-> moved, e |-> e]
        ELSE MarkedLoop(x, In(s.l - 1, s.p * ChunkSize + moved.off,
                              get_offset(moved.index, s.l - 1), moved.index), max, m, adv2)

FindMarked(x, s, max, m) ==
    LET out(i) == [s |-> At(IF i > max THEN "restart" ELSE "bounds", i), e |-> Null]
    IN  IF s.index > max THEN [s |-> At("restart", s.index), e |-> Null]
        ELSE IF s.at = "root" THEN out(1)
        ELSE IF s.at = "node" THEN MarkedLoop(x, s, max, m, TRUE)
        ELSE IF s.index > MaxOf(x) THEN out(s.index)
        ELSE IF x.top = -1
             THEN IF m \in x.marks THEN [s |-> At("root", s.index), e |-> x.head] ELSE out(1)
        ELSE MarkedLoop(x, In(x.top, 0, s.index \div (ChunkSize ^ x.top), s.index), max, m, FALSE)

\* xa_find and xa_find_after: zero entries are passed over (xas_retry).
RECURSIVE Skip(_, _, _, _)
Skip(x, s, max, filter) ==
    LET f == IF filter \in Marks THEN FindMarked(x, s, max, filter) ELSE Find(x, s, max)
    IN  IF f.e = Zero THEN Skip(x, f.s, max, filter) ELSE f

XaFind(x, i, max, filter) == LET f == Skip(x, At("restart", i), max, filter)
                             IN  IF f.e = Null THEN -1 ELSE f.s.index

XaFindAfter(x, i, max, filter) ==
    IF i = MaxIndex THEN -1
    ELSE LET f == Skip(x, At("restart", i + 1), max, filter)
         IN  IF f.e = Null THEN -1 ELSE f.s.index

\* __xas_next and __xas_prev (by = 1 or -1): from the slot beside, over the
\* parents if the node ends here and down to a leaf again.
RECURSIVE Climb(_, _, _)
Climb(x, s, by) ==
    IF s.off \in Slots THEN s
    ELSE IF s.l = x.top THEN At("bounds", s.index)
    ELSE Climb(x, [s EXCEPT !.l = @ + 1, !.p = @ \div ChunkSize, !.off = (s.p % ChunkSize) + by], by)

RECURSIVE Leaf(_, _)
Leaf(x, s) == IF s.at # "node" \/ Entry(x, s) # IsNode THEN s
              ELSE LET p == s.p * ChunkSize + s.off
                   IN  Leaf(x, In(s.l - 1, p, get_offset(s.index, s.l - 1), s.index))

StepBy(x, s, by) ==
    LET i == (s.index + by) % (MaxIndex + 1)
        here == [s EXCEPT !.index = i]
    IN  IF s.at = "root" THEN At("bounds", i)
        ELSE IF s.at \in {"bounds", "restart"} THEN Load(x, IF s.at = "restart" THEN s.index ELSE i)
        ELSE Leaf(x, Climb(x, IF s.off # get_offset(i, s.l) THEN [here EXCEPT !.off = @ + by]
                              ELSE here, by))

\* xas_pause: the walk can be taken up behind the entry it is at.
Pause(s) ==
    LET i == ((s.index \div (ChunkSize ^ s.l)) + 1) * (ChunkSize ^ s.l)
    IN  IF Invalid(s) THEN s
        ELSE IF s.at = "root" THEN At("restart", s.index + 1)
        ELSE IF i > MaxIndex THEN At("bounds", 0) ELSE At("restart", i)

\* xas_extract_present and xas_extract_marked: the entries up to max, found
\* one after the other from the position of the one before.
RECURSIVE Extract(_, _, _, _)
Extract(x, s, max, filter) ==
    LET f == Skip(x, s, max, filter)
    IN  IF f.e = Null THEN <<>> ELSE <<f.s.index>> \o Extract(x, f.s, max, filter)

-----------------------------------------------------------------------------
\* The calls.  An attempt under the lock, when n nodes can be had, gives the
\* array, the position it ended at and what it returns.

Done(x, s, r) == [x |-> x, s |-> s, r |-> r]
\* After xas_store; the slot is not free any more if clear.
Stored(d, clear) == Done(IF clear THEN ClearMark(d.x, d.s, FREE) ELSE d.x, d.s, d.first)
Shown(d) == [d EXCEPT !.r = ZeroToNull(@)]
Busy(e) == IF e = Null THEN Zero ELSE e

TryStore(x, c, n) ==
    Shown(Stored(Store(x, At("restart", c.index),
                       IF TrackFree THEN Busy(c.entry) ELSE c.entry, n), TrackFree))

TryErase(x, c, n) == Shown(Stored(Store(x, At("restart", c.index), Null, n), FALSE))

\* __xa_cmpxchg_raw
TryCmpxchg(x, c, old, e, n) ==
    LET s == Load(x, c.index)
        curr == XasEntry(x, s)
    IN  IF curr # old THEN Done(x, s, curr)
        ELSE Stored(Store(x, s, e, n), TrackFree /\ e # Null /\ curr = Null)

TryInsert(x, c, n) ==
    [TryCmpxchg(x, c, Null, Busy(c.entry), n) EXCEPT !.r = IF @ # Null THEN "busy" ELSE "ok"]

\* __xa_alloc with the limit lo..c.hi, at the free slot f; id is the identifier.
AllocAt(x, f, c, n) ==
    IF f.s.at = "restart" THEN Done(x, At("ebusy", f.s.index), "busy") @@ [id |-> 0]
    ELSE [Stored(Store(x, f.s, Busy(c.entry), n), TRUE) EXCEPT !.r = "ok"]
         @@ [id |-> f.s.index]

TryAlloc(x, c, lo, n) == AllocAt(x, FindMarked(x, At("restart", lo), c.hi, FREE), c, n)

TryMark(x, c) ==
    LET s == Load(x, c.index)
    IN  Done(IF Invalid(s) \/ Entry(x, s) = Null THEN x
             ELSE IF c.op = "set_mark" THEN SetMark(x, s, c.mark) ELSE ClearMark(x, s, c.mark),
             s, Null)

\* xa_destroy; xas_free_nodes frees the whole tree.
TryDestroy(x) ==
    LET y == InitMarks([x EXCEPT !.top = -1, !.head = Null, !.nodes = <<>>], At("root", 0))
    IN  Done(IF ZeroBusy THEN [y EXCEPT !.marks = @ \ {FREE}] ELSE y, At("root", 0), Null)

Try(x, t, n) ==
    LET c == t.call
    IN  CASE c.op = "store" -> TryStore(x, c, n)
          [] c.op = "erase" -> TryErase(x, c, n)
          [] c.op = "cmpxchg" -> Shown(TryCmpxchg(x, c, c.old, c.entry, n))
          [] c.op = "insert" -> TryInsert(x, c, n)
          [] c.op \in {"alloc", "cyclic"} -> TryAlloc(x, c, t.lo, n)
          [] c.op = "destroy" -> TryDestroy(x)
          [] OTHER -> TryMark(x, c)

-----------------------------------------------------------------------------
Idle == [at |-> "idle", lo |-> 0, r |-> Null, id |-> 0, nth |-> 0,
         call |-> [op |-> "none", index |-> 0, hi |-> 0, entry |-> Null, old |-> Null, mark |-> 0]]

\* __xa_alloc_cyclic: the range above the cursor first, then all of it.
Lowest(c) == IF c.op = "cyclic" /\ next_id.next > c.index THEN next_id.next ELSE c.index
Again(t) == t.call.op = "cyclic" /\ t.lo > t.call.index
Wider(t) == [t EXCEPT !.lo = t.call.index]

Cursor(t, r, id) == IF t.call.op # "cyclic" \/ r # "ok" THEN next_id
                    ELSE [next |-> (id + 1) % (MaxIndex + 1),
                          wrapped |-> id = MaxIndex]

Larger(a, b) == IF a < b THEN b ELSE a

\* One stretch under the lock of the call in t, when n nodes can be had: it
\* returns, or a node is missing and it goes to __xas_nomem.
Attempt(i, t, n) ==
    \E first \in {Try(xa, t, n)} :
    \E u \in {IF first.s.at = "ebusy" /\ Again(t) THEN Wider(t) ELSE t} :
    \E d \in {IF u = t THEN first ELSE Try(xa, u, n)} :
    \E id \in {IF t.call.op \in {"alloc", "cyclic"} THEN d.id ELSE 0} :
        /\ xa' = d.x
        /\ IF d.s.at = "enomem"
           THEN /\ counts.fails < MaxFails
                /\ counts' = [calls |-> Larger(counts.calls, t.nth), fails |-> counts.fails + 1]
                /\ thr' = [thr EXCEPT ![i] = [u EXCEPT !.at = "nomem"]]
                /\ UNCHANGED next_id
           ELSE /\ counts' = [counts EXCEPT !.calls = Larger(@, t.nth)]
                /\ thr' = [thr EXCEPT ![i] = [u EXCEPT !.at = "idle", !.r = d.r, !.id = id]]
                /\ next_id' = Cursor(u, d.r, id)
        /\ UNCHANGED kind

\* How many nodes can be had: all an operation needs, or too few while the
\* bound on failures lasts.
Plenty == 8
Available(least) == {Plenty} \cup (IF counts.fails < MaxFails THEN {least, least + 1, least + 3} ELSE {})

\* Threads are alike: a second one begins only while the first has dropped
\* the lock.
Begin(i) ==
    /\ thr[i].at = "idle" /\ counts.calls < MaxCalls
    /\ \A j \in Threads : j < i => thr[j].at = "nomem"
    /\ \E c \in Calls[kind], n \in Available(0) :
          Attempt(i, [Idle EXCEPT !.call = c, !.lo = Lowest(c), !.nth = counts.calls + 1], n)

\* __xas_nomem dropped the lock and has the node: the call starts again.
Retry(i) ==
    /\ thr[i].at = "nomem"
    /\ \E n \in Available(1) : Attempt(i, thr[i], n)

\* __xas_nomem without a node: the call fails, but for the wider range of
\* a cyclic one.
NomemFails(i) ==
    /\ thr[i].at = "nomem" /\ counts.fails < MaxFails
    /\ IF Again(thr[i])
       THEN \E n \in Available(0) : Attempt(i, Wider(thr[i]), n)
       ELSE /\ thr' = [thr EXCEPT ![i].at = "idle", ![i].r = "enomem"]
            /\ counts' = [counts EXCEPT !.fails = @ + 1]
            /\ UNCHANGED <<kind, xa, next_id>>

Init ==
    /\ kind \in Arrays
    /\ xa = [top |-> -1, head |-> Null, nodes |-> <<>>,
             marks |-> IF kind = "alloc" THEN {FREE} ELSE {}]
    /\ thr = [t \in Threads |-> Idle]
    /\ next_id = [next |-> 0, wrapped |-> FALSE]
    /\ counts = [calls |-> 0, fails |-> 0]

Next == \E i \in Threads : Begin(i) \/ Retry(i) \/ NomemFails(i)

Spec == Init /\ [][Next]_xvars
-----------------------------------------------------------------------------
TypeOK ==
    /\ xa.top \in -1..3 /\ xa.marks \subseteq Marks
    /\ \A k \in DOMAIN xa.nodes : xa.nodes[k].count \in 0..ChunkSize
                                  /\ xa.nodes[k].nr_values \in 0..ChunkSize

\* In an array that starts at 1 the reserved index 0 holds nothing.
Content(x) == [i \in Index |-> IF i = 0 /\ ZeroBusy THEN ZeroToNull(Raw(x, i)) ELSE Raw(x, i)]
Marked(x, m) == {i \in Index : GetMark(x, i, m)}
Present(x) == {i \in Index : Raw(x, i) \notin {Null, Zero}}
Reserved(x) == {i \in Index : Raw(x, i) # Null} \cup (IF ZeroBusy THEN {0} ELSE {})

\* The tree keeps its own books: every count is the number of slots in use,
\* a slot says "node" exactly when its child is there, a mark of a slot is
\* the sum of the child's marks, up to the head; no node is empty and the top
\* node is not one that could be shrunk away (but for a reserved index 0),
\* unless a store ran out of memory half-way.
TreeWhole ==
    /\ \A k \in DOMAIN xa.nodes :
         LET n == xa.nodes[k]
             child(o) == <<k[1] - 1, k[2] * ChunkSize + o>>
         IN  /\ n.count = Cardinality({o \in Slots : n.slots[o] # Null})
             /\ n.nr_values = Cardinality({o \in Slots : IsValue(n.slots[o])})
             /\ \A o \in Slots :
                  /\ (n.slots[o] = IsNode) = (k[1] > 0 /\ child(o) \in DOMAIN xa.nodes)
                  /\ n.slots[o] = IsNode =>
                       \A m \in Marks : (o \in n.marks[m]) = (xa.nodes[child(o)].marks[m] # {})
    /\ xa.top >= 0 => \A m \in Marks : (m \in xa.marks) = (xa.nodes[<<xa.top, 0>>].marks[m] # {})
    /\ counts.fails = 0 =>
         \A k \in DOMAIN xa.nodes : xa.nodes[k].count > 0 /\ (k[1] = xa.top => Shrink(xa) = xa \/ Raw(xa, 0) = Zero)

\* Searching finds what is there: the first present or marked index from any
\* start, all of them in order, the neighbours of any index, the rest of a
\* walk that was paused, and in an allocating array the free marks are on
\* the indices that nothing occupies.
SearchesRight ==
    LET pres == Present(xa)
        ones == Marked(xa, 1) \cap pres
        held == {i \in Index : Raw(xa, i) # Null}
        got == Extract(xa, At("restart", 0), MaxIndex, 8)
        First(S, i, max) == LET T == {j \in S : j >= i /\ j <= max}
                            IN  IF T = {} THEN -1 ELSE Min(T)
    IN  /\ \A i \in Index, max \in {MaxIndex \div 2, MaxIndex} :
             /\ XaFind(xa, i, max, 8) = First(pres, i, max)
             /\ XaFind(xa, i, max, 1) = First(ones, i, max)
             /\ XaFindAfter(xa, i, max, 8) = First(pres, i + 1, max)
        /\ \A i \in Index : LET s == Load(xa, i)
                              up == StepBy(xa, s, 1)
                              down == StepBy(xa, s, -1)
                              rest == Find(xa, Pause(s), MaxIndex)
                          IN  /\ i < MaxIndex => up.index = i + 1 /\ XasEntry(xa, up) = Raw(xa, i + 1)
                              /\ i > 0 => down.index = i - 1 /\ XasEntry(xa, down) = Raw(xa, i - 1)
                              /\ Raw(xa, i) # Null =>
                                   (IF rest.e = Null THEN -1 ELSE rest.s.index) = First(held, i + 1, MaxIndex)
        /\ {got[j] : j \in 1..Len(got)} = pres /\ Len(got) = Cardinality(pres)
        /\ TrackFree => Marked(xa, FREE) = {i \in Index : i <= MaxOf(xa)} \ Reserved(xa)

\* What a call that has returned r (and id) did to content c and marks,
\* as the functions' descriptions promise.
Promised(call, r, id, c, d, mk, md) ==
    LET i == call.index
        ent == IF call.entry = Null THEN Zero ELSE call.entry
    IN  CASE r = "enomem" -> d = c /\ md = mk
          [] call.op = "store" ->
               /\ d = [c EXCEPT ![i] = IF TrackFree THEN ent ELSE call.entry]
               /\ r = ZeroToNull(c[i])
               /\ md = IF d[i] = Null THEN mk \ {i} ELSE mk
          [] call.op = "erase" -> d = [c EXCEPT ![i] = Null] /\ r = ZeroToNull(c[i]) /\ md = mk \ {i}
          [] call.op = "cmpxchg" ->
               /\ d = IF c[i] = call.old THEN [c EXCEPT ![i] = call.entry] ELSE c
               /\ r = ZeroToNull(c[i])
               /\ md = IF c[i] = call.old /\ call.entry = Null THEN mk \ {i} ELSE mk
          [] call.op = "insert" ->
               /\ d = IF c[i] = Null THEN [c EXCEPT ![i] = ent] ELSE c
               /\ (r = "busy") = (c[i] # Null) /\ md = mk
          [] call.op \in {"alloc", "cyclic"} ->
               LET free == {j \in i..call.hi : c[j] = Null} \ (IF ZeroBusy THEN {0} ELSE {})
               IN  /\ (r = "busy") = (free = {})
                   /\ r = "ok" => /\ id \in free /\ d = [c EXCEPT ![id] = ent] /\ md = mk
                                  /\ call.op = "alloc" => id = Min(free)
                   /\ r = "busy" => d = c /\ md = mk
          [] call.op = "set_mark" -> d = c /\ md = IF c[i] = Null THEN mk ELSE mk \cup {i}
          [] call.op = "clear_mark" -> d = c /\ md = mk \ {i}
          [] call.op = "destroy" -> d = [j \in Index |-> Null] /\ md = {}

\* The array is a map with marks: whatever nodes come and go, and whatever
\* other threads did while the lock was dropped, a call has exactly the
\* promised effect at the moment it returns, and none before.
MapStep ==
    LET c == Content(xa)   d == Content(xa')
        mk == Marked(xa, 1)   md == Marked(xa', 1)
        returns == {t \in Threads : thr'[t].at = "idle" /\ thr'[t] # thr[t]}
    IN  /\ returns = {} => d = c /\ md = mk
        /\ \A t \in returns : Promised(thr'[t].call, thr'[t].r, thr'[t].id, c, d, mk, md)

ArrayIsMap == [][MapStep]_xvars
=============================================================================
