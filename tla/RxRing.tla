------------------------------- MODULE RxRing -------------------------------
(***************************************************************************)
(* One receive ring of the driver (ixgbe_main.c, page-based receive path): *)
(* buffers are halves of pages that the ring maps once and recycles.       *)
(*                                                                         *)
(* A page in the ring has a reference count, of which the driver owns      *)
(* pagecnt_bias; the rest belongs to the halves it has given away, to the  *)
(* network stack or to an XDP transmit ring.  The owners of a half give it *)
(* back at any time.  The hardware fills the posted descriptors in order.  *)
(*                                                                         *)
(* PAGE_SIZE is 4096 (two halves), HAVE_PAGE_COUNT_BULK_UPDATE is set and  *)
(* receive-side coalescing is off, so that the buffers of a frame are      *)
(* consecutive.                                                            *)
(***************************************************************************)
EXTENDS Naturals, FiniteSets, TLC

CONSTANTS
    Count,      \* descriptors of the ring (rx_ring->count)
    Write,      \* IXGBE_RX_BUFFER_WRITE, the refill batch
    BiasMax,    \* USHRT_MAX, the references taken at once
    Pages,      \* the pages of the system
    NoPage,
    Modes,      \* the settings and conditions the ring may run under
    MaxFrags    \* bound: buffers of a frame

Kinds == {"small", "big", "bad", "more"}

\* What the write-backs say: "small" is a frame that is copied out of its
\* buffer (with ring_uses_build_skb there are none), "bad" one with an error,
\* "more" a buffer that is not the last of its frame (never with XDP, see
\* ixgbe_xdp_setup).  xdp: a program is attached; fail: allocations may fail.
Mode == [kinds : SUBSET Kinds, xdp : BOOLEAN, fail : BOOLEAN]

VARIABLES
    mode,
    pc,             \* "down", at rest, in the loop of clean_rx_irq, or in
                    \* alloc_rx_buffers called from there or by configure
    slot,           \* rx_buffer_info: page, half (page_offset), pagecnt_bias
    desc,           \* what the write-back of each descriptor says
    head,           \* the descriptor the hardware fills next
    next_to_clean, next_to_use, next_to_alloc,
    cleaned_count,
    fill, todo,     \* i and cleaned_count of alloc_rx_buffers
    chain,          \* the skb of an incomplete frame, in the buffer at
                    \* next_to_clean: its fragments, IXGBE_CB dma and
                    \* page_released
    held,           \* halves that the stack or an XDP ring owns
    count,          \* reference count of every page, 0 = not allocated
    mapped          \* pages mapped for DMA

ring == <<next_to_clean, next_to_use, next_to_alloc>>
refill == <<fill, todo>>
vars == <<mode, pc, slot, desc, head, ring, cleaned_count, refill, chain,
          held, count, mapped>>

Slots == 0 .. Count - 1
Halves == {0, 1}
Half == Pages \X Halves
NoBuf == [page |-> NoPage, half |-> 0, bias |-> 0]
NoSkb == [frags |-> {}, dma |-> NoPage, released |-> FALSE]

Up1(i) == (i + 1) % Count
Unused == (next_to_clean + Count - next_to_use - 1) % Count  \* ixgbe_desc_unused
InChain == chain.frags # {}
NonEop(d) == d = "more"
Free == {p \in Pages : count[p] = 0}
Given(p) == {h \in held \cup chain.frags : h[1] = p}

TypeOK ==
    /\ mode \in Modes
    /\ pc \in {"down", "idle", "loop", "refill", "configure"}
    /\ slot \in [Slots -> [page : Pages \cup {NoPage}, half : Halves,
                           bias : 0 .. BiasMax]]
    /\ desc \in [Slots -> Kinds \cup {"none"}]
    /\ {head, next_to_clean, next_to_use, next_to_alloc, fill} \subseteq Slots
    /\ cleaned_count \in Slots /\ todo \in Slots
    /\ chain \in [frags : SUBSET Half, dma : Pages \cup {NoPage},
                  released : BOOLEAN]
    /\ held \subseteq Half
    /\ count \in [Pages -> 0 .. BiasMax + 2]
    /\ mapped \subseteq Pages

Init ==
    /\ mode \in Modes
    /\ pc = "down"
    /\ slot = [i \in Slots |-> NoBuf]
    /\ desc = [i \in Slots |-> "none"]
    /\ head = 0 /\ next_to_clean = 0 /\ next_to_use = 0 /\ next_to_alloc = 0
    /\ cleaned_count = 0 /\ fill = 0 /\ todo = 0
    /\ chain = NoSkb
    /\ held = {} /\ mapped = {}
    /\ count = [p \in Pages |-> 0]

-----------------------------------------------------------------------------
(* Refilling: ixgbe_alloc_rx_buffers                                       *)

Resume == IF pc = "configure" THEN "idle" ELSE "loop"

\* One turn of the loop; the buffer has a page already, or gets a new one
\* (ixgbe_alloc_mapped_page).  Pages are alike: the first free one stands for any.
FillBuffer(p) ==
    IF slot[fill].page # NoPage
    THEN p = slot[fill].page /\ UNCHANGED <<slot, count, mapped>>
    ELSE /\ p \in Free /\ \A q \in Free : p <= q
         /\ slot' = [slot EXCEPT ![fill] =
                        [page |-> p, half |-> 0, bias |-> BiasMax]]
         /\ count' = [count EXCEPT ![p] = BiasMax]
         /\ mapped' = mapped \cup {p}

\* "clear the length for the next_to_use descriptor"
ClearThis == desc' = [desc EXCEPT ![fill] = "none"]
ClearNext == desc' = [desc EXCEPT ![Up1(fill)] = "none"]

AllocBuffer ==
    /\ pc \in {"refill", "configure"}
    /\ todo > 0
    /\ \E p \in Pages : FillBuffer(p)
    /\ ClearNext
    /\ fill' = Up1(fill)
    /\ todo' = todo - 1
    /\ UNCHANGED <<mode, pc, head, ring, cleaned_count, chain, held>>

\* The end of the loop, after the last buffer or after a failed allocation:
\* ixgbe_release_rx_desc writes the tail.
Release ==
    /\ pc \in {"refill", "configure"}
    /\ todo = 0 \/ (mode.fail /\ slot[fill].page = NoPage)
    /\ next_to_use' = fill
    /\ next_to_alloc' = IF fill # next_to_use THEN fill ELSE next_to_alloc
    /\ fill' = 0 /\ todo' = 0
    /\ pc' = Resume
    /\ UNCHANGED <<mode, slot, desc, head, next_to_clean, cleaned_count, chain,
                   held, count, mapped>>

\* ixgbe_configure_rx_ring: the rest of the ring is as clean_rx_ring left it
Configure ==
    /\ pc = "down"
    /\ pc' = "configure"
    /\ head' = 0
    /\ desc' = [desc EXCEPT ![0] = "none"]
    /\ slot' = [i \in Slots |-> NoBuf]
    /\ chain' = NoSkb
    /\ fill' = next_to_use
    /\ todo' = Unused
    /\ UNCHANGED <<mode, ring, cleaned_count, held, count, mapped>>

-----------------------------------------------------------------------------
(* The hardware and the owners of the pages given away                     *)

\* The NIC fills the next posted descriptor.  A frame has at most MaxFrags
\* buffers, all but the last of them full.
Pending == Cardinality(chain.frags)
           + Cardinality({i \in Slots : desc[i] = "more"})

HwWrite ==
    /\ pc # "down"
    /\ head # next_to_use
    /\ \E d \in mode.kinds :
        /\ d = "more" => Pending + 1 < MaxFrags
        /\ desc' = [desc EXCEPT ![head] = d]
    /\ head' = Up1(head)
    /\ UNCHANGED <<mode, pc, slot, ring, cleaned_count, refill, chain, held,
                   count, mapped>>

\* The stack frees a fragment, or clean_tx_irq a frame sent by XDP.
GiveBack ==
    /\ \E h \in held :
        /\ held' = held \ {h}
        /\ count' = [count EXCEPT ![h[1]] = @ - 1]
    /\ UNCHANGED <<mode, pc, slot, desc, head, ring, cleaned_count, refill,
                   chain, mapped>>

-----------------------------------------------------------------------------
(* Cleaning: ixgbe_clean_rx_irq                                            *)

PollStart ==
    /\ pc = "idle"
    /\ pc' = "loop"
    /\ cleaned_count' = Unused
    /\ UNCHANGED <<mode, slot, desc, head, ring, refill, chain, held, count,
                   mapped>>

\* "return some buffers to hardware, one at a time is too slow"
PollRefill ==
    /\ pc = "loop"
    /\ cleaned_count >= Write
    /\ pc' = "refill"
    /\ fill' = next_to_use
    /\ todo' = cleaned_count
    /\ cleaned_count' = 0
    /\ UNCHANGED <<mode, slot, desc, head, ring, chain, held, count, mapped>>

\* No descriptor is written back, or the budget (of any size) is used up.
PollEnd ==
    /\ pc = "loop"
    /\ pc' = "idle"
    /\ cleaned_count' = 0
    /\ UNCHANGED <<mode, slot, desc, head, ring, refill, chain, held, count,
                   mapped>>

\* ixgbe_get_rx_buffer, ixgbe_dma_sync_frag: at the end of the packet a first
\* page that already left the ring is unmapped.
SyncOnly(d) == mapped
SyncFrag(d) ==
    IF InChain /\ ~NonEop(d) /\ chain.released THEN mapped \ {chain.dma}
    ELSE mapped

\* ixgbe_run_xdp consumes the buffer, sends it, or lets it pass.
XdpVerdicts == IF mode.xdp THEN {"drop", "tx"} ELSE {}

\* ixgbe_construct_skb copies a small frame into a new skb and makes the buffer
\* of a larger one a part of it (as ixgbe_build_skb always does); no skb may be
\* available.
SkbVerdicts(d) == (IF mode.fail THEN {"fail"} ELSE {})
                  \cup (IF d = "small" THEN {"copy"} ELSE {"attach"})

\* What becomes of the buffer: it is added to a frame in progress, or starts
\* one.
Verdicts(d) == IF InChain THEN {"attach"} ELSE XdpVerdicts \cup SkbVerdicts(d)

GivesHalf(v) == v \in {"tx", "attach"}

\* The buffer after the verdict: pagecnt_bias-- in get_rx_buffer, ++ where
\* the half is not given away; the other half is next.
AfterVerdict(b, v) ==
    IF GivesHalf(v) THEN [b EXCEPT !.half = 1 - @, !.bias = @ - 1] ELSE b

\* ixgbe_can_reuse_rx_page: a local page of which nobody but the driver and
\* the owner of the half just given has a share.
TwoOwners(b) == count[b.page] - b.bias <= 2
OnlyOwner(b) == count[b.page] - b.bias <= 1

Restock(b) == IF b.bias = 1 THEN [b EXCEPT !.bias = BiasMax] ELSE b

\* ixgbe_put_rx_buffer and ixgbe_reuse_rx_page
Reuse(b, m) ==
    /\ slot' = [slot EXCEPT ![next_to_clean] = NoBuf,
                            ![next_to_alloc] = Restock(b)]
    /\ next_to_alloc' = Up1(next_to_alloc)
    /\ mapped' = m

Retire(b, m, skb) ==
    /\ slot' = [slot EXCEPT ![next_to_clean] = NoBuf]
    /\ next_to_alloc' = next_to_alloc
    /\ mapped' = IF skb.dma = b.page THEN m ELSE m \ {b.page}

\* The references of page p after the buffer was put: the fresh ones when the
\* bias was restocked, none of the driver's when the page is drained, and
\* those of the fragments that are dropped with a bad frame.
CountBare(b, reuse, dropped) ==
    [p \in Pages |-> (IF p = b.page /\ ~reuse THEN count[p] - b.bias ELSE count[p])
                     - Cardinality({h \in dropped : h[1] = p})]
CountAfter(b, reuse, dropped) ==
    [p \in Pages |->
        (IF p # b.page THEN count[p]
         ELSE IF reuse THEN count[p] + Restock(b).bias - b.bias
         ELSE count[p] - b.bias)
        - Cardinality({h \in dropped : h[1] = p})]

\* One turn of the loop, on a written-back descriptor.
CleanOne(v, reserved) ==
    LET i == next_to_clean
        d == desc[i]
        b == AfterVerdict(slot[i], v)
        given == <<slot[i].page, slot[i].half>>
        m == SyncFrag(d)
        reuse == ~reserved /\ OnlyOwner(b)
        first == [frags |-> {}, released |-> FALSE,
                  dma |-> IF NonEop(d) THEN b.page ELSE NoPage]
        skb0 == IF InChain THEN chain ELSE first
        skb == [skb0 EXCEPT
                  !.frags = IF v = "attach" THEN @ \cup {given} ELSE @,
                  !.released = @ \/ (~reuse /\ skb0.dma = b.page)]
        dropped == IF d = "bad" THEN skb.frags ELSE {}
    IN  /\ pc = "loop"
        /\ cleaned_count < Write
        /\ d # "none"
        /\ v \in Verdicts(d) \ {"fail"}
        /\ IF reuse THEN Reuse(b, m) ELSE Retire(b, m, skb0)
        /\ count' = CountAfter(b, reuse, dropped)
        /\ next_to_clean' = Up1(i)
        /\ chain' = IF NonEop(d) THEN skb ELSE NoSkb
        /\ held' = held \cup (IF v = "tx" THEN {given} ELSE {})
                        \cup (IF NonEop(d) THEN {} ELSE skb.frags \ dropped)
        /\ cleaned_count' = cleaned_count + 1
        /\ UNCHANGED <<mode, pc, desc, head, next_to_use, refill>>

\* "exit if we failed to retrieve a buffer": the descriptor stays.
NoSkbLeft ==
    /\ pc = "loop"
    /\ cleaned_count < Write
    /\ desc[next_to_clean] # "none"
    /\ "fail" \in Verdicts(desc[next_to_clean])
    /\ pc' = "idle"
    /\ cleaned_count' = 0
    /\ UNCHANGED <<mode, slot, desc, head, ring, refill, chain, held, count,
                   mapped>>

-----------------------------------------------------------------------------
(* Going down: ixgbe_clean_rx_ring, once NAPI and the queue are disabled   *)

Distance(i, j) == (j + Count - i) % Count
ToFree == {i \in Slots : Distance(next_to_clean, i)
                             < Distance(next_to_clean, next_to_alloc)}

CleanRing ==
    /\ pc = "idle"
    /\ pc' = "down"
    /\ mapped' = mapped \ ({slot[i].page : i \in ToFree}
                   \cup (IF ToFree # {} /\ chain.released THEN {chain.dma}
                         ELSE {}))
    /\ count' = [p \in Pages |->
                   LET mine == {i \in ToFree : slot[i].page = p}
                   IN  count[p]
                       - (IF mine = {} THEN 0
                          ELSE slot[CHOOSE i \in mine : TRUE].bias)
                       - (IF ToFree = {} THEN 0
                          ELSE Cardinality({h \in chain.frags : h[1] = p}))]
    /\ chain' = IF ToFree = {} THEN chain ELSE NoSkb
    /\ next_to_clean' = 0 /\ next_to_use' = 0 /\ next_to_alloc' = 0
    /\ UNCHANGED <<mode, slot, desc, head, cleaned_count, refill, held>>

Next ==
    \/ AllocBuffer \/ Release \/ Configure
    \/ HwWrite \/ GiveBack
    \/ PollStart \/ PollRefill \/ PollEnd \/ NoSkbLeft
    \/ \E v \in {"attach", "copy", "drop", "tx"}, reserved \in BOOLEAN :
          CleanOne(v, reserved)
    \/ CleanRing

Spec == Init /\ [][Next]_vars

-----------------------------------------------------------------------------
InRing == IF pc = "down" THEN {} ELSE {i \in Slots : slot[i].page # NoPage}

\* ixgbe_can_reuse_rx_page and the flip of page_offset: the half of a page
\* that is, or will next be, the hardware's is never one that the stack or an
\* XDP ring still owns; received data cannot be overwritten.
HalfExclusive ==
    \A i \in InRing :
        <<slot[i].page, slot[i].half>> \notin held \cup chain.frags

\* Every reference of a page is the bias of the one buffer that has it or a
\* half given away (pagecnt_bias, page_ref_add, __page_frag_cache_drain): no
\* page is freed early, none is lost.
RefsCounted ==
    \A p \in Pages :
        LET mine == {i \in InRing : slot[i].page = p}
        IN  /\ Cardinality(mine) <= 1
            /\ count[p] = Cardinality(Given(p))
                  + (IF mine = {} THEN 0
                     ELSE slot[CHOOSE i \in mine : TRUE].bias)

\* A page is mapped while it is in the ring and, "only unmap it when EOP is
\* reached", while it is the first page of a frame that is not complete.
MapAccounted ==
    mapped = {slot[i].page : i \in InRing}
               \cup (IF chain.released THEN {chain.dma} ELSE {})

\* The loop of ixgbe_clean_rx_irq ends at the descriptors that the hardware
\* has not written back: the lengths left from the last time round, or from
\* before a reset, are cleared in time.
StopsAtHead ==
    pc # "down" =>
        \A i \in Slots : Distance(head, i) <= Distance(head, next_to_use)
                            => desc[i] = "none"

=============================================================================
