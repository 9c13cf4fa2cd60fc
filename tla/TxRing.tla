------------------------------- MODULE TxRing -------------------------------
(***************************************************************************)
(* One transmit ring of the adapter (struct ixgbe_ring, src/ixgbe.h) and   *)
(* the threads that share it without a common lock:                        *)
(*                                                                         *)
(*   - the xmit path, serialised per queue by the stack's Tx lock          *)
(*     (ixgbe_xmit_frame_ring, ixgbe_tx_map, ixgbe_maybe_stop_tx);         *)
(*   - the NAPI poll, ixgbe_clean_tx_irq;                                  *)
(*   - the service task: hang checks, link changes, the reset;             *)
(*   - the NIC, which consumes descriptors between TDH and TDT.            *)
(*                                                                         *)
(* xpc and npc are the program counters of the first two.  A step ends     *)
(* where the code reads or writes something the other one writes.          *)
(***************************************************************************)
EXTENDS Integers

CONSTANTS Count,        \* tx_ring->count
          DescNeeded,   \* DESC_NEEDED, ixgbe.h:299-307
          DataDescs,    \* data descriptors a packet may need
          CtxDescs,     \* context descriptors a packet may need
          WorkLimit,    \* q_vector->tx.work_limit, packets per poll
          Events        \* which events of the environment happen

\* DESC_NEEDED is meant to be the worst case of one packet (ixgbe.h:299), and
\* an empty ring must reach TX_WAKE_THRESHOLD = 2 * DESC_NEEDED.
ASSUME TxAssumption ==
    /\ Count \in Nat /\ DescNeeded \in Nat /\ DescNeeded >= 4
    /\ DataDescs \subseteq Nat \ {0} /\ WorkLimit \in Nat \ {0}
    /\ CtxDescs \subseteq 0 .. 1
    /\ \A d \in DataDescs : d + 3 <= DescNeeded
    /\ 2 * DescNeeded <= Count - 1
    /\ Events \subseteq {"drop", "link", "stuck", "xoff", "timer"}

VARIABLES
    next_to_use, next_to_clean,   \* written by xmit, by NAPI
    tdh, tdt,                     \* head and tail registers of the queue
    watch,     \* tx_buffer_info[i].next_to_watch
    mapped,    \* tx_buffer_info[i] holds a DMA mapping (and at the first
               \* slot of a packet, its skb)
    desc,      \* descriptor i in memory: "data", "eop" (with IXGBE_TXD_CMD) or
               \* "done" (the NIC's write-back, which sets DD)
    stopped,   \* __QUEUE_STATE_DRV_XOFF of the subqueue
    carrier,   \* netif_carrier_ok
    xpc, xdata, xctx, xmore,      \* xmit: step, packet, netdev_xmit_more()
    npc, ni, nclean,              \* NAPI: step, i, total_packets > 0, budget
    detect, armed,   \* __IXGBE_TX_DETECT_HANG, __IXGBE_HANG_CHECK_ARMED
    progress,        \* stats.packets # tx_stats.tx_done_old
    reset_requested, \* __IXGBE_RESET_REQUESTED
    stuck            \* the NIC stopped consuming descriptors

ring  == <<next_to_use, next_to_clean, tdh, tdt, watch, mapped, desc>>
xmit  == <<xpc, xdata, xctx, xmore>>
napi  == <<npc, ni, nclean>>
hang  == <<detect, armed, progress>>
vars  == <<ring, stopped, carrier, xmit, napi, hang, reset_requested,
           stuck>>

Slots  == 0 .. Count - 1
NoDesc == -1                      \* next_to_watch == NULL
TX_WAKE_THRESHOLD == 2 * DescNeeded

\* k slots after slot i, for k < Count: the "i++; if (i == count) i = 0" walk.
AdvanceLateWrap(i, k) == IF i + k <= Count THEN i + k ELSE i + k - Count
Advance(i, k) == IF i + k < Count THEN i + k ELSE i + k - Count

\* Slots from a up to, not including, b: ixgbe_get_tx_pending.
Dist(a, b) == IF a <= b THEN b - a ELSE b + Count - a

\* ixgbe_desc_unused
DescUnused == (IF next_to_clean > next_to_use THEN 0 ELSE Count)
                 + next_to_clean - next_to_use - 1

\* j is one of the k slots that start at i.
Within(j, i, k) == Dist(i, j) < k

-----------------------------------------------------------------------------
Init ==
    /\ next_to_use = 0 /\ next_to_clean = 0 /\ tdh = 0 /\ tdt = 0
    /\ watch  = [i \in Slots |-> NoDesc]
    /\ mapped = [i \in Slots |-> FALSE]
    /\ desc = [i \in Slots |-> "data"]
    /\ stopped = FALSE /\ carrier = TRUE
    /\ xpc = "idle" /\ xdata = 1 /\ xctx = 0 /\ xmore = FALSE
    /\ npc = "idle" /\ ni = 0 /\ nclean = 0
    /\ detect = FALSE /\ armed = FALSE /\ progress = FALSE
    /\ reset_requested = FALSE /\ stuck = FALSE

-----------------------------------------------------------------------------
(* The xmit path. *)

\* The call returns; its locals are dead.
XmitReturn == xpc' = "idle" /\ xdata' = 1 /\ xctx' = 0 /\ xmore' = FALSE

\* The first read of ixgbe_desc_unused in ixgbe_maybe_stop_tx: enough room
\* goes on at ok, else the slow path __ixgbe_maybe_stop_tx.
MaybeStop(size, ok, slow) ==
    xpc' = IF DescUnused >= size THEN ok ELSE slow

\* __ixgbe_xmit_frame and ixgbe_xmit_frame_ring up to the room check.  d data
\* descriptors (headlen and fragments), c context descriptors, m xmit_more.
\* The stack calls it on a queue that is not stopped; without carrier the skb
\* is freed at once.
XmitEnter(d, c, m) ==
    /\ xpc = "idle" /\ ~stopped /\ carrier
    /\ xdata' = d /\ xctx' = c /\ xmore' = m
    /\ MaybeStop(d + 3, "map", "stop")
    /\ UNCHANGED <<ring, stopped, carrier, napi, hang, reset_requested,
                   stuck>>

\* netif_stop_subqueue of __ixgbe_maybe_stop_tx, before its barrier.  "stop"
\* is reached from the entry check, "stop2" from the one in ixgbe_tx_map.
StopQueue ==
    /\ xpc \in {"stop", "stop2"}
    /\ stopped' = TRUE
    /\ xpc' = IF xpc = "stop" THEN "recheck" ELSE "recheck2"
    /\ UNCHANGED <<ring, carrier, xdata, xctx, xmore, napi, hang,
                   reset_requested, stuck>>

\* The second look after the barrier: room made by another CPU meanwhile.
RoomNever(size) == FALSE
RoomAfterStop(size) == DescUnused >= size

\* ... restarts the queue; the entry check without room returns NETDEV_TX_BUSY.
Recheck ==
    /\ xpc \in {"recheck", "recheck2"}
    /\ LET room == RoomAfterStop(IF xpc = "recheck" THEN xdata + 3
                                                    ELSE DescNeeded)
       IN /\ stopped' = (stopped /\ ~room)
          /\ IF xpc = "recheck" /\ ~room
             THEN XmitReturn
             ELSE /\ xpc' = IF xpc = "recheck" THEN "map" ELSE "tail"
                  /\ UNCHANGED <<xdata, xctx, xmore>>
    /\ UNCHANGED <<ring, carrier, napi, hang, reset_requested, stuck>>

\* Slots of the packet being built, and its last one.
XSize == xctx + xdata
XLastBeyond == Advance(next_to_use, XSize)
XLast == Advance(next_to_use, XSize - 1)

\* The slots ixgbe_tx_map records a mapping in: the header's in first, which
\* is the context descriptor's slot when there is one, then one per fragment.
XMapped(j) == \/ j = next_to_use
              \/ Within(j, next_to_use, XSize)
                   /\ Dist(next_to_use, j) > xctx

\* What ixgbe_tx_map leaves in the last descriptor j of the packet: rewriting
\* olinfo_status clears the DD bit of the slot's previous use.
StaleEop(j) == IF desc[j] = "done" THEN "done" ELSE "eop"
FreshEop(j) == "eop"

\* ixgbe_tso/ixgbe_tx_csum and the loop of ixgbe_tx_map: every descriptor is
\* rewritten, the last one with IXGBE_TXD_CMD.  Nothing is visible to NAPI yet.
MapDescs ==
    /\ xpc = "map"
    /\ desc' = [j \in Slots |-> IF j = XLast THEN FreshEop(j)
                                ELSE IF Within(j, next_to_use, XSize) THEN "data"
                                ELSE desc[j]]
    /\ mapped' = [j \in Slots |-> XMapped(j) \/ mapped[j]]
    /\ xpc' = "publish"
    /\ UNCHANGED <<next_to_use, next_to_clean, tdh, tdt, watch, stopped,
                   carrier, xdata, xctx, xmore, napi, hang, reset_requested,
                   stuck>>

\* dma_error: k descriptors were already written; their mappings are undone,
\* the skb is freed, next_to_use stays at first.  With k = 0 this is also
\* out_drop.  Neither writes the tail register.
MapError(k) ==
    /\ "drop" \in Events
    /\ xpc = "map" /\ k \in 0 .. XSize - 1
    /\ desc' = [j \in Slots |-> IF Within(j, next_to_use, k) THEN "data"
                                ELSE desc[j]]
    /\ XmitReturn
    /\ UNCHANGED <<next_to_use, next_to_clean, tdh, tdt, watch, mapped,
                   stopped, carrier, napi, hang, reset_requested, stuck>>

\* After wmb(): first->next_to_watch, then next_to_use; then the room check
\* for the next packet.
Publish ==
    /\ xpc = "publish"
    /\ watch' = [watch EXCEPT ![next_to_use] = XLast]
    /\ next_to_use' = Advance(next_to_use, XSize)
    /\ xpc' = "needed"
    /\ UNCHANGED <<next_to_clean, tdh, tdt, mapped, desc, stopped, carrier,
                   xdata, xctx, xmore, napi, hang, reset_requested, stuck>>

CheckNeeded ==
    /\ xpc = "needed"
    /\ MaybeStop(DescNeeded, "tail", "stop2")
    /\ UNCHANGED <<ring, stopped, carrier, xdata, xctx, xmore, napi, hang,
                   reset_requested, stuck>>

\* writel(i, tx_ring->tail) unless the stack promised another packet on a
\* queue that still runs.
RingUnlessMore == ~xmore
RingDoorbell == stopped \/ ~xmore

WriteTail ==
    /\ xpc = "tail"
    /\ tdt' = IF RingDoorbell THEN next_to_use ELSE tdt
    /\ XmitReturn
    /\ UNCHANGED <<next_to_use, next_to_clean, tdh, watch, mapped, desc,
                   stopped, carrier, napi, hang, reset_requested, stuck>>

Xmit == \/ \E d \in DataDescs, c \in CtxDescs, m \in BOOLEAN :
             XmitEnter(d, c, m)
        \/ StopQueue \/ Recheck \/ MapDescs \/ Publish \/ CheckNeeded
        \/ WriteTail
        \/ \E k \in 0 .. DescNeeded : MapError(k)

-----------------------------------------------------------------------------
(* The NAPI poll: ixgbe_clean_tx_irq. *)

\* ixgbe_clean_tx_irq returns; its locals are dead.
PollReturn == npc' = "idle" /\ ni' = 0 /\ nclean' = 0

PollStart ==
    /\ npc = "idle"
    /\ npc' = "clean" /\ ni' = next_to_clean /\ nclean' = 0
    /\ UNCHANGED <<ring, stopped, carrier, xmit, hang, reset_requested, stuck>>

\* The packet at slot i has been sent: next_to_watch set, DD of its last
\* descriptor set.
Completed(i) == watch[i] # NoDesc /\ desc[watch[i]] = "done"

\* The slots of the packet at slot i, its eop descriptor included.
PacketSlotsShort(i) == Dist(i, watch[i])
PacketSlots(i) == Dist(i, watch[i]) + 1

\* One turn of the loop: free the packet, unmap its slots up to the eop
\* descriptor, move one past it.
CleanPacket ==
    /\ npc = "clean" /\ nclean < WorkLimit /\ Completed(ni)
    /\ watch' = [watch EXCEPT ![ni] = NoDesc]
    /\ mapped' = [j \in Slots |-> mapped[j] /\ ~Within(j, ni, PacketSlots(ni))]
    /\ ni' = Advance(watch[ni], 1)
    /\ nclean' = nclean + 1
    /\ UNCHANGED <<next_to_use, next_to_clean, tdh, tdt, desc, stopped,
                   carrier, xmit, npc, hang, reset_requested, stuck>>

\* The loop breaks or runs out of budget: next_to_clean and the packet count.
PublishCleanPast ==
    /\ npc = "clean" /\ (nclean = WorkLimit \/ ~Completed(ni))
    /\ next_to_clean' = Advance(ni, 1)
    /\ progress' = (progress \/ nclean > 0)
    /\ npc' = "hang"
    /\ UNCHANGED <<next_to_use, tdh, tdt, watch, mapped, desc, stopped,
                   carrier, xmit, ni, nclean, detect, armed, reset_requested,
                   stuck>>

PublishClean ==
    /\ npc = "clean" /\ (nclean = WorkLimit \/ ~Completed(ni))
    /\ next_to_clean' = ni
    /\ progress' = (progress \/ nclean > 0)
    /\ npc' = "hang"
    /\ UNCHANGED <<next_to_use, tdh, tdt, watch, mapped, desc, stopped,
                   carrier, xmit, ni, nclean, detect, armed, reset_requested,
                   stuck>>

\* ixgbe_check_tx_hang: no completion since the last check and work pending,
\* twice in a row.
TxPending == Dist(next_to_clean, next_to_use) > 0
LooksHung == ~progress /\ TxPending
ArmedNever == FALSE
ArmedAlways == armed \/ LooksHung
ArmedAfterCheck == LooksHung
IsHung == LooksHung /\ armed

CheckTxHang ==
    /\ detect' = FALSE
    /\ armed' = ArmedAfterCheck
    /\ progress' = FALSE

\* The hang check of the poll: a hang stops the queue (ixgbe_reset_pf_report)
\* and asks for a reset (ixgbe_tx_timeout_reset).
PollHang ==
    /\ npc = "hang"
    /\ IF detect THEN CheckTxHang ELSE UNCHANGED hang
    /\ IF detect /\ IsHung
       THEN stopped' = TRUE /\ reset_requested' = TRUE /\ PollReturn
       ELSE /\ npc' = "wake"
            /\ UNCHANGED <<stopped, reset_requested, ni, nclean>>
    /\ UNCHANGED <<ring, carrier, xmit, stuck>>

\* total_packets, carrier and room: then, after the barrier, the queue state
\* is looked at.
EnoughToWake == DescUnused >= TX_WAKE_THRESHOLD

PollWakeTest ==
    /\ npc = "wake"
    /\ IF nclean > 0 /\ carrier /\ EnoughToWake
       THEN npc' = "wake2" /\ UNCHANGED <<ni, nclean>>
       ELSE PollReturn
    /\ UNCHANGED <<ring, stopped, carrier, xmit, hang, reset_requested, stuck>>

PollWake ==
    /\ npc = "wake2"
    /\ stopped' = FALSE
    /\ PollReturn
    /\ UNCHANGED <<ring, carrier, xmit, hang, reset_requested, stuck>>

Poll == PollStart \/ CleanPacket \/ PublishClean \/ PollHang
        \/ PollWakeTest \/ PollWake

-----------------------------------------------------------------------------
(* The NIC. *)

\* The descriptor that ends the packet at h.
HwEop(h) == CHOOSE e \in Slots : /\ desc[e] = "eop"
                                 /\ \A j \in Slots : Dist(h, j) < Dist(h, e)
                                                       => desc[j] # "eop"

\* Fetch the packet at the head, send it, write DD back over its RS descriptor.
HwSend ==
    /\ tdh # tdt /\ ~stuck
    /\ desc' = [desc EXCEPT ![HwEop(tdh)] = "done"]
    /\ tdh' = Advance(HwEop(tdh), 1)
    /\ UNCHANGED <<next_to_use, next_to_clean, tdt, watch, mapped, stopped,
                   carrier, xmit, napi, hang, reset_requested, stuck>>

HwStick ==
    /\ "stuck" \in Events /\ ~stuck
    /\ stuck' = TRUE
    /\ UNCHANGED <<ring, stopped, carrier, xmit, napi, hang, reset_requested>>

-----------------------------------------------------------------------------
(* The service task, the stack's watchdog and the reset. *)

\* ixgbe_check_hang_subtask; its software interrupt is what makes PollStart
\* fair even when the NIC raises none.
CheckHangSubtask ==
    /\ "timer" \in Events /\ carrier /\ ~detect
    /\ detect' = TRUE
    /\ UNCHANGED <<ring, stopped, carrier, xmit, napi, armed, progress,
                   reset_requested, stuck>>

\* ixgbe_update_xoff_rx_lfc / ixgbe_update_xoff_received
UpdateXoff ==
    /\ "xoff" \in Events /\ armed
    /\ armed' = FALSE
    /\ UNCHANGED <<ring, stopped, carrier, xmit, napi, detect, progress,
                   reset_requested, stuck>>

\* ixgbe_tx_timeout, called by the stack with the Tx lock held on a stopped
\* queue; a "fake" hang only doubles watchdog_timeo.
TxTimeout ==
    /\ xpc = "idle" /\ stopped /\ detect
    /\ CheckTxHang
    /\ reset_requested' = (reset_requested \/ IsHung)
    /\ UNCHANGED <<ring, stopped, carrier, xmit, napi, stuck>>

\* ixgbe_watchdog_link_is_down
LinkDown ==
    /\ "link" \in Events /\ carrier
    /\ carrier' = FALSE /\ stopped' = TRUE
    /\ UNCHANGED <<ring, xmit, napi, hang, reset_requested, stuck>>

\* ixgbe_watchdog_link_is_up: netif_tx_wake_all_queues takes no Tx lock.
LinkUp ==
    /\ ~carrier
    /\ carrier' = TRUE /\ stopped' = FALSE
    /\ UNCHANGED <<ring, xmit, napi, hang, reset_requested, stuck>>

\* ixgbe_watchdog_flush_tx: work left on a ring without link.
WatchdogFlushTx ==
    /\ ~carrier /\ TxPending /\ ~reset_requested
    /\ reset_requested' = TRUE
    /\ UNCHANGED <<ring, stopped, carrier, xmit, napi, hang, stuck>>

\* ixgbe_reset_subtask -> ixgbe_reinit_locked, seen by the ring: ixgbe_down
\* has shut xmit and NAPI out (module Lifecycle), ixgbe_clean_tx_ring frees
\* what is left, ixgbe_configure_tx_ring restarts it at slot 0, and
\* ixgbe_up_complete starts the queue; the link comes back later.
Reinit ==
    /\ reset_requested /\ xpc = "idle" /\ npc = "idle"
    /\ next_to_use' = 0 /\ next_to_clean' = 0 /\ tdh' = 0 /\ tdt' = 0
    /\ watch'  = [i \in Slots |-> NoDesc]
    /\ mapped' = [i \in Slots |-> FALSE]
    /\ UNCHANGED <<desc, detect, progress, xmit, napi>>
    /\ armed' = FALSE
    /\ stopped' = FALSE /\ carrier' = FALSE
    /\ reset_requested' = FALSE /\ stuck' = FALSE

Service == CheckHangSubtask \/ UpdateXoff \/ TxTimeout \/ LinkDown \/ LinkUp
           \/ WatchdogFlushTx \/ Reinit

Next == Xmit \/ Poll \/ HwSend \/ HwStick \/ Service

Spec == Init /\ [][Next]_vars

\* Fairness.  An xmit call runs to its end; the NIC sends while it is not
\* stuck; the service timer re-arms itself every two seconds, sets the hang
\* check and interrupts every vector, so NAPI polls again and again; a reset
\* request keeps the service task scheduled and ixgbe_down waits for xmit and
\* NAPI to leave, so the reset cannot be overtaken for ever.
Fairness ==
    /\ WF_vars(Xmit /\ xpc # "idle")
    /\ WF_vars(Poll)
    /\ WF_vars(HwSend)
    /\ WF_vars(CheckHangSubtask)
    /\ WF_vars(WatchdogFlushTx)
    /\ SF_vars(Reinit)

FairSpec == Spec /\ Fairness

-----------------------------------------------------------------------------
(* Properties. *)

XPCs == {"idle", "stop", "recheck", "map", "publish", "needed", "stop2",
         "recheck2", "tail"}
NPCs == {"idle", "clean", "hang", "wake", "wake2"}

RingType ==
    /\ next_to_use \in Slots /\ next_to_clean \in Slots
    /\ tdh \in Slots /\ tdt \in Slots
    /\ watch \in [Slots -> Slots \cup {NoDesc}]
    /\ mapped \in [Slots -> BOOLEAN]
    /\ desc \in [Slots -> {"data", "eop", "done"}]

LocalType ==
    /\ xpc \in XPCs /\ xdata \in DataDescs \cup {1} /\ xctx \in 0 .. 1
    /\ npc \in NPCs /\ ni \in Slots /\ nclean \in 0 .. WorkLimit

FlagType ==
    /\ stopped \in BOOLEAN /\ carrier \in BOOLEAN /\ xmore \in BOOLEAN
    /\ detect \in BOOLEAN /\ armed \in BOOLEAN /\ progress \in BOOLEAN
    /\ reset_requested \in BOOLEAN /\ stuck \in BOOLEAN

\* Every index, register and next_to_watch stays inside the ring, whatever the
\* wrap-arounds of ixgbe_tx_map and ixgbe_clean_tx_irq do.
TypeOK == RingType /\ LocalType /\ FlagType

\* The slot up to which NAPI has cleaned: its local i while it runs.
CleanEnd == IF npc = "clean" THEN ni ELSE next_to_clean

\* Slots counted from there.
Pos(i) == Dist(CleanEnd, i)

\* Slot i holds a descriptor of a packet NAPI has not cleaned yet.
InFlight(i) == Pos(i) < Pos(next_to_use)

\* Slot i is where a packet starts or the next one will.
Boundary(i) == i = next_to_use \/ watch[i] # NoDesc

\* "2 desc gap to keep tail from touching head" (ixgbe_main.c:11785): the
\* packets handed over never fill the last two slots before next_to_clean,
\* whatever NAPI cleans between the room check and the publication.
TailGap == Dist(next_to_clean, next_to_use) <= Count - 3

\* NAPI frees a packet only after the NIC has sent it: a DD bit NAPI
\* can act on lies behind the head register (olinfo_status is rewritten before
\* next_to_watch is published).
NoEarlyFree ==
    \A i \in Slots : Completed(i) =>
        Pos(watch[i]) < Pos(tdh)

\* The packet that starts at slot i: next_to_watch names its one RS descriptor,
\* written back exactly when the head has passed it; the slot after it is a
\* boundary.
PacketAt(i) ==
    /\ Pos(i) <= Pos(watch[i]) /\ InFlight(watch[i])
    /\ desc[watch[i]] = IF Pos(watch[i]) < Pos(tdh) THEN "done" ELSE "eop"
    /\ \A j \in Slots : Pos(i) <= Pos(j) /\ Pos(j) < Pos(watch[i])
                           => desc[j] # "eop"
    /\ \A j \in Slots : Pos(i) < Pos(j) /\ Pos(j) <= Pos(watch[i])
                           => watch[j] = NoDesc
    /\ Boundary(Advance(watch[i], 1))

\* What lies between NAPI's position and next_to_use is a sequence of whole
\* packets, as ixgbe_tx_map published them; NAPI, the head and the tail stand
\* on packet boundaries, in this order.
PacketsTile ==
    /\ \A i \in Slots : watch[i] # NoDesc => PacketAt(i)
    /\ Boundary(CleanEnd) /\ Boundary(tdh) /\ Boundary(tdt)
    /\ Pos(tdh) <= Pos(tdt) /\ Pos(tdt) <= Pos(next_to_use)

\* DMA mappings and skbs: what is mapped belongs to a packet in flight or to
\* the one being built, so nothing leaks when slots are reused, and the first
\* slot of a packet in flight is mapped, so it is not unmapped twice.
MappingsOwned ==
    /\ \A i \in Slots : mapped[i] =>
         InFlight(i) \/ (xpc = "publish" /\ Within(i, next_to_use, XSize))
    /\ \A i \in Slots : watch[i] # NoDesc => mapped[i] /\ InFlight(i)

\* A stopped queue is started again, or loses its link: the test-stop-retest
\* of ixgbe_maybe_stop_tx against the clean-then-test of ixgbe_clean_tx_irq
\* loses no wakeup, and what the NIC never completes ends in a reset.
NoLostWakeup == stopped ~> (~stopped \/ ~carrier)

\* No packet stays in the ring for ever: again and again the ring is empty or
\* next_to_clean moves on (packets leave in order), by completion or by reset.
PacketsLeave == \/ []<>~TxPending
                \/ []<><<next_to_clean' # next_to_clean>>_vars

\* Transmission goes on: neither the queue nor a packet in it is forgotten.
TxGoesOn == NoLostWakeup /\ PacketsLeave
=============================================================================
