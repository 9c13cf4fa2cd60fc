--------------------------------- MODULE Xsk --------------------------------
(***************************************************************************)
(* AF_XDP zero copy on one queue pair (ixgbe_xsk.c and the ring code of    *)
(* ixgbe_main.c it calls), for builds with MEM_TYPE_XSK_BUFF_POOL: the     *)
(* buffers of a socket's UMEM travel from the pool to the Rx ring, to the  *)
(* socket, back by its Tx queue through the XDP Tx ring, and are completed.*)
(*                                                                         *)
(* A buffer is in `pool` (allocatable), `user` (the application's), `txq`  *)
(* (queued for transmission), `flight` (peeked, completion owed, in order) *)
(* or in a slot of the Rx ring.  A Page slot of the Tx ring is a frame   *)
(* of the XDP program, which owns a page of its own.                       *)
(***************************************************************************)
EXTENDS Integers, Sequences, FiniteSets, FiniteSetsExt

CONSTANTS Bufs,         \* the UMEM's buffers
          NoBuf, Page,  \* no buffer; a page of the XDP program
          RxCount, TxCount,    \* descriptors per ring
          Write,        \* IXGBE_RX_BUFFER_WRITE
          Budget,       \* frames per poll, either way
          ActMod,       \* xdp_tx_active wraps here (u16)
          Rates,        \* atr_sample_rate where ATR is on, 0 where it is off
          Parts,        \* buffers the longest received frame takes
          Verdicts,     \* what the XDP program may answer
          MaxSetups     \* reconfigurations

VARIABLES xq,           \* prog, running, the af_xdp_zc_qps bit, ring->xsk_pool
          xrx, xtx,     \* the rings
          pool, user, txq, flight,
          poll,         \* where ixgbe_poll is
          xbad,         \* more frames completed than were sent
          twice,        \* a buffer freed twice
          rate, setups

xskvars == <<xq, xrx, xtx, pool, user, txq, flight, poll, xbad, twice, rate, setups>>

RxSlots == 0..(RxCount - 1)
TxSlots == 0..(TxCount - 1)

\* ixgbe_desc_unused
Unused(ring, count) ==
  (IF ring.ntc > ring.ntu THEN 0 ELSE count) + ring.ntc - ring.ntu - 1

FreshRx == [buf |-> [s \in RxSlots |-> NoBuf], discard |-> [s \in RxSlots |-> FALSE],
            desc |-> [s \in RxSlots |-> "empty"], ntu |-> 0, ntc |-> 0, tail |-> 0, head |-> 0,
            parts |-> 0]
FreshTx == [buf |-> [s \in TxSlots |-> NoBuf], rs |-> [s \in TxSlots |-> FALSE],
            dd |-> [s \in TxSlots |-> FALSE], ntu |-> 0, ntc |-> 0, tail |-> 0, head |-> 0,
            next_rs |-> 0, active |-> 0]

Idle == [stage |-> "idle", cleaned |-> 0, packets |-> 0, failure |-> FALSE, xmit |-> FALSE]

Init ==
  /\ xq = [prog |-> FALSE, running |-> TRUE, zc |-> FALSE, ring_pool |-> FALSE]
  /\ xrx = FreshRx /\ xtx = FreshTx
  /\ pool = Bufs /\ user = {} /\ txq = <<>> /\ flight = <<>>
  /\ poll = Idle /\ xbad = FALSE /\ twice = FALSE
  /\ rate \in Rates /\ setups = 0

-----------------------------------------------------------------------------
\* ixgbe_alloc_rx_buffers_zc: what the first n free slots get, as far as the
\* pool lasts; the length of the descriptor after the last one is zeroed.
AllocRx(rx, from, n) ==
  LET got  == [i \in 1..Min({n, Cardinality(from)}) |->
                 CHOOSE b \in from : Cardinality({c \in from : c < b}) = i - 1]
      k    == Len(got)
      slot(i) == (rx.ntu + i) % RxCount
      filled  == {slot(i) : i \in 0..(k - 1)}
      nth(s)  == CHOOSE i \in 0..(k - 1) : slot(i) = s
  IN [rx   |-> [rx EXCEPT
                  !.buf  = [s \in RxSlots |-> IF s \in filled THEN got[nth(s) + 1]
                                              ELSE IF k < n /\ s = slot(k) THEN NoBuf
                                              ELSE rx.buf[s]],
                  !.desc = [s \in RxSlots |-> IF s \in {slot(i) : i \in 1..k} THEN "empty"
                                              ELSE rx.desc[s]],
                  !.ntu  = slot(k), !.tail = slot(k)],
      pool |-> from \ {got[i] : i \in 1..k},
      ok   |-> k = n]

\* ixgbe_configure_tx_ring: next_rs_idx shares its bytes with
\* atr_sample_rate (low) and atr_count (high); descriptors are not cleared.
\* The rings here have less than 256 descriptors.
ConfigureTx(tx) ==
  [tx EXCEPT !.ntu = 0, !.ntc = 0, !.tail = 0, !.head = 0, !.next_rs = rate,
             !.buf = [s \in TxSlots |-> NoBuf]]

\* ixgbe_configure_rx_ring
ConfigureRx(rx) ==
  [rx EXCEPT !.ntu = 0, !.ntc = 0, !.tail = 0, !.head = 0, !.parts = 0,
             !.buf = [s \in RxSlots |-> NoBuf], !.discard = [s \in RxSlots |-> FALSE],
             !.desc = [@ EXCEPT ![0] = "empty"]]

\* The slots from next_to_clean on
Ahead(tx, n) == {(tx.ntc + i) % TxCount : i \in 0..(n - 1)}
Posted(tx)   == Ahead(tx, (tx.ntu + TxCount - tx.ntc) % TxCount)

\* ixgbe_clean_xdp_tx_buffer for the program's frames among slots S
Returned(tx, S) ==
  [tx EXCEPT !.buf = [s \in TxSlots |-> IF s \in S THEN NoBuf ELSE tx.buf[s]],
             !.active = (@ + ActMod - Cardinality({s \in S : tx.buf[s] = Page})) % ActMod]

\* xsk_tx_completed
Completed(n) ==
  /\ flight' = SubSeq(flight, n + 1, Len(flight))
  /\ user' = user \cup {flight[i] : i \in 1..Min({n, Len(flight)})}

\* ixgbe_txrx_ring_disable: both rings emptied.  Without a pool the frames of
\* the program go by ixgbe_clean_tx_ring, which does not count them down.
Emptied(tx) ==
  IF xq.ring_pool THEN Returned(tx, Posted(tx))
  ELSE [tx EXCEPT !.buf = [s \in TxSlots |-> NoBuf]]

OwedFrames(tx, S) == Cardinality({s \in S : tx.buf[s] \notin {Page, NoBuf}})

FromRx(rx) == {rx.buf[s] : s \in RxSlots} \ {NoBuf}

-----------------------------------------------------------------------------
\* The rings restarted with the pool of the queue, if the program and the
\* queue's bit ask for it (ixgbe_xsk_umem).
RestartWith(q, rx, tx, from) ==
  LET use == q.prog /\ q.zc
      a   == AllocRx(ConfigureRx(rx), from, RxCount - 1)
  IN /\ xq' = [q EXCEPT !.ring_pool = use /\ q.running]
     /\ xtx' = ConfigureTx(tx)
     /\ xrx' = IF use /\ q.running THEN a.rx ELSE ConfigureRx(rx)
     /\ pool' = IF use /\ q.running THEN a.pool ELSE from

\* ring_disable ... ring_enable around the change to q; rings stay what they
\* are when the interface does not run.
Reconfigure(q) ==
  IF xq.running /\ xq.prog
  THEN /\ Completed(IF xq.ring_pool THEN OwedFrames(xtx, Posted(xtx)) ELSE 0)
       /\ RestartWith(q, [xrx EXCEPT !.buf = [s \in RxSlots |-> NoBuf]], Emptied(xtx),
                      pool \cup FromRx(xrx))
  ELSE /\ xq' = q
       /\ UNCHANGED <<xrx, xtx, pool, flight, user>>

Setup == poll = Idle /\ setups < MaxSetups /\ setups' = setups + 1

UmemEnable ==
  /\ Setup /\ ~xq.zc
  /\ Reconfigure([xq EXCEPT !.zc = TRUE])
  /\ UNCHANGED <<txq, poll, xbad, twice, rate>>

UmemDisable ==
  /\ Setup /\ xq.zc
  /\ Reconfigure([xq EXCEPT !.zc = FALSE])
  /\ UNCHANGED <<txq, poll, xbad, twice, rate>>

\* ixgbe_close, ixgbe_open: descriptor memory is allocated anew, the ring
\* structures stay.  ixgbe_xdp_setup goes through ixgbe_setup_tc, which
\* allocates those too.
Reopen(q, renew) ==
  LET rx == FreshRx
      tx == IF renew THEN FreshTx
            ELSE [FreshTx EXCEPT !.next_rs = xtx.next_rs, !.active = Emptied(xtx).active]
  IN /\ Completed(IF xq.ring_pool THEN OwedFrames(xtx, Posted(xtx)) ELSE 0)
     /\ RestartWith(q, rx, tx, pool \cup FromRx(xrx))

IfChange ==
  /\ Setup
  /\ Reopen([xq EXCEPT !.running = ~@], FALSE)
  /\ UNCHANGED <<txq, poll, xbad, twice, rate>>

XdpSetup ==
  /\ Setup
  /\ Reopen([xq EXCEPT !.prog = ~@], TRUE)
  /\ UNCHANGED <<txq, poll, xbad, twice, rate>>

-----------------------------------------------------------------------------
\* ixgbe_clean_xdp_tx_irq: the frames before the last one that asked for a
\* report, once it is reported.
FramesReady(tx) ==
  IF tx.dd[tx.next_rs] THEN (tx.next_rs + TxCount - tx.ntc) % TxCount ELSE 0

Cleaned(tx) ==
  LET n == FramesReady(tx)
      t == IF tx.active = 0 THEN tx ELSE Returned(tx, Ahead(tx, n))
  IN [t EXCEPT !.ntc = (@ + n) % TxCount]

Reported(tx) ==
  IF tx.active = 0 THEN FramesReady(tx) ELSE OwedFrames(tx, Ahead(tx, FramesReady(tx)))

\* ixgbe_xmit_zc: k frames of the Tx queue posted, the last one with RS.
XmitZcEarly(tx, k) ==
  LET slot(i) == (tx.ntu + i - 1) % TxCount
      new == {slot(i) : i \in 1..k}
      nth(s) == CHOOSE i \in 1..k : slot(i) = s
  IN IF k = 0 THEN tx
     ELSE [tx EXCEPT !.buf = [s \in TxSlots |-> IF s \in new THEN txq[nth(s)] ELSE @[s]],
                     !.rs  = [s \in TxSlots |-> IF s \in new THEN s = slot(1) ELSE @[s]],
                     !.dd  = [s \in TxSlots |-> @[s] /\ s \notin new],
                     !.ntu = slot(k + 1), !.tail = slot(k + 1), !.next_rs = slot(k + 1)]

XmitZc(tx, k) ==
  LET slot(i) == (tx.ntu + i - 1) % TxCount
      new == {slot(i) : i \in 1..k}
      nth(s) == CHOOSE i \in 1..k : slot(i) = s
  IN IF k = 0 THEN tx
     ELSE [tx EXCEPT !.buf = [s \in TxSlots |-> IF s \in new THEN txq[nth(s)] ELSE @[s]],
                     !.rs  = [s \in TxSlots |-> IF s \in new THEN s = slot(k) ELSE @[s]],
                     !.dd  = [s \in TxSlots |-> @[s] /\ s \notin new],
                     !.ntu = slot(k + 1), !.tail = slot(k + 1), !.next_rs = slot(k)]

\* ixgbe_poll on a zero-copy queue: the Tx ring first, with or without carrier.
PollTx ==
  /\ poll = Idle /\ xq.ring_pool
  /\ \E carrier \in BOOLEAN :
       LET tx == Cleaned(xtx)
           n  == Reported(xtx)
           k  == IF carrier THEN Min({Budget, Unused(tx, TxCount), Len(txq)}) ELSE 0
       IN /\ xtx' = XmitZc(tx, k)
          /\ flight' = SubSeq(flight, n + 1, Len(flight)) \o SubSeq(txq, 1, k)
          /\ user' = user \cup {flight[i] : i \in 1..Min({n, Len(flight)})}
          /\ xbad' = (xbad \/ n > Len(flight))
          /\ txq' = SubSeq(txq, k + 1, Len(txq))
  /\ poll' = [Idle EXCEPT !.stage = "rx", !.cleaned = Unused(xrx, RxCount)]
  /\ UNCHANGED <<xq, xrx, pool, twice, rate, setups>>

\* The queue without a pool: ixgbe_clean_tx_irq on the program's frames, which
\* does not count them down.
CleanPlain ==
  /\ poll = Idle /\ ~xq.ring_pool
  /\ xtx.ntc /= xtx.ntu /\ xtx.dd[xtx.ntc]
  /\ xtx' = [xtx EXCEPT !.buf[xtx.ntc] = NoBuf, !.ntc = (@ + 1) % TxCount]
  /\ UNCHANGED <<xq, xrx, pool, user, txq, flight, poll, xbad, twice, rate, setups>>

\* ixgbe_xmit_xdp_ring and the tail written
PostXdp(tx) ==
  [tx EXCEPT !.buf[tx.ntu] = Page, !.rs[tx.ntu] = TRUE, !.dd[tx.ntu] = FALSE,
             !.active = (@ + 1) % ActMod, !.ntu = (@ + 1) % TxCount]

\* ixgbe_xdp_xmit: a frame redirected here from another device.
XdpXmit ==
  /\ poll = Idle /\ xq.prog /\ xq.running /\ "tx" \in Verdicts
  /\ Unused(xtx, TxCount) > 0
  /\ LET tx == PostXdp(xtx) IN xtx' = [tx EXCEPT !.tail = tx.ntu]
  /\ UNCHANGED <<xq, xrx, pool, user, txq, flight, poll, xbad, twice, rate, setups>>

-----------------------------------------------------------------------------
\* The refill at the head of each turn of ixgbe_clean_rx_irq_zc; after one
\* failure no other refill is tried in this poll.
Refilled ==
  IF poll.cleaned < Write THEN [rx |-> xrx, pool |-> pool, cleaned |-> poll.cleaned, failure |-> poll.failure]
  ELSE IF poll.failure THEN [rx |-> xrx, pool |-> pool, cleaned |-> 0, failure |-> TRUE]
  ELSE LET a == AllocRx(xrx, pool, poll.cleaned)
       IN [rx |-> a.rx, pool |-> a.pool, cleaned |-> 0, failure |-> ~a.ok]

IncNtc(rx) == [rx EXCEPT !.ntc = (@ + 1) % RxCount]

\* The end of the poll: the tail of the XDP ring when frames were posted.
PollDone(tx) ==
  /\ poll' = Idle
  /\ xtx' = IF poll.xmit THEN [tx EXCEPT !.tail = tx.ntu] ELSE tx

\* ixgbe_run_xdp_zc: what comes of the program's verdict.
RunXdpZc(act) ==
  CASE act = "tx"  -> IF Unused(xtx, TxCount) > 0 THEN "sent" ELSE "full"
    [] act \in {"pass", "redirect"} -> act
    [] OTHER       -> "consumed"

RxTurn ==
  /\ poll.stage = "rx" /\ poll.packets < Budget
  /\ LET f  == Refilled
         rx == f.rx
         s  == rx.ntc
         b  == rx.buf[s]
         gone == [rx EXCEPT !.buf[s] = NoBuf]
         next == (s + 1) % RxCount
         on == [poll EXCEPT !.cleaned = f.cleaned, !.failure = f.failure]
         counted == [on EXCEPT !.cleaned = @ + 1, !.packets = @ + 1]
     IN \/ /\ rx.desc[s] = "empty"
           /\ PollDone(xtx)
           /\ xrx' = rx /\ pool' = f.pool
           /\ UNCHANGED <<user, twice>>
        \/ /\ rx.desc[s] = "more"
           /\ xrx' = [IncNtc(gone) EXCEPT !.discard[next] = TRUE]
           /\ pool' = f.pool \cup {b} /\ twice' = (twice \/ b \in f.pool)
           /\ poll' = on
           /\ UNCHANGED <<xtx, user>>
        \/ /\ rx.desc[s] = "eop" /\ rx.discard[s]
           /\ xrx' = [IncNtc(gone) EXCEPT !.discard[s] = FALSE]
           /\ pool' = f.pool \cup {b} /\ twice' = (twice \/ b \in f.pool)
           /\ poll' = on
           /\ UNCHANGED <<xtx, user>>
        \/ /\ rx.desc[s] = "eop" /\ ~rx.discard[s]
           /\ \E res \in {RunXdpZc(act) : act \in Verdicts} :
                \/ /\ res \in {"consumed", "pass"}     \* dropped, or copied to an skb
                   /\ xrx' = IncNtc(gone)
                   /\ pool' = f.pool \cup {b} /\ twice' = (twice \/ b \in f.pool)
                   /\ poll' = counted
                   /\ UNCHANGED <<xtx, user>>
                \/ /\ res = "pass"                 \* no skb: left for the next poll
                   /\ xrx' = rx /\ pool' = f.pool
                   /\ PollDone(xtx)
                   /\ UNCHANGED <<user, twice>>
                \/ /\ res = "redirect"
                   /\ xrx' = IncNtc(gone)
                   /\ user' = user \cup {b} /\ pool' = f.pool
                   /\ poll' = counted
                   /\ UNCHANGED <<xtx, twice>>
                \* converting to a frame copies the data and frees the buffer
                \/ /\ res = "sent"
                   /\ xrx' = IncNtc(gone)
                   /\ xtx' = PostXdp(xtx)
                   /\ pool' = f.pool \cup {b}
                   /\ poll' = [counted EXCEPT !.xmit = TRUE]
                   /\ UNCHANGED <<user, twice>>
                \* ... and with the ring full it is freed once more
                \/ /\ res = "full"
                   /\ xrx' = IncNtc(gone)
                   /\ pool' = f.pool \cup {b} /\ twice' = TRUE
                   /\ poll' = counted
                   /\ UNCHANGED <<xtx, user>>
  /\ UNCHANGED <<xq, txq, flight, xbad, rate, setups>>

RxBudget ==
  /\ poll.stage = "rx" /\ poll.packets >= Budget
  /\ PollDone(xtx)
  /\ UNCHANGED <<xq, xrx, pool, user, txq, flight, xbad, twice, rate, setups>>

-----------------------------------------------------------------------------
\* The device: descriptors up to the tail, in order; a report where asked.
TxHw ==
  /\ xtx.head /= xtx.tail
  /\ xtx' = [xtx EXCEPT !.dd[xtx.head] = xtx.rs[xtx.head], !.head = (@ + 1) % TxCount]
  /\ UNCHANGED <<xq, xrx, pool, user, txq, flight, poll, xbad, twice, rate, setups>>

RxHw ==
  /\ xrx.head /= xrx.tail
  /\ \E kind \in IF xrx.parts < Parts - 1 THEN {"more", "eop"} ELSE {"eop"} :
       xrx' = [xrx EXCEPT !.desc[xrx.head] = kind, !.head = (@ + 1) % RxCount,
                          !.parts = IF kind = "more" THEN @ + 1 ELSE 0]
  /\ UNCHANGED <<xq, xtx, pool, user, txq, flight, poll, xbad, twice, rate, setups>>

\* The application: returns a buffer to the pool, or queues it.
UserFill ==
  \E b \in user :
    /\ user' = user \ {b} /\ pool' = pool \cup {b}
    /\ UNCHANGED <<xq, xrx, xtx, txq, flight, poll, xbad, twice, rate, setups>>

UserSend ==
  \E b \in user :
    /\ user' = user \ {b} /\ txq' = Append(txq, b)
    /\ UNCHANGED <<xq, xrx, xtx, pool, flight, poll, xbad, twice, rate, setups>>

Next ==
  \/ UmemEnable \/ UmemDisable \/ IfChange \/ XdpSetup
  \/ PollTx \/ CleanPlain \/ XdpXmit \/ RxTurn \/ RxBudget
  \/ TxHw \/ RxHw \/ UserFill \/ UserSend

Spec == Init /\ [][Next]_xskvars

-----------------------------------------------------------------------------
Places(b) ==
  (IF b \in pool THEN 1 ELSE 0) + (IF b \in user THEN 1 ELSE 0)
    + Cardinality({i \in DOMAIN txq : txq[i] = b}) + Cardinality({i \in DOMAIN flight : flight[i] = b})
    + Cardinality({s \in RxSlots : xrx.buf[s] = b})

\* Zero copy never loses or doubles a buffer: each is in exactly one place,
\* no more frames are completed than were taken from the Tx queue, and a
\* frame the device may still read is not yet completed to the application.
BuffersKept ==
  /\ ~xbad
  /\ \A b \in Bufs : Places(b) = 1
  /\ \A i \in 0..(((xtx.tail + TxCount - xtx.head) % TxCount) - 1) :
       LET b == xtx.buf[(xtx.head + i) % TxCount]
       IN b = Page \/ \E j \in DOMAIN flight : flight[j] = b

\* A buffer is given back to the pool once.
FreedOnce == ~twice

\* A received frame is discarded only when it is the end of one that did not
\* fit its first buffer.
DiscardsEnds == \A s \in RxSlots : xrx.discard[s] => s = xrx.ntc
=============================================================================
