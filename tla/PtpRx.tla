-------------------------------- MODULE PtpRx -------------------------------
(***************************************************************************)
(* Timestamps of received packets.                                         *)
(*                                                                         *)
(* "register" (ixgbe_ptp.c, 82599 and X540): one register, latched until   *)
(* it is read; the watchdog ixgbe_ptp_rx_hang reads it when the packet     *)
(* was dropped.                                                            *)
(* "phy" (ixgbe_ptp_e600.c, E610): the PHY reports a stamp by interrupt,   *)
(* before or after the packet comes out of the ring; whichever is first    *)
(* waits in a list for the other, at most 500 ms.                          *)
(***************************************************************************)
EXTENDS Naturals, Sequences, SequencesExt

CONSTANTS
    Seqs          \* the packets, by their PTP sequence id

VARIABLES
    how,          \* "register" or "phy"
    rxvalid,      \* IXGBE_TSYNCRXCTL_VALID
    rxlost,       \* the packet of that stamp was dropped
    rxold,        \* five seconds since the last Rx event of the watchdog
    pkt,          \* on the wire, about to be held, in q_vector->ptp_skbs_e600,
                  \* up the stack, or lost
    stamped,      \* packets of the list with a stamp
    pktold,       \* packets in the list for 500 ms
    reports,      \* stamps that the PHY has yet to report
    intr,         \* the stamp the interrupt handler found no packet for
    rx_tstamps    \* adapter->ptp.rx_tstamps

reg == <<rxvalid, rxlost, rxold>>
list == <<pkt, stamped, pktold>>
vars == <<how, reg, list, reports, intr, rx_tstamps>>

NoSeq == 0
Stamp == [seq : Seqs, old : BOOLEAN]

TypeOK ==
    /\ how \in {"register", "phy"}
    /\ {rxvalid, rxlost, rxold} \subseteq BOOLEAN
    /\ pkt \in [Seqs -> {"wire", "hold", "list", "up", "lost"}]
    /\ stamped \subseteq Seqs /\ pktold \subseteq Seqs /\ reports \subseteq Seqs
    /\ intr \in Seqs \cup {NoSeq}
    /\ rx_tstamps \in Seq(Stamp)

Init ==
    /\ how \in {"register", "phy"}
    /\ rxvalid = FALSE /\ rxlost = FALSE /\ rxold = FALSE
    /\ pkt = [s \in Seqs |-> "wire"]
    /\ stamped = {} /\ pktold = {} /\ reports = Seqs /\ intr = NoSeq
    /\ rx_tstamps = <<>>

-----------------------------------------------------------------------------
(* The register                                                            *)

\* The hardware latches the stamp of a packet that is received, or dropped
\* because the ring is full.
RxLatch ==
    /\ how = "register" /\ ~rxvalid
    /\ rxvalid' = TRUE
    /\ rxlost' \in BOOLEAN
    /\ UNCHANGED <<how, rxold, list, reports, intr, rx_tstamps>>

\* ixgbe_ptp_rx_hwtstamp and ixgbe_ptp_rx_rgtstamp: last_rx_timestamp is now
RxTake ==
    /\ rxvalid /\ ~rxlost
    /\ rxvalid' = FALSE /\ rxold' = FALSE
    /\ UNCHANGED <<how, rxlost, list, reports, intr, rx_tstamps>>

RxAge ==
    /\ rxvalid /\ ~rxold
    /\ rxold' = TRUE
    /\ UNCHANGED <<how, rxvalid, rxlost, list, reports, intr, rx_tstamps>>

\* ixgbe_ptp_rx_hang
RxHang ==
    /\ rxvalid /\ rxold
    /\ rxvalid' = FALSE
    /\ rxold' = FALSE
    /\ UNCHANGED <<how, rxlost, list, reports, intr, rx_tstamps>>

-----------------------------------------------------------------------------
(* The PHY of the E610                                                     *)

Move(s, w) == pkt' = [pkt EXCEPT ![s] = w]
Fresh(st) == ~st.old

\* ixgbe_ptp_rx_phytstamp_e600: stale stamps are flushed on the way to the
\* one that matches
RxPhyStamp(s) ==
    LET hits == {i \in DOMAIN rx_tstamps : rx_tstamps[i] = [seq |-> s, old |-> FALSE]}
        hit == CHOOSE i \in hits : \A j \in hits : i <= j
    IN  /\ how = "phy" /\ pkt[s] = "wire"
        /\ IF hits = {}
           THEN Move(s, "hold") /\ rx_tstamps' = SelectSeq(rx_tstamps, Fresh)
           ELSE /\ Move(s, "up")
                /\ rx_tstamps' =
                     SelectSeq(SubSeq(rx_tstamps, 1, hit - 1), Fresh)
                     \o SubSeq(rx_tstamps, hit + 1, Len(rx_tstamps))
        /\ UNCHANGED <<how, reg, stamped, pktold, reports, intr>>

\* list_add_tail, unless kzalloc fails and the packet is forgotten
RxHold(s) ==
    /\ pkt[s] = "hold"
    /\ Move(s, "list") \/ Move(s, "lost")
    /\ UNCHANGED <<how, reg, stamped, pktold, reports, intr, rx_tstamps>>

\* ixgbe_ptp_fw_intr_e600 and ixgbe_ptp_rx_find_skb_e600
FwIntr(s) ==
    /\ how = "phy" /\ s \in reports /\ intr = NoSeq
    /\ reports' = reports \ {s}
    /\ IF pkt[s] = "list"
       THEN stamped' = stamped \cup {s} /\ intr' = NoSeq
       ELSE stamped' = stamped /\ intr' = s
    /\ UNCHANGED <<how, reg, pkt, pktold, rx_tstamps>>

\* "If not found, cache the timestamp"; -ENOMEM
FwCache ==
    /\ intr # NoSeq
    /\ intr' = NoSeq
    /\ \/ rx_tstamps' = Append(rx_tstamps, [seq |-> intr, old |-> FALSE])
       \/ rx_tstamps' = rx_tstamps
    /\ UNCHANGED <<how, reg, list, reports>>

PktAge(s) ==
    /\ pkt[s] = "list" /\ s \notin pktold
    /\ pktold' = pktold \cup {s}
    /\ UNCHANGED <<how, reg, pkt, stamped, reports, intr, rx_tstamps>>

StampAge ==
    /\ \E i \in DOMAIN rx_tstamps :
        /\ ~rx_tstamps[i].old
        /\ rx_tstamps' = [rx_tstamps EXCEPT ![i].old = TRUE]
    /\ UNCHANGED <<how, reg, list, reports, intr>>

\* ixgbe_ptp_rx_complete_skb_e600, one entry of the list: flushed after
\* 500 ms, sent up once it has its stamp, and kept otherwise.  The poll runs
\* again at least whenever the service task rearms the queues.
OnlyStamped(s) == s \in stamped
Leaves(s) == s \in pktold \cup stamped

CompleteSkb(s) ==
    /\ pkt[s] = "list"
    /\ Leaves(s)
    /\ Move(s, IF s \in pktold THEN "lost" ELSE "up")
    /\ stamped' = stamped \ {s} /\ pktold' = pktold \ {s}
    /\ UNCHANGED <<how, reg, reports, intr, rx_tstamps>>

Next ==
    \/ RxLatch \/ RxTake \/ RxAge \/ RxHang
    \/ \E s \in Seqs : RxPhyStamp(s) \/ RxHold(s) \/ FwIntr(s) \/ PktAge(s)
                       \/ CompleteSkb(s)
    \/ FwCache \/ StampAge

Fairness ==
    /\ WF_vars(RxTake) /\ WF_vars(RxAge) /\ WF_vars(RxHang) /\ WF_vars(FwCache)
    /\ \A s \in Seqs : /\ WF_vars(RxHold(s)) /\ WF_vars(PktAge(s))
                       /\ WF_vars(CompleteSkb(s))

Spec == Init /\ [][Next]_vars /\ Fairness

-----------------------------------------------------------------------------
\* A latched stamp of a dropped packet ("leaves the device in a state unable to
\* timestamp any future packets") is cleared; and however the packet and its
\* stamp pass each other between the two lists and their two locks, a packet
\* does not wait for ever ("removed after 500 ms timeout").
RxStampsLeave ==
    /\ []<>~rxvalid
    /\ \A s \in Seqs : []<>(pkt[s] # "list")

=============================================================================
