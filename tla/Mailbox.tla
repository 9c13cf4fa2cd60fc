------------------------------ MODULE Mailbox -------------------------------
(***************************************************************************)
(* The mailbox between the PF driver and one VF: 16 words of memory (here  *)
(* two), an ownership bit per side, and request, status and acknowledge    *)
(* bits.  The PF side runs in the mailbox interrupt (ixgbe_msg_task) and   *)
(* in the threads that ping VFs (the watchdog on a link change, the ndo    *)
(* callbacks that restart a VF).  The VF side is the VF half of            *)
(* ixgbe_mbx.c, used by a VF driver that sends one request at a time and   *)
(* waits for an answer.                                                    *)
(***************************************************************************)
EXTENDS Naturals

CONSTANTS
    MaxReq,     \* bound on the requests of the VF
    MaxEvents,  \* bound on pings, malicious driver events and VF resets
    Kinds,      \* the requests the VF makes
    Faults,     \* what may go wrong
    Overlap     \* a ping may run at the same time as ixgbe_msg_task; when
                \* FALSE only the schedules in which they do not are explored

ASSUME MailboxAssumption ==
    /\ MaxReq \in Nat /\ MaxEvents \in Nat /\ Overlap \in BOOLEAN
    /\ Kinds \subseteq {"reset", "cfg", "lpe"}
    /\ Faults \subseteq {"flr", "mdd", "timeout", "clear"}

VARIABLES
    pfu, vfu,    \* PFU and VFU: the side owns the buffer
    req, ack,    \* PFMBICR.VFREQ and VFACK, latched for the PF
    sts, pfack,  \* PFSTS and PFACK, as the VF driver sees them
    flr,         \* PFVFLRE: the VF was reset
    intr,        \* EICR.MAILBOX is pending
    mem,         \* the two words of VFMBMEM
    cts,         \* vfinfo->clear_to_send
    pc,          \* where each thread is
    buf,         \* the message each thread sends or has read
    after,       \* a PF thread's mailbox access, and where it goes then
    sent,        \* requests the VF has made so far
    applied,     \* requests the PF has carried out
    quit,        \* what has made a side give up a message so far
    events       \* pings, malicious driver events and VF resets so far

bits == <<req, ack, sts, pfack, flr, intr>>
vars == <<pfu, vfu, bits, mem, cts, pc, buf, after, sent, applied, quit,
          events>>

PF == {"irq", "ping"}
Threads == PF \cup {"vf"}

\* A word says which message it is part of, by its operation and the number
\* of the VF request it makes or answers.
Msg(op, n) == [op |-> op, n |-> n]
Zero == Msg("zero", 0)

\* "this is a message we already processed": SUCCESS or FAILURE is set.
Answers == {"success", "failure", "refused", "nak"}

\* Messages written with size 1, which leave the other words alone.
OneWord == {"ping", "refused", "nak"}
ShortSuccess(m) == m.op \in OneWord \cup {"success"}
Short(m) == m.op \in OneWord

Init ==
    /\ pfu = FALSE /\ vfu = FALSE
    /\ req = FALSE /\ ack = FALSE
    /\ sts = FALSE /\ pfack = FALSE
    /\ flr = FALSE /\ intr = FALSE
    /\ mem = <<Zero, Zero>>
    /\ cts = FALSE
    /\ pc = [t \in Threads |-> "idle"]
    /\ buf = [t \in Threads |-> <<Zero, Zero>>]
    /\ after = [t \in PF |-> [job |-> "write", pc |-> "idle"]]
    /\ sent = 0
    /\ applied = {}
    /\ quit = {}
    /\ events = 0

Goto(t, l) == pc' = [pc EXCEPT ![t] = l]

\* A PF thread calls ixgbe_write_mbx or ixgbe_read_mbx and goes on at l.
Write(t, m, l) ==
    /\ Goto(t, "probe")
    /\ buf' = [buf EXCEPT ![t] = <<m, m>>]
    /\ after' = [after EXCEPT ![t] = [job |-> "write", pc |-> l]]

Read(t, l) ==
    /\ Goto(t, "probe")
    /\ after' = [after EXCEPT ![t] = [job |-> "read", pc |-> l]]
    /\ UNCHANGED buf
-----------------------------------------------------------------------------
(* ixgbe_mbx.c, PF side.  ixgbe_obtain_mbx_lock_pf: *)

\* "Check if other thread holds the PF lock already".
Probe(t) ==
    /\ pc[t] = "probe"
    /\ ~pfu
    /\ Goto(t, "claim")
    /\ UNCHANGED <<pfu, vfu, bits, mem, cts, buf, after, sent, applied, quit,
                   events>>

\* The hardware grants PFU unless the VF owns the buffer.
Claim(t) ==
    /\ pc[t] = "claim"
    /\ pfu' = (pfu \/ ~vfu)
    /\ Goto(t, "verify")
    /\ UNCHANGED <<vfu, bits, mem, cts, buf, after, sent, applied, quit,
                   events>>

\* "Verify that PF is the owner of the lock", or wait and try again.
OwnerAnyway == TRUE
Owner == pfu

Verify(t) ==
    /\ pc[t] = "verify"
    /\ Goto(t, IF ~Owner THEN "probe"
               ELSE IF after[t].job = "write" THEN "flush" ELSE "get1")
    /\ UNCHANGED <<pfu, vfu, bits, mem, cts, buf, after, sent, applied, quit,
                   events>>

\* The countdown ends while the buffer is taken.  A read that failed leaves
\* its message alone.
LockTimeout(t) ==
    /\ "timeout" \in Faults
    /\ pc[t] = "probe"
    /\ pfu \/ vfu
    /\ Goto(t, IF after[t].job = "write" THEN after[t].pc ELSE "ack")
    /\ quit' = quit \cup {"timeout"}
    /\ UNCHANGED <<pfu, vfu, bits, mem, cts, buf, after, sent, applied, events>>

\* ixgbe_write_mbx_pf_legacy: "flush msg and acks as we are overwriting the
\* message buffer".
Flush(t) ==
    /\ pc[t] = "flush"
    /\ req' = FALSE /\ ack' = FALSE
    /\ Goto(t, "put1")
    /\ UNCHANGED <<pfu, vfu, sts, pfack, flr, intr, mem, cts, buf, after,
                   sent, applied, quit, events>>

Put(t) ==
    /\ pc[t] \in {"put1", "put2"}
    /\ LET i == IF pc[t] = "put1" THEN 1 ELSE 2
       IN mem' = [mem EXCEPT ![i] = buf[t][i]]
    /\ Goto(t, IF pc[t] = "put1" /\ ~Short(buf[t][1]) THEN "put2" ELSE "send")
    /\ UNCHANGED <<pfu, vfu, bits, cts, buf, after, sent, applied, quit,
                   events>>

\* PFMAILBOX = STS: tells the VF and gives the buffer back in one write.
Send(t) ==
    /\ pc[t] = "send"
    /\ sts' = TRUE
    /\ pfu' = FALSE
    /\ Goto(t, after[t].pc)
    /\ UNCHANGED <<vfu, req, ack, pfack, flr, intr, mem, cts, buf, after,
                   sent, applied, quit, events>>

\* ixgbe_read_mbx_pf_legacy; it does not clear VFREQ.
Get(t) ==
    /\ pc[t] \in {"get1", "get2"}
    /\ LET i == IF pc[t] = "get1" THEN 1 ELSE 2
       IN buf' = [buf EXCEPT ![t][i] = mem[i]]
    /\ Goto(t, IF pc[t] = "get1" THEN "get2" ELSE "got")
    /\ UNCHANGED <<pfu, vfu, bits, mem, cts, after, sent, applied, quit,
                   events>>

Acknowledge(t) ==
    /\ pc[t] = "got"
    /\ pfack' = TRUE
    /\ pfu' = FALSE
    /\ Goto(t, after[t].pc)
    /\ UNCHANGED <<vfu, req, ack, sts, flr, intr, mem, cts, buf, after, sent,
                   applied, quit, events>>
-----------------------------------------------------------------------------
(* ixgbe_mbx.c, VF side *)

\* The VF driver makes its next request.
VfRequest ==
    /\ pc["vf"] = "idle"
    /\ sent < MaxReq
    /\ sent' = sent + 1
    /\ \E k \in Kinds :
           buf' = [buf EXCEPT !["vf"] = <<Msg(k, sent + 1), Msg(k, sent + 1)>>]
    /\ Goto("vf", "lock_put")
    /\ UNCHANGED <<pfu, vfu, bits, mem, cts, after, applied, quit, events>>

\* ixgbe_obtain_mbx_lock_vf: the hardware grants VFU unless the PF owns the
\* buffer.
VfLock ==
    /\ pc["vf"] \in {"lock_put", "lock_get"}
    /\ ~pfu
    /\ vfu' = TRUE
    /\ Goto("vf", IF pc["vf"] = "lock_put" THEN "flush" ELSE "get1")
    /\ UNCHANGED <<pfu, bits, mem, cts, buf, after, sent, applied, quit,
                   events>>

\* ixgbe_write_mbx_vf_legacy flushes, copies (Put) and sends.
StatusKept == sts
StatusFlushed == FALSE

VfFlush ==
    /\ pc["vf"] = "flush"
    /\ sts' = StatusFlushed /\ pfack' = FALSE
    /\ Goto("vf", "put1")
    /\ UNCHANGED <<pfu, vfu, req, ack, flr, intr, mem, cts, buf, after, sent,
                   applied, quit, events>>

\* VFMAILBOX = REQ: interrupts the PF and gives the buffer back.
VfSend ==
    /\ pc["vf"] = "send"
    /\ req' = TRUE /\ intr' = TRUE
    /\ vfu' = FALSE
    /\ Goto("vf", "wait")
    /\ UNCHANGED <<pfu, ack, sts, pfack, flr, mem, cts, buf, after, sent,
                   applied, quit, events>>

\* ixgbe_poll_for_msg.
VfPoll ==
    /\ pc["vf"] = "wait"
    /\ sts
    /\ Goto("vf", "lock_get")
    /\ UNCHANGED <<pfu, vfu, bits, mem, cts, buf, after, sent, applied, quit,
                   events>>

\* The end of ixgbe_read_mbx_vf_legacy, VFMAILBOX = ACK.
VfAcknowledge ==
    /\ pc["vf"] = "got"
    /\ ack' = TRUE /\ intr' = TRUE
    /\ vfu' = FALSE
    /\ Goto("vf", "idle")
    /\ UNCHANGED <<pfu, req, sts, pfack, flr, mem, cts, buf, after, sent,
                   applied, quit, events>>

\* The countdown of a poll or of the lock ends.
VfTimeout ==
    /\ "timeout" \in Faults
    /\ pc["vf"] \in {"wait", "lock_put", "lock_get"}
    /\ Goto("vf", "idle")
    /\ quit' = quit \cup {"timeout"}
    /\ UNCHANGED <<pfu, vfu, bits, mem, cts, buf, after, sent, applied, events>>

\* A function level reset of the VF: its driver starts again.
Flr ==
    /\ "flr" \in Faults
    /\ events < MaxEvents
    /\ events' = events + 1
    /\ flr' = TRUE /\ intr' = TRUE
    /\ vfu' = FALSE /\ sts' = FALSE /\ pfack' = FALSE
    /\ Goto("vf", "idle")
    /\ quit' = quit \cup {"flr"}
    /\ UNCHANGED <<pfu, req, ack, mem, cts, buf, after, sent, applied>>
-----------------------------------------------------------------------------
(* ixgbe_sriov.c *)

\* ixgbe_msg_task, with ixgbe_check_mdd_event: a malicious driver event
\* restarts the VF before anything else is looked at.
MsgTask ==
    /\ pc["irq"] = "idle"
    /\ intr
    /\ Overlap \/ pc["ping"] = "idle"
    /\ intr' = FALSE
    /\ \/ /\ Goto("irq", "rst")
          /\ UNCHANGED <<cts, buf, after, events>>
       \/ /\ "mdd" \in Faults
          /\ events < MaxEvents
          /\ events' = events + 1
          /\ cts' = FALSE
          /\ Write("irq", Msg("ping", 0), "rst")
    /\ UNCHANGED <<pfu, vfu, req, ack, sts, pfack, flr, mem, sent, applied,
                   quit>>

\* ixgbe_vf_reset_event: on an X550 or later ("clear") it clears the mailbox
\* memory, without the lock.  clear_to_send stays.
ResetEvent(happens) ==
    mem' = IF happens /\ "clear" \in Faults THEN <<Zero, Zero>> ELSE mem

CheckRst ==
    /\ pc["irq"] = "rst"
    /\ flr' = FALSE
    /\ ResetEvent(flr)
    /\ Goto("irq", "msg")
    /\ UNCHANGED <<pfu, vfu, req, ack, sts, pfack, intr, cts, buf, after,
                   sent, applied, quit, events>>

CheckMsg ==
    /\ pc["irq"] = "msg"
    /\ IF req THEN Read("irq", "handle")
              ELSE Goto("irq", "ack") /\ UNCHANGED <<buf, after>>
    /\ UNCHANGED <<pfu, vfu, bits, mem, cts, sent, applied, quit, events>>

\* ixgbe_rcv_msg_from_vf after its read.  An answer is not answered, and a
\* frame size out of range ("lpe") returns before the reply.
Received == buf["irq"][1]

UnansweredCfg(m) == m.op \in Answers \/ (m.op \in {"lpe", "cfg"} /\ cts)
UnansweredEarly(m) == m.op \in Answers \/ m.op = "lpe" \/ ~cts
Unanswered(m) == m.op \in Answers \/ (m.op = "lpe" /\ cts)

CarriedOutDefault(m) == m.op = "reset" \/ (m.op # "lpe" /\ cts)
CarriedOut(m) == m.op = "reset" \/ (m.op = "cfg" /\ cts)

\* "until the vf completes a virtual function reset it should not be allowed
\* to start any configuration".
Results(m) == IF m.op = "reset" \/ cts THEN {"success", "failure"}
                                       ELSE {"refused"}

ReplyTo(m) ==
    IF Unanswered(m)
    THEN Goto("irq", "ack") /\ UNCHANGED <<buf, after>>
    ELSE \E r \in Results(m) : Write("irq", Msg(r, m.n), "ack")

Handle ==
    /\ pc["irq"] = "handle"
    /\ cts' = (cts \/ Received.op = "reset")
    /\ applied' = applied \cup
                    (IF CarriedOut(Received) THEN {Received.n} ELSE {})
    /\ ResetEvent(Received.op = "reset")
    /\ ReplyTo(Received)
    /\ UNCHANGED <<pfu, vfu, bits, sent, quit, events>>

\* ixgbe_check_for_ack and ixgbe_rcv_ack_from_vf: "if device isn't clear to
\* send it shouldn't be reading either".
CheckAck ==
    /\ pc["irq"] = "ack"
    /\ ack' = FALSE
    /\ IF ack /\ ~cts
       THEN Write("irq", Msg("nak", 0), "idle")
       ELSE Goto("irq", "idle") /\ UNCHANGED <<buf, after>>
    /\ UNCHANGED <<pfu, vfu, req, sts, pfack, flr, intr, mem, cts, sent,
                   applied, quit, events>>

\* ixgbe_ping_all_vfs and ixgbe_ping_vf, after ixgbe_ndo_set_vf_trust,
\* ixgbe_set_vf_link_state or ixgbe_down may have cleared clear_to_send.
Ping ==
    /\ pc["ping"] = "idle"
    /\ events < MaxEvents
    /\ events' = events + 1
    /\ Overlap \/ pc["irq"] = "idle"
    /\ cts' \in {cts, FALSE}
    /\ Write("ping", Msg("ping", 0), "idle")
    /\ UNCHANGED <<pfu, vfu, bits, mem, sent, applied, quit>>
-----------------------------------------------------------------------------
PfStep(t) == \/ Probe(t) \/ Claim(t) \/ Verify(t) \/ LockTimeout(t)
             \/ Flush(t) \/ Send(t) \/ Acknowledge(t)

VfStep == VfLock \/ VfFlush \/ VfSend \/ VfPoll \/ VfAcknowledge

MsgTaskStep == MsgTask \/ CheckRst \/ CheckMsg \/ Handle \/ CheckAck

Next ==
    \/ \E t \in PF : PfStep(t)
    \/ \E t \in Threads : Put(t) \/ Get(t)
    \/ VfRequest \/ VfStep \/ VfTimeout \/ Flr
    \/ MsgTaskStep \/ Ping

Spec == Init /\ [][Next]_vars

\* Both drivers go on with what they have begun, and the mailbox interrupt is
\* delivered.  Nothing makes the VF ask, the watchdog ping or a wait time out.
Fairness ==
    /\ \A t \in PF : /\ WF_vars(Probe(t) \/ Claim(t) \/ Verify(t))
                     /\ WF_vars(Flush(t) \/ Send(t) \/ Acknowledge(t))
    /\ \A t \in Threads : WF_vars(Put(t) \/ Get(t))
    /\ WF_vars(VfStep)
    /\ WF_vars(MsgTaskStep)

FairSpec == Spec /\ Fairness
-----------------------------------------------------------------------------
(* Properties *)

PCs == {"idle", "probe", "claim", "verify", "flush", "put1", "put2", "send",
        "get1", "get2", "got", "rst", "msg", "handle", "ack"}
VfPCs == {"idle", "lock_put", "lock_get", "flush", "put1", "put2", "send",
          "wait", "get1", "get2", "got"}

Messages == [op : {"zero", "reset", "cfg", "lpe", "ping"} \cup Answers,
             n : 0 .. MaxReq]

TypeOK ==
    /\ pfu \in BOOLEAN /\ vfu \in BOOLEAN
    /\ req \in BOOLEAN /\ ack \in BOOLEAN
    /\ sts \in BOOLEAN /\ pfack \in BOOLEAN
    /\ flr \in BOOLEAN /\ intr \in BOOLEAN
    /\ mem \in [1 .. 2 -> Messages]
    /\ cts \in BOOLEAN
    /\ pc \in [Threads -> PCs \cup VfPCs]
    /\ \A t \in PF : pc[t] \in PCs
    /\ pc["vf"] \in VfPCs
    /\ buf \in [Threads -> [1 .. 2 -> Messages]]
    /\ after \in [PF -> [job : {"read", "write"}, pc : PCs]]
    /\ sent \in 0 .. MaxReq
    /\ applied \subseteq 1 .. MaxReq
    /\ quit \subseteq {"timeout", "flr"}
    /\ events \in 0 .. MaxEvents

\* A thread is between obtaining the lock and giving it back.
Inside(t) == pc[t] \in {"flush", "put1", "put2", "send", "get1", "get2", "got"}

\* "lock the mailbox to prevent pf/vf race condition": the PF and the VF are
\* never in the buffer together.
Exclusive == \A t \in PF : ~(Inside(t) /\ Inside("vf"))

\* Words that ixgbe_vf_reset_event has cleared are of no message.
Whole(b) == b[1].op \in OneWord \/ b[1] = Zero \/ b[2] \in {b[1], Zero}

\* A message that was read is one that was written: its words are never from
\* two messages, whatever timed out.  A VF reset in the middle of a write may
\* leave a part of a message.
WholeMessages ==
    \A t \in Threads : pc[t] = "got" /\ "flr" \notin quit => Whole(buf[t])

\* The result the VF driver gets is the result of its own request, as long
\* as neither side has given up waiting before.
ReplyIsMine ==
    (pc["vf"] = "got" /\ quit = {} /\ buf["vf"][1].op \in Answers \ {"nak"})
        => buf["vf"][1].n = sent

\* No request is carried out twice, although reading a message does not clear
\* VFREQ: only the answer does, and one that timed out leaves it set.
AppliedOnce ==
    pc["irq"] = "handle" /\ CarriedOut(Received) /\ "timeout" \notin quit
        => Received.n \notin applied

\* What the lock and the handshake of the mailbox are for, all together: one
\* side at a time in the buffer, messages read as they were written, an answer
\* for the request it answers, a request carried out once.
MessagesSound == Exclusive /\ WholeMessages /\ ReplyIsMine /\ AppliedOnce

\* The VF gets an answer to every request, unless a side gave up waiting or
\* the request had a frame size out of range.
Answered ==
    []<>(pc["vf"] # "wait" \/ buf["vf"][1].op = "lpe" \/ quit # {})

=============================================================================
