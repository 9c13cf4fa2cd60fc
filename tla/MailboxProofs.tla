--------------------------- MODULE MailboxProofs ----------------------------
(***************************************************************************)
(* The mailbox, for any number of messages: the types, the lock, that      *)
(* messages are read whole, and the dialogue of PF and VF.                 *)
(***************************************************************************)
EXTENDS Mailbox, TLAPS

\* Most steps are first-order; those that count or compare records name SMT.
USE ZenonT(30)

Requests == {"reset", "cfg", "lpe"}
Results3 == {"success", "failure", "refused"}

-----------------------------------------------------------------------------
(* Types.  Every word is of a request that was made, or of no request.     *)

Numbered(m) == m.n <= sent /\ (m.op \in Requests => m.n >= 1)

Typed ==
    /\ TypeOK
    /\ \A i \in 1 .. 2 : Numbered(mem[i]) /\ \A t \in Threads : Numbered(buf[t][i])

-----------------------------------------------------------------------------
(* The lock.  One PF thread is busy at a time, and what it does after its   *)
(* access is outside of the buffer.                                         *)

Jobs == {[job |-> "write", pc |-> "rst"], [job |-> "write", pc |-> "ack"],
         [job |-> "write", pc |-> "idle"], [job |-> "read", pc |-> "handle"]}

\* A PF thread has a message to write and has not given the buffer back.
Sending(t) ==
    /\ after[t].job = "write"
    /\ pc[t] \in {"probe", "claim", "verify", "flush", "put1", "put2", "send"}

Locked ==
    /\ pc["irq"] = "idle" \/ pc["ping"] = "idle"
    /\ after["irq"] \in Jobs /\ after["ping"] = [job |-> "write", pc |-> "idle"]
    /\ pc["ping"] \notin {"rst", "msg", "handle", "ack"}
    /\ \A t \in PF :
        /\ Inside(t) => pfu
        /\ pc[t] \in {"flush", "put1", "put2", "send"} => after[t].job = "write"
        /\ pc[t] \in {"get1", "get2", "got"} => after[t].job = "read"
        /\ pc[t] \in {"put1", "put2", "send"} => ~req
        /\ Sending(t) => buf[t][1].op \in IF after[t].pc = "ack" THEN Results3
                                                              ELSE {"ping", "nak"}
    /\ Inside("vf") => vfu /\ ~pfu

-----------------------------------------------------------------------------
(* Whole messages, as long as no VF was reset.                              *)

Writing(t) == IF t = "vf" THEN pc[t] \in {"lock_put", "flush", "put1", "put2"}
                          ELSE Sending(t)

Copied == \A t \in Threads : Writing(t) => buf[t][2] = buf[t][1]

\* What is in the two words while t copies to or from them.
Between(t) ==
    /\ pc[t] = "put2" => mem[1] \in {buf[t][1], Zero}
    /\ pc[t] = "get2" => Whole(<<buf[t][1], mem[2]>>)
    /\ pc[t] = "got" => Whole(buf[t])

Intact ==
    "flr" \notin quit =>
        /\ (\A t \in Threads : pc[t] # "put2") => Whole(mem)
        /\ \A t \in Threads : Between(t)

\* A step of thread t that is no step of a copy.
Elsewhere(t) ==
    /\ \A u \in Threads \ {t} :
        /\ pc'[u] = pc[u] /\ buf'[u] = buf[u]
        /\ u \in PF => after'[u] = after[u]
    /\ Writing(t)' => buf'[t][2] = buf'[t][1]
    /\ pc'[t] \notin {"put2", "get2", "got"}
    /\ mem' \in {mem, <<Zero, Zero>>}
    /\ "flr" \in quit => "flr" \in quit'
    /\ flr' \/ pc[t] = "put2" => "flr" \in quit'

Words == (flr => "flr" \in quit) /\ Copied /\ Intact

-----------------------------------------------------------------------------
LEMMA MsgTyped ==
    /\ Zero \in Messages
    /\ \A op \in {"ping", "nak"} : Msg(op, 0) \in Messages
    /\ \A k \in Requests, n \in 0 .. MaxReq : Msg(k, n) \in Messages
    /\ \A r \in Results3, n \in 0 .. MaxReq : Msg(r, n) \in Messages
  BY MailboxAssumption, SMTT(40) DEF Zero, Msg, Messages, Answers, Requests, Results3

LEMMA TypedInit == Init => Typed
<1> SUFFICES ASSUME Init PROVE Typed
  OBVIOUS
<1> USE MailboxAssumption
<1>1. mem \in [1 .. 2 -> Messages] /\ buf \in [Threads -> [1 .. 2 -> Messages]]
  BY MsgTyped, SMTT(40) DEF Init
<1>2. after \in [PF -> [job : {"read", "write"}, pc : PCs]]
  BY DEF Init, PCs
<1>3. pc \in [Threads -> PCs \cup VfPCs] /\ (\A t \in PF : pc[t] \in PCs) /\ pc["vf"] \in VfPCs
  BY DEF Init, PCs, VfPCs, PF, Threads
<1>4. \A i \in 1 .. 2 : Numbered(mem[i]) /\ \A t \in Threads : Numbered(buf[t][i])
  BY SMTT(40) DEF Init, Numbered, Zero, Msg, Requests
<1>5. QED
  <2>1. /\ pfu \in BOOLEAN /\ vfu \in BOOLEAN /\ req \in BOOLEAN /\ ack \in BOOLEAN
        /\ sts \in BOOLEAN /\ pfack \in BOOLEAN /\ flr \in BOOLEAN /\ intr \in BOOLEAN
        /\ cts \in BOOLEAN
    BY DEF Init
  <2>2. /\ sent \in 0 .. MaxReq /\ applied \subseteq 1 .. MaxReq
        /\ quit \subseteq {"timeout", "flr"} /\ events \in 0 .. MaxEvents
    BY SMTT(40) DEF Init
  <2>3. QED
    BY <1>1, <1>2, <1>3, <1>4, <2>1, <2>2 DEF Typed, TypeOK

ThreadsTyped ==
    /\ pc \in [Threads -> PCs \cup VfPCs]
    /\ \A t \in PF : pc[t] \in PCs
    /\ pc["vf"] \in VfPCs
    /\ buf \in [Threads -> [1 .. 2 -> Messages]]
    /\ after \in [PF -> [job : {"read", "write"}, pc : PCs]]
    /\ \A i \in 1 .. 2 : \A t \in Threads : Numbered(buf[t][i])

\* A PF thread that begins to write a message.
LEMMA WriteTyped ==
    ASSUME Typed, NEW t \in PF, NEW m \in Messages, Numbered(m), NEW l \in PCs,
           Write(t, m, l), sent' = sent
    PROVE  ThreadsTyped'
<1> USE DEF PF, Threads
<1>1. /\ pc' \in [Threads -> PCs \cup VfPCs] /\ pc'["vf"] \in VfPCs
      /\ \A u \in PF : pc'[u] \in PCs
  BY DEF Typed, TypeOK, Write, Goto, PCs
<1>2. <<m, m>> \in [1 .. 2 -> Messages] /\ \A i \in 1 .. 2 : <<m, m>>[i] = m
  BY SMTT(40)
<1>3. buf' = [buf EXCEPT ![t] = <<m, m>>]
  BY DEF Write
<1> HIDE DEF Threads
<1>4. buf' \in [Threads -> [1 .. 2 -> Messages]]
  BY <1>2, <1>3 DEF Typed, TypeOK
<1>5. after' \in [PF -> [job : {"read", "write"}, pc : PCs]]
  BY DEF Typed, TypeOK, Write
<1>6. ASSUME NEW i \in 1 .. 2, NEW u \in Threads PROVE Numbered(buf[u][i])'
  <2>1. buf'[u][i] \in {m, buf[u][i]}
    BY <1>2, <1>3 DEF Typed, TypeOK
  <2>2. QED
    BY <2>1 DEF Typed, Numbered
<1>7. QED
  BY <1>1, <1>4, <1>5, <1>6 DEF ThreadsTyped

LEMMA ResetTyped ==
    ASSUME Typed, NEW happens, ResetEvent(happens), sent' = sent
    PROVE  /\ mem' \in [1 .. 2 -> Messages]
           /\ \A i \in 1 .. 2 : Numbered(mem[i])'
<1>1. <<Zero, Zero>> \in [1 .. 2 -> Messages] /\ \A i \in 1 .. 2 : <<Zero, Zero>>[i] = Zero
  BY MsgTyped, SMTT(40)
<1>2. mem' = <<Zero, Zero>> \/ mem' = mem
  BY DEF ResetEvent
<1>3. mem' \in [1 .. 2 -> Messages]
  BY <1>1, <1>2 DEF Typed, TypeOK
<1>4. Numbered(Zero)'
  BY SMTT(40) DEF Numbered, Zero, Msg, Requests, Typed, TypeOK
<1>5. ASSUME NEW i \in 1 .. 2 PROVE Numbered(mem[i])'
  <2>1. mem'[i] = Zero \/ mem'[i] = mem[i]
    BY <1>1, <1>2
  <2>2. QED
    BY <2>1, <1>4 DEF Typed, Numbered
<1>6. QED
  BY <1>3, <1>5

LEMMA TypedKept == Typed /\ [Next]_vars => Typed'
<1> SUFFICES ASSUME Typed, [Next]_vars PROVE Typed'
  OBVIOUS
<1> USE MailboxAssumption DEF Goto, bits, PF, Threads
<1>m. /\ \A op \in {"ping", "nak"} : Msg(op, 0) \in Messages /\ Numbered(Msg(op, 0))
      /\ {"rst", "idle", "ack"} \subseteq PCs
  BY MsgTyped, SMTT(40) DEF Numbered, Msg, Requests, PCs, Typed, TypeOK
<1>1. ASSUME NEW t \in PF, Probe(t) PROVE Typed'
  BY <1>1, SMTT(40) DEF Probe, Typed, TypeOK, PCs, VfPCs, Numbered
<1>2. ASSUME NEW t \in PF, Claim(t) PROVE Typed'
  BY <1>2, SMTT(40) DEF Claim, Typed, TypeOK, PCs, VfPCs, Numbered
<1>3. ASSUME NEW t \in PF, Verify(t) PROVE Typed'
  BY <1>3, SMTT(40) DEF Verify, Owner, Typed, TypeOK, PCs, VfPCs, Numbered
<1>4. ASSUME NEW t \in PF, LockTimeout(t) PROVE Typed'
  BY <1>4, SMTT(40) DEF LockTimeout, Typed, TypeOK, PCs, VfPCs, Numbered
<1>5. ASSUME NEW t \in PF, Flush(t) PROVE Typed'
  BY <1>5 DEF Flush, Typed, TypeOK, PCs, VfPCs, Numbered
<1>6. ASSUME NEW t \in PF, Send(t) PROVE Typed'
  BY <1>6 DEF Send, Typed, TypeOK, PCs, VfPCs, Numbered
<1>7. ASSUME NEW t \in PF, Acknowledge(t) PROVE Typed'
  BY <1>7 DEF Acknowledge, Typed, TypeOK, PCs, VfPCs, Numbered
<1>8. ASSUME NEW t \in Threads, Put(t) PROVE Typed'
  BY <1>8, SMTT(40) DEF Put, Typed, TypeOK, PCs, VfPCs, Numbered
<1>9. ASSUME NEW t \in Threads, Get(t) PROVE Typed'
  <2> DEFINE i == IF pc[t] = "get1" THEN 1 ELSE 2
  <2>1. i \in 1 .. 2 /\ buf' = [buf EXCEPT ![t][i] = mem[i]]
    BY <1>9, SMTT(40) DEF Get
  <2> HIDE DEF i
  <2>2. buf' \in [Threads -> [1 .. 2 -> Messages]]
    BY <2>1 DEF Typed, TypeOK
  <2>3. ASSUME NEW j \in 1 .. 2, NEW u \in Threads PROVE Numbered(buf[u][j])'
    <3>1. buf'[u][j] \in {buf[u][j], mem[j]}
      BY <2>1 DEF Typed, TypeOK
    <3>2. QED
      BY <1>9, <3>1 DEF Get, Typed, Numbered
  <2>4. pc' \in [Threads -> PCs \cup VfPCs] /\ pc'["vf"] \in VfPCs /\ \A u \in PF : pc'[u] \in PCs
    BY <1>9 DEF Get, Typed, TypeOK, PCs, VfPCs
  <2>5. \A j \in 1 .. 2 : Numbered(mem[j])'
    BY <1>9 DEF Get, Typed, Numbered
  <2>6. QED
    BY <1>9, <2>2, <2>3, <2>4, <2>5 DEF Get, Typed, TypeOK
<1>10. CASE VfRequest
  <2>1. PICK k \in Kinds : buf' = [buf EXCEPT !["vf"] = <<Msg(k, sent + 1), Msg(k, sent + 1)>>]
    BY <1>10 DEF VfRequest
  <2> DEFINE m == Msg(k, sent + 1)
  <2>2. sent \in 0 .. MaxReq /\ sent + 1 \in 0 .. MaxReq
    BY <1>10, SMTT(40) DEF VfRequest, Typed, TypeOK
  <2>3. m \in Messages /\ m.n = sent + 1
    BY <2>2, MsgTyped DEF Msg, Requests
  <2>4. buf' = [buf EXCEPT !["vf"] = <<m, m>>]
    BY <2>1
  <2> HIDE DEF m
  <2>5. <<m, m>> \in [1 .. 2 -> Messages] /\ \A i \in 1 .. 2 : <<m, m>>[i] = m
    BY <2>3, SMTT(40)
  <2>6. buf' \in [Threads -> [1 .. 2 -> Messages]]
    BY <2>4, <2>5 DEF Typed, TypeOK
  <2>7. ASSUME NEW i \in 1 .. 2, NEW u \in Threads PROVE Numbered(buf[u][i])'
    <3>1. buf'[u][i] = m \/ buf'[u][i] = buf[u][i]
      BY <2>4, <2>5 DEF Typed, TypeOK
    <3>2. sent' = sent + 1
      BY <1>10 DEF VfRequest
    <3>3. buf[u][i].n \in Nat
      BY SMTT(40) DEF Typed, TypeOK, Messages
    <3>4. QED
      BY <2>2, <2>3, <3>1, <3>2, <3>3, SMTT(40) DEF Typed, Numbered
  <2>8. ASSUME NEW i \in 1 .. 2 PROVE Numbered(mem[i])'
    <3>1. mem[i].n \in Nat
      BY SMTT(40) DEF Typed, TypeOK, Messages
    <3>2. QED
      BY <1>10, <2>2, <3>1, SMTT(40) DEF VfRequest, Typed, Numbered
  <2>9. pc' \in [Threads -> PCs \cup VfPCs] /\ pc'["vf"] \in VfPCs /\ \A t \in PF : pc'[t] \in PCs
    BY <1>10 DEF VfRequest, Typed, TypeOK, PCs, VfPCs
  <2>10. QED
    BY <1>10, <2>2, <2>6, <2>7, <2>8, <2>9 DEF VfRequest, Typed, TypeOK
<1>11. CASE VfLock
  BY <1>11 DEF VfLock, Typed, TypeOK, PCs, VfPCs, Numbered
<1>12. CASE VfFlush
  BY <1>12 DEF VfFlush, StatusFlushed, Typed, TypeOK, PCs, VfPCs, Numbered
<1>13. CASE VfSend
  BY <1>13 DEF VfSend, Typed, TypeOK, PCs, VfPCs, Numbered
<1>14. CASE VfPoll
  BY <1>14 DEF VfPoll, Typed, TypeOK, PCs, VfPCs, Numbered
<1>15. CASE VfAcknowledge
  BY <1>15 DEF VfAcknowledge, Typed, TypeOK, PCs, VfPCs, Numbered
<1>16. CASE VfTimeout
  BY <1>16, SMTT(40) DEF VfTimeout, Typed, TypeOK, PCs, VfPCs, Numbered
<1>17. CASE Flr
  <2>1. quit' \subseteq {"timeout", "flr"} /\ events' \in 0 .. MaxEvents
    BY <1>17, SMTT(40) DEF Flr, Typed, TypeOK
  <2>2. pc' \in [Threads -> PCs \cup VfPCs] /\ pc'["vf"] \in VfPCs /\ \A t \in PF : pc'[t] \in PCs
    BY <1>17 DEF Flr, Typed, TypeOK, PCs, VfPCs
  <2>3. (/\ pfu \in BOOLEAN /\ vfu \in BOOLEAN /\ req \in BOOLEAN /\ ack \in BOOLEAN
         /\ sts \in BOOLEAN /\ pfack \in BOOLEAN /\ flr \in BOOLEAN /\ intr \in BOOLEAN
         /\ cts \in BOOLEAN)'
    BY <1>17 DEF Flr, Typed, TypeOK
  <2>4. QED
    BY <1>17, <2>1, <2>2, <2>3 DEF Flr, Typed, TypeOK, Numbered
<1>18. CASE MsgTask
  <2>1. CASE Goto("irq", "rst") /\ UNCHANGED <<cts, buf, after, events>>
    BY <1>18, <2>1 DEF MsgTask, Typed, TypeOK, PCs, VfPCs, Numbered
  <2>2. CASE Write("irq", Msg("ping", 0), "rst")
    <3>1. intr' \in BOOLEAN /\ cts' \in BOOLEAN
      BY <1>18 DEF MsgTask, Typed, TypeOK
    <3>2. events' \in 0 .. MaxEvents
      BY <1>18, SMTT(40) DEF MsgTask, Typed, TypeOK
    <3>3. ThreadsTyped' /\ \A i \in 1 .. 2 : Numbered(mem[i])'
      BY <1>18, <2>2, <1>m, WriteTyped DEF MsgTask, Typed, Numbered
    <3>4. QED
      BY <1>18, <3>1, <3>2, <3>3 DEF MsgTask, Typed, TypeOK, ThreadsTyped
  <2>3. QED
    BY <1>18, <2>1, <2>2 DEF MsgTask
<1>19. CASE CheckRst
  <2>1. mem' \in [1 .. 2 -> Messages] /\ \A i \in 1 .. 2 : Numbered(mem[i])'
    BY <1>19, ResetTyped DEF CheckRst
  <2>2. ASSUME NEW i \in 1 .. 2, NEW u \in Threads PROVE Numbered(buf[u][i])'
    BY <1>19 DEF CheckRst, Typed, Numbered
  <2>3. pc' \in [Threads -> PCs \cup VfPCs] /\ pc'["vf"] \in VfPCs /\ \A t \in PF : pc'[t] \in PCs
    BY <1>19 DEF CheckRst, Typed, TypeOK, PCs, VfPCs
  <2>4. flr' \in BOOLEAN
    BY <1>19 DEF CheckRst
  <2>5. QED
    BY <1>19, <2>1, <2>2, <2>3, <2>4 DEF CheckRst, Typed, TypeOK
<1>20. CASE CheckMsg
  BY <1>20, SMTT(40) DEF CheckMsg, Read, Typed, TypeOK, PCs, VfPCs, Numbered
<1>21. CASE Handle
  <2> DEFINE m == Received
  <2>1. m \in Messages /\ Numbered(m)
    BY SMTT(40) DEF Received, Typed, TypeOK
  <2>2. mem' \in [1 .. 2 -> Messages] /\ \A i \in 1 .. 2 : Numbered(mem[i])'
    BY <1>21, ResetTyped DEF Handle
  <2>3. cts' \in BOOLEAN
    BY <1>21 DEF Handle, Typed, TypeOK
  <2>4. applied' \subseteq 1 .. MaxReq
    <3>1. CarriedOut(m) => m.n \in 1 .. MaxReq
      BY <2>1, SMTT(40) DEF CarriedOut, Numbered, Requests, Messages, Typed, TypeOK
    <3>2. QED
      BY <1>21, <3>1 DEF Handle, Typed, TypeOK
  <2>5. CASE Goto("irq", "ack") /\ UNCHANGED <<buf, after>>
    <3>1. ASSUME NEW i \in 1 .. 2, NEW u \in Threads PROVE Numbered(buf[u][i])'
      BY <1>21, <2>5 DEF Handle, Typed, Numbered
    <3>2. pc' \in [Threads -> PCs \cup VfPCs] /\ pc'["vf"] \in VfPCs /\ \A t \in PF : pc'[t] \in PCs
      BY <2>5 DEF Typed, TypeOK, PCs, VfPCs
    <3>3. QED
      BY <1>21, <2>2, <2>3, <2>4, <2>5, <3>1, <3>2 DEF Handle, Typed, TypeOK
  <2>6. ASSUME NEW r \in Results3, Write("irq", Msg(r, m.n), "ack") PROVE Typed'
    <3>1. Msg(r, m.n) \in Messages /\ Numbered(Msg(r, m.n))
      BY <2>1, MsgTyped DEF Messages, Numbered, Msg, Results3, Requests
    <3>2. ThreadsTyped'
      BY <1>21, <1>m, <2>6, <3>1, WriteTyped DEF Handle
    <3>3. QED
      BY <1>21, <2>2, <2>3, <2>4, <3>2 DEF Handle, Typed, TypeOK, ThreadsTyped
  <2>7. QED
    BY <1>21, <2>5, <2>6 DEF Handle, ReplyTo, Results, Results3
<1>22. CASE CheckAck
  <2>1. CASE Goto("irq", "idle") /\ UNCHANGED <<buf, after>>
    <3>1. ack' \in BOOLEAN
      BY <1>22 DEF CheckAck
    <3>2. QED
      BY <1>22, <2>1, <3>1, SMTT(40) DEF CheckAck, Typed, TypeOK, PCs, VfPCs, Numbered
  <2>2. CASE Write("irq", Msg("nak", 0), "idle")
    <3>1. ThreadsTyped' /\ \A i \in 1 .. 2 : Numbered(mem[i])'
      BY <1>22, <2>2, <1>m, WriteTyped DEF CheckAck, Typed, Numbered
    <3>2. QED
      BY <1>22, <3>1 DEF CheckAck, Typed, TypeOK, ThreadsTyped
  <2>3. QED
    BY <1>22, <2>1, <2>2 DEF CheckAck
<1>23. CASE Ping
  <2>1. ThreadsTyped' /\ \A i \in 1 .. 2 : Numbered(mem[i])'
    BY <1>23, <1>m, WriteTyped DEF Ping, Typed, Numbered
  <2>2. cts' \in BOOLEAN
    BY <1>23 DEF Ping, Typed, TypeOK
  <2>3. events' \in 0 .. MaxEvents
    BY <1>23, SMTT(40) DEF Ping, Typed, TypeOK
  <2>4. QED
    BY <1>23, <2>1, <2>2, <2>3 DEF Ping, Typed, TypeOK, ThreadsTyped
<1>24. CASE UNCHANGED vars
  BY <1>24 DEF vars, Typed, TypeOK, Numbered
<1>25. QED
  BY <1>1, <1>2, <1>3, <1>4, <1>5, <1>6, <1>7, <1>8, <1>9, <1>10,
     <1>11, <1>12, <1>13, <1>14, <1>15, <1>16, <1>17, <1>18, <1>19,
     <1>20, <1>21, <1>22, <1>23, <1>24
  DEF Next, PfStep, VfStep, MsgTaskStep

-----------------------------------------------------------------------------
LEMMA LockedInit == Init => Locked
  BY DEF Init, Locked, Jobs, Inside, PF, Threads, Sending

LEMMA LockedKept == ASSUME ~Overlap, Typed, Locked, [Next]_vars PROVE Locked'
<1> USE MailboxAssumption DEF Goto, bits, PF, Threads
<1>t. /\ pc \in [Threads -> PCs \cup VfPCs]
      /\ after \in [PF -> [job : {"read", "write"}, pc : PCs]]
      /\ buf \in [Threads -> [1 .. 2 -> Messages]]
  BY DEF Typed, TypeOK
<1> USE <1>t
<1>1. ASSUME NEW t \in PF, Probe(t) PROVE Locked'
  BY <1>1, SMTT(40) DEF Probe, Locked, Jobs, Inside, Sending
<1>2. ASSUME NEW t \in PF, Claim(t) PROVE Locked'
  BY <1>2, SMTT(40) DEF Claim, Locked, Jobs, Inside, Sending
<1>3. ASSUME NEW t \in PF, Verify(t) PROVE Locked'
  BY <1>3, SMTT(40) DEF Verify, Owner, Locked, Jobs, Inside, Sending
<1>4. ASSUME NEW t \in PF, LockTimeout(t) PROVE Locked'
  BY <1>4, SMTT(40) DEF LockTimeout, Locked, Jobs, Inside, Sending
<1>5. ASSUME NEW t \in PF, Flush(t) PROVE Locked'
  BY <1>5, SMTT(40) DEF Flush, Locked, Jobs, Inside, Sending
<1>6. ASSUME NEW t \in PF, Send(t) PROVE Locked'
  BY <1>6, SMTT(40) DEF Send, Locked, Jobs, Inside, Sending
<1>7. ASSUME NEW t \in PF, Acknowledge(t) PROVE Locked'
  BY <1>7, SMTT(40) DEF Acknowledge, Locked, Jobs, Inside, Sending
<1>8. ASSUME NEW t \in Threads, Put(t) PROVE Locked'
  BY <1>8, SMTT(40) DEF Put, Locked, Jobs, Inside, Sending
<1>9. ASSUME NEW t \in Threads, Get(t) PROVE Locked'
  BY <1>9, SMTT(40) DEF Get, Locked, Jobs, Inside, Sending
<1>10. CASE VfRequest
  BY <1>10, SMTT(40) DEF VfRequest, Locked, Jobs, Inside, Sending
<1>11. CASE VfLock
  BY <1>11, SMTT(40) DEF VfLock, Locked, Jobs, Inside, Sending
<1>12. CASE VfFlush
  BY <1>12, SMTT(40) DEF VfFlush, StatusFlushed, Locked, Jobs, Inside, Sending
<1>13. CASE VfSend
  BY <1>13, SMTT(40) DEF VfSend, Locked, Jobs, Inside, Sending
<1>14. CASE VfPoll
  BY <1>14, SMTT(40) DEF VfPoll, Locked, Jobs, Inside, Sending
<1>15. CASE VfAcknowledge
  BY <1>15, SMTT(40) DEF VfAcknowledge, Locked, Jobs, Inside, Sending
<1>16. CASE VfTimeout
  BY <1>16, SMTT(40) DEF VfTimeout, Locked, Jobs, Inside, Sending
<1>17. CASE Flr
  BY <1>17, SMTT(40) DEF Flr, Locked, Jobs, Inside, Sending
<1>18. CASE MsgTask
  BY <1>18, SMTT(40) DEF MsgTask, Write, Msg, Locked, Jobs, Inside, Sending
<1>19. CASE CheckRst
  BY <1>19 DEF CheckRst, ResetEvent, Locked, Jobs, Inside, Sending
<1>20. CASE CheckMsg
  BY <1>20, SMTT(40) DEF CheckMsg, Read, Locked, Jobs, Inside, Sending
<1>21. CASE Handle
  BY <1>21, SMTT(40)
     DEF Handle, ReplyTo, ResetEvent, Write, Results, Results3, Msg, Locked, Jobs,
         Inside, Sending
<1>22. CASE CheckAck
  BY <1>22, SMTT(40) DEF CheckAck, Write, Msg, Locked, Jobs, Inside, Sending
<1>23. CASE Ping
  BY <1>23 DEF Ping, Write, Msg, Locked, Jobs, Inside, Sending
<1>24. CASE UNCHANGED vars
  BY <1>24 DEF vars, Locked, Inside, Sending
<1>25. QED
  BY <1>1, <1>2, <1>3, <1>4, <1>5, <1>6, <1>7, <1>8, <1>9, <1>10,
     <1>11, <1>12, <1>13, <1>14, <1>15, <1>16, <1>17, <1>18, <1>19,
     <1>20, <1>21, <1>22, <1>23, <1>24
  DEF Next, PfStep, VfStep, MsgTaskStep

-----------------------------------------------------------------------------
LEMMA WordsInit == Init => Words
  BY SMTT(40) DEF Init, Words, Copied, Intact, Between, Writing, Whole, Threads, Sending, PF

\* A step of thread t outside of the buffer's words: the others see nothing of
\* it, but that ixgbe_vf_reset_event may have cleared the memory.
LEMMA WordsElsewhere ==
  ASSUME Words, NEW t \in Threads, Elsewhere(t) PROVE Words'
<1> USE DEF Threads, PF, Elsewhere
<1>1. Copied'
  BY DEF Words, Copied, Writing, Sending
<1>2. ASSUME "flr" \notin quit' PROVE \A u \in Threads : Between(u)'
  BY <1>2, SMTT(40) DEF Words, Intact, Between, Whole
<1>3. ASSUME "flr" \notin quit', \A u \in Threads : pc'[u] # "put2"
      PROVE Whole(mem)'
  BY <1>3, SMTT(40) DEF Words, Intact, Whole
<1>4. QED
  BY <1>1, <1>2, <1>3 DEF Words, Intact

LEMMA WordsKept == ASSUME Typed, Locked, Words, [Next]_vars PROVE Words'
<1> USE MailboxAssumption DEF Goto, bits, PF, Threads
<1>t. /\ pc \in [Threads -> PCs \cup VfPCs]
      /\ after \in [PF -> [job : {"read", "write"}, pc : PCs]]
      /\ buf \in [Threads -> [1 .. 2 -> Messages]]
      /\ mem \in [1 .. 2 -> Messages]
  BY DEF Typed, TypeOK
<1>l. /\ \A t, u \in Threads : Inside(t) /\ Inside(u) => t = u
      /\ pc["irq"] \in {"rst", "msg", "handle", "ack"} => pc["ping"] = "idle"
  BY DEF Locked, Inside
<1>j. \A t \in PF : pc[t] \in {"put1", "put2"} => after[t].job = "write"
  BY DEF Locked
<1>a. \A t \in PF : after[t].pc \in {"rst", "ack", "idle", "handle"}
  BY SMTT(40) DEF Locked, Jobs
<1>f. /\ flr => "flr" \in quit
      /\ \A t \in Threads : Writing(t) => buf[t][2] = buf[t][1]
      /\ pc["ping"] \notin {"rst", "msg", "handle", "ack"}
  BY DEF Words, Copied, Locked
<1> USE <1>t, <1>l
<1>1. ASSUME NEW t \in PF, Probe(t) PROVE Words'
  <2>1. Elsewhere(t)
    BY <1>1, <1>a, <1>f DEF Probe, Elsewhere, Writing, Sending
  <2>2. QED
    BY <2>1, WordsElsewhere
<1>2. ASSUME NEW t \in PF, Claim(t) PROVE Words'
  <2>1. Elsewhere(t)
    BY <1>2, <1>a, <1>f DEF Claim, Elsewhere, Writing, Sending
  <2>2. QED
    BY <2>1, WordsElsewhere
<1>3. ASSUME NEW t \in PF, Verify(t) PROVE Words'
  <2>1. Elsewhere(t)
    BY <1>3, <1>a, <1>f DEF Verify, Owner, Elsewhere, Writing, Sending
  <2>2. QED
    BY <2>1, WordsElsewhere
<1>4. ASSUME NEW t \in PF, LockTimeout(t) PROVE Words'
  <2>1. Elsewhere(t)
    BY <1>4, <1>a, <1>f DEF LockTimeout, Elsewhere, Writing, Sending
  <2>2. QED
    BY <2>1, WordsElsewhere
<1>5. ASSUME NEW t \in PF, Flush(t) PROVE Words'
  <2>1. Elsewhere(t)
    BY <1>5, <1>a, <1>f DEF Flush, Elsewhere, Writing, Sending
  <2>2. QED
    BY <2>1, WordsElsewhere
<1>6. ASSUME NEW t \in PF, Send(t) PROVE Words'
  <2>1. Elsewhere(t)
    BY <1>6, <1>a, <1>f DEF Send, Elsewhere, Writing, Sending
  <2>2. QED
    BY <2>1, WordsElsewhere
<1>7. ASSUME NEW t \in PF, Acknowledge(t) PROVE Words'
  <2>1. Elsewhere(t)
    BY <1>7, <1>a, <1>f DEF Acknowledge, Elsewhere, Writing, Sending
  <2>2. QED
    BY <2>1, WordsElsewhere
<1>8. ASSUME NEW t \in Threads, Put(t) PROVE Words'
  <2>1. (flr => "flr" \in quit)' /\ Copied'
    BY <1>8 DEF Put, Words, Copied, Writing, Sending
  <2>2. /\ quit' = quit /\ buf' = buf
        /\ \A u \in Threads \ {t} : pc'[u] \notin {"put2", "get2", "got"}
    BY <1>8 DEF Put, Inside
  <2>3. ASSUME pc[t] = "put1" PROVE Intact'
    <3>1. /\ mem'[1] = buf[t][1]
          /\ pc'[t] = "put2" \/ (pc'[t] = "send" /\ Short(buf[t][1]))
      BY <1>8, <2>3, SMTT(40) DEF Put
    <3>2. QED
      BY <2>2, <3>1 DEF Intact, Between, Whole, Short
  <2>4. ASSUME pc[t] = "put2" PROVE Intact'
    <3>1. mem'[1] = mem[1] /\ mem'[2] = buf[t][2] /\ pc'[t] = "send"
      BY <1>8, <2>4, SMTT(40) DEF Put
    <3>2. buf[t][2] = buf[t][1]
      BY <2>4, <1>f, <1>j DEF Writing, Sending
    <3>3. QED
      BY <2>2, <2>4, <3>1, <3>2 DEF Words, Intact, Between, Whole
  <2>5. QED
    BY <1>8, <2>1, <2>3, <2>4 DEF Words, Put
<1>9. ASSUME NEW t \in Threads, Get(t) PROVE Words'
  <2>1. (flr => "flr" \in quit)' /\ Copied'
    BY <1>9, <1>j DEF Get, Words, Copied, Writing, Sending
  <2>2. /\ quit' = quit /\ mem' = mem
        /\ \A u \in Threads : pc[u] # "put2"
        /\ \A u \in Threads \ {t} : pc'[u] \notin {"put2", "get2", "got"}
    BY <1>9 DEF Get, Inside
  <2>3. ASSUME pc[t] = "get1" PROVE Intact'
    <3>1. buf'[t][1] = mem[1] /\ pc'[t] = "get2"
      BY <1>9, <2>3, SMTT(40) DEF Get
    <3>2. QED
      BY <2>2, <3>1 DEF Words, Intact, Between, Whole
  <2>4. ASSUME pc[t] = "get2" PROVE Intact'
    <3>1. buf'[t][1] = buf[t][1] /\ buf'[t][2] = mem[2] /\ pc'[t] = "got"
      BY <1>9, <2>4, SMTT(40) DEF Get
    <3>2. QED
      BY <2>2, <2>4, <3>1 DEF Words, Intact, Between, Whole
  <2>5. QED
    BY <1>9, <2>1, <2>3, <2>4 DEF Words, Get
<1>10. CASE VfRequest
  <2>1. Elsewhere("vf")
    BY <1>10, <1>a, <1>f, SMTT(40) DEF VfRequest, Elsewhere, Writing, Sending
  <2>2. QED
    BY <2>1, WordsElsewhere
<1>11. CASE VfLock
  <2>1. Elsewhere("vf")
    BY <1>11, <1>a, <1>f DEF VfLock, Elsewhere, Writing, Sending
  <2>2. QED
    BY <2>1, WordsElsewhere
<1>12. CASE VfFlush
  <2>1. Elsewhere("vf")
    BY <1>12, <1>a, <1>f DEF VfFlush, StatusFlushed, Elsewhere, Writing, Sending
  <2>2. QED
    BY <2>1, WordsElsewhere
<1>13. CASE VfSend
  <2>1. Elsewhere("vf")
    BY <1>13, <1>a, <1>f DEF VfSend, Elsewhere, Writing, Sending
  <2>2. QED
    BY <2>1, WordsElsewhere
<1>14. CASE VfPoll
  <2>1. Elsewhere("vf")
    BY <1>14, <1>a, <1>f DEF VfPoll, Elsewhere, Writing, Sending
  <2>2. QED
    BY <2>1, WordsElsewhere
<1>15. CASE VfAcknowledge
  <2>1. Elsewhere("vf")
    BY <1>15, <1>a, <1>f DEF VfAcknowledge, Elsewhere, Writing, Sending
  <2>2. QED
    BY <2>1, WordsElsewhere
<1>16. CASE VfTimeout
  <2>1. Elsewhere("vf")
    BY <1>16, <1>a, <1>f DEF VfTimeout, Elsewhere, Writing, Sending
  <2>2. QED
    BY <2>1, WordsElsewhere
<1>17. CASE Flr
  <2>1. Elsewhere("vf")
    BY <1>17, <1>a, <1>f DEF Flr, Elsewhere, Writing, Sending
  <2>2. QED
    BY <2>1, WordsElsewhere
<1>18. CASE MsgTask
  <2>1. Elsewhere("irq")
    BY <1>18, <1>a, <1>f, SMTT(40) DEF MsgTask, Write, Msg, Elsewhere, Writing, Sending
  <2>2. QED
    BY <2>1, WordsElsewhere
<1>19. CASE CheckRst
  <2>1. Elsewhere("irq")
    BY <1>19, <1>a, <1>f DEF CheckRst, ResetEvent, Elsewhere, Writing, Sending
  <2>2. QED
    BY <2>1, WordsElsewhere
<1>20. CASE CheckMsg
  <2>1. Elsewhere("irq")
    BY <1>20, <1>a, <1>f, SMTT(40) DEF CheckMsg, Read, Elsewhere, Writing, Sending
  <2>2. QED
    BY <2>1, WordsElsewhere
<1>21. CASE Handle
  <2>1. Elsewhere("irq")
    BY <1>21, <1>a, <1>f, SMTT(40)
       DEF Handle, ReplyTo, ResetEvent, Write, Msg, Elsewhere, Writing, Sending
  <2>2. QED
    BY <2>1, WordsElsewhere
<1>22. CASE CheckAck
  <2>1. Elsewhere("irq")
    BY <1>22, <1>a, <1>f, SMTT(40) DEF CheckAck, Write, Msg, Elsewhere, Writing, Sending
  <2>2. QED
    BY <2>1, WordsElsewhere
<1>23. CASE Ping
  <2>1. Elsewhere("ping")
    BY <1>23, <1>a, <1>f DEF Ping, Write, Msg, Elsewhere, Writing, Sending
  <2>2. QED
    BY <2>1, WordsElsewhere
<1>24. CASE UNCHANGED vars
  <2>1. Copied'
    BY <1>24 DEF vars, Words, Copied, Writing, Sending
  <2>2. Intact'
    BY <1>24 DEF vars, Words, Intact, Between, Whole
  <2>3. QED
    BY <1>24, <2>1, <2>2 DEF vars, Words
<1>25. QED
  BY <1>1, <1>2, <1>3, <1>4, <1>5, <1>6, <1>7, <1>8, <1>9, <1>10,
     <1>11, <1>12, <1>13, <1>14, <1>15, <1>16, <1>17, <1>18, <1>19,
     <1>20, <1>21, <1>22, <1>23, <1>24
  DEF Next, PfStep, VfStep, MsgTaskStep

-----------------------------------------------------------------------------
(* The handshake, as long as nobody gave up.  From the moment its request   *)
(* is in the buffer until it is told of an answer the VF waits.             *)

\* ixgbe_msg_task has decided on an answer and has not sent it yet.
Replying == Sending("irq") /\ after["irq"].pc = "ack"
Unwritten == Replying /\ pc["irq"] \notin {"put2", "send"}
\* ... is reading a request, or has read it.
Reading == /\ after["irq"].job = "read"
           /\ pc["irq"] \in {"probe", "claim", "verify", "get1", "get2", "got"}
HasRead == pc["irq"] \in {"get2", "got", "handle"}

Waits == pc["vf"] = "wait" /\ ~sts

Asks ==
    pc["vf"] \in {"lock_put", "flush", "put1", "put2", "send", "wait"} =>
        buf["vf"][1].n = sent /\ buf["vf"][1].op \in Requests

\* A request that the PF has not flushed, and its handling, find the VF waiting.
Waiting ==
    quit = {} =>
        /\ req \/ Replying \/ Reading \/ pc["irq"] = "handle" => Waits
        /\ Reading \/ pc["irq"] = "handle" => req
        /\ pc["vf"] \in {"put1", "put2", "send"} => ~sts

\* The request in the buffer, the one that was read and the one that is being
\* answered are the one that the VF waits for.
Contents ==
    quit = {} =>
        /\ req => mem[1] = buf["vf"][1] \/ Unwritten
        /\ HasRead => buf["irq"][1] = buf["vf"][1]
        /\ Replying => buf["irq"][1].n = sent
        /\ pc["vf"] \in {"put2", "send"} => mem[1] = buf["vf"][1]

\* So is the one whose answer the VF reads.
Told ==
    quit = {} =>
        /\ pc["vf"] \in {"wait", "lock_get", "get1"} /\ mem[1].op \in Results3
              => mem[1].n = sent
        /\ pc["vf"] \in {"get2", "got"} /\ buf["vf"][1].op \in Results3
              => buf["vf"][1].n = sent

Dialogue == Asks /\ Told

-----------------------------------------------------------------------------
(* A request is carried out once, as long as nothing timed out.            *)

\* A request on its way to the buffer is newer than all that the PF has seen.
Fresh ==
    /\ applied \subseteq 1 .. sent
    /\ pc["vf"] \in {"lock_put", "flush", "put1"} =>
           /\ mem[1].n < sent /\ (\A t \in PF : buf[t][1].n < sent)
           /\ sent \notin applied

\* One in the buffer or read was not carried out.
Pending ==
    "timeout" \notin quit =>
        /\ mem[1].op \in Requests => mem[1].n \notin applied \/ Unwritten
        /\ HasRead /\ buf["irq"][1].op \in Requests => buf["irq"][1].n \notin applied

Once == Fresh /\ Pending

\* A step that carries nothing out and brings no request to the PF.
Quiet ==
    /\ applied' = applied /\ sent' = sent
    /\ mem'[1] \in {mem[1], Zero}
    /\ \A t \in PF : buf'[t][1].n \in {buf[t][1].n, 0}
    /\ pc'["vf"] \in {"lock_put", "flush", "put1"} =>
           pc["vf"] \in {"lock_put", "flush", "put1"}
    /\ "timeout" \notin quit' =>
           /\ "timeout" \notin quit
           /\ Unwritten => Unwritten'
           /\ HasRead' => HasRead /\ buf'["irq"] = buf["irq"]


-----------------------------------------------------------------------------

LEMMA WaitingInit == Init => Waiting
  BY DEF Init, Waiting, Threads, PF, Waits, Replying, Reading, Sending

LEMMA WaitingKept ==
    ASSUME Typed, Locked, Words, Waiting, [Next]_vars PROVE Waiting'
<1> USE MailboxAssumption DEF Goto, bits, PF, Threads
<1>t. /\ pc \in [Threads -> PCs \cup VfPCs]
      /\ after \in [PF -> [job : {"read", "write"}, pc : PCs]]
      /\ buf \in [Threads -> [1 .. 2 -> Messages]]
      /\ mem \in [1 .. 2 -> Messages]
      /\ sent \in Nat
  BY SMTT(40) DEF Typed, TypeOK
<1>l. /\ pc["irq"] = "idle" \/ pc["ping"] = "idle"
      /\ \A t \in PF : Inside(t) => ~Inside("vf")
  BY DEF Locked
<1> USE DEF Waiting, Waits, Replying, Reading, Sending, Inside
<1> USE <1>t, <1>l
<1>1. ASSUME NEW t \in PF, Probe(t) PROVE Waiting'
  BY <1>1 DEF Probe
<1>2. ASSUME NEW t \in PF, Claim(t) PROVE Waiting'
  BY <1>2 DEF Claim
<1>3. ASSUME NEW t \in PF, Verify(t) PROVE Waiting'
  BY <1>3 DEF Verify, Owner
<1>4. ASSUME NEW t \in PF, LockTimeout(t) PROVE Waiting'
  BY <1>4 DEF LockTimeout, Locked, Jobs
<1>5. ASSUME NEW t \in PF, Flush(t) PROVE Waiting'
  BY <1>5 DEF Flush
<1>6. ASSUME NEW t \in PF, Send(t) PROVE Waiting'
  BY <1>6, SMTT(40) DEF Send, Locked, Jobs
<1>7. ASSUME NEW t \in PF, Acknowledge(t) PROVE Waiting'
  BY <1>7 DEF Acknowledge, Locked, Jobs
<1>8. ASSUME NEW t \in Threads, Put(t) PROVE Waiting'
  BY <1>8 DEF Put
<1>9. ASSUME NEW t \in Threads, Get(t) PROVE Waiting'
  BY <1>9 DEF Get
<1>10. CASE VfRequest
  BY <1>10 DEF VfRequest
<1>11. CASE VfLock
  BY <1>11 DEF VfLock
<1>12. CASE VfFlush
  BY <1>12 DEF VfFlush, StatusFlushed
<1>13. CASE VfSend
  BY <1>13 DEF VfSend
<1>14. CASE VfPoll
  BY <1>14 DEF VfPoll
<1>15. CASE VfAcknowledge
  BY <1>15 DEF VfAcknowledge
<1>16. CASE VfTimeout
  BY <1>16 DEF VfTimeout
<1>17. CASE Flr
  BY <1>17 DEF Flr
<1>18. CASE MsgTask
  BY <1>18, SMTT(40) DEF MsgTask, Write
<1>19. CASE CheckRst
  BY <1>19 DEF CheckRst, ResetEvent
<1>20. CASE CheckMsg
  BY <1>20 DEF CheckMsg, Read
<1>21. CASE Handle
  BY <1>21 DEF Handle, ReplyTo, Write, Unanswered
<1>22. CASE CheckAck
  BY <1>22, SMTT(40) DEF CheckAck, Write
<1>23. CASE Ping
  BY <1>23 DEF Ping, Write
<1>24. CASE UNCHANGED vars
  BY <1>24 DEF vars
<1>25. QED
  BY <1>1, <1>2, <1>3, <1>4, <1>5, <1>6, <1>7, <1>8, <1>9, <1>10,
     <1>11, <1>12, <1>13, <1>14, <1>15, <1>16, <1>17, <1>18, <1>19,
     <1>20, <1>21, <1>22, <1>23, <1>24
  DEF Next, PfStep, VfStep, MsgTaskStep

LEMMA ContentsInit == Init => Contents
  BY DEF Init, Contents, Threads, PF, Replying, HasRead, Unwritten, Sending

LEMMA ContentsKept ==
    ASSUME Typed, Locked, Words, Asks, Waiting, Contents, [Next]_vars PROVE Contents'
<1> USE MailboxAssumption DEF Goto, bits, PF, Threads
<1>t. /\ pc \in [Threads -> PCs \cup VfPCs]
      /\ after \in [PF -> [job : {"read", "write"}, pc : PCs]]
      /\ buf \in [Threads -> [1 .. 2 -> Messages]]
      /\ mem \in [1 .. 2 -> Messages]
      /\ sent \in Nat
  BY SMTT(40) DEF Typed, TypeOK
<1>l. /\ pc["irq"] = "idle" \/ pc["ping"] = "idle"
      /\ \A t \in PF : Inside(t) => ~Inside("vf")
  BY DEF Locked
<1>w. quit = {} /\ (req \/ Replying \/ Reading \/ HasRead) => pc["vf"] = "wait"
  BY DEF Waiting, Waits, HasRead, Reading, Locked
<1> USE DEF Contents, Replying, Unwritten, HasRead, Sending
<1> USE <1>t, <1>l, <1>w
<1>1. ASSUME NEW t \in PF, Probe(t) PROVE Contents'
  BY <1>1 DEF Probe
<1>2. ASSUME NEW t \in PF, Claim(t) PROVE Contents'
  BY <1>2 DEF Claim
<1>3. ASSUME NEW t \in PF, Verify(t) PROVE Contents'
  BY <1>3 DEF Verify, Owner
<1>4. ASSUME NEW t \in PF, LockTimeout(t) PROVE Contents'
  BY <1>4 DEF LockTimeout
<1>5. ASSUME NEW t \in PF, Flush(t) PROVE Contents'
  BY <1>5 DEF Flush
<1>6. ASSUME NEW t \in PF, Send(t) PROVE Contents'
  BY <1>6, SMTT(40) DEF Send, Locked, Jobs
<1>7. ASSUME NEW t \in PF, Acknowledge(t) PROVE Contents'
  BY <1>7 DEF Acknowledge, Locked, Jobs
<1>8. ASSUME NEW t \in Threads, Put(t) PROVE Contents'
  BY <1>8, SMTT(40) DEF Put, Locked, Inside
<1>9. ASSUME NEW t \in Threads, Get(t) PROVE Contents'
  BY <1>9, SMTT(40) DEF Get, Inside, Locked, Waiting, Waits, Reading
<1>10. CASE VfRequest
  BY <1>10 DEF VfRequest
<1>11. CASE VfLock
  BY <1>11 DEF VfLock
<1>12. CASE VfFlush
  BY <1>12 DEF VfFlush, StatusFlushed, Inside
<1>13. CASE VfSend
  BY <1>13 DEF VfSend
<1>14. CASE VfPoll
  BY <1>14 DEF VfPoll
<1>15. CASE VfAcknowledge
  BY <1>15 DEF VfAcknowledge
<1>16. CASE VfTimeout
  BY <1>16 DEF VfTimeout
<1>17. CASE Flr
  BY <1>17 DEF Flr
<1>18. CASE MsgTask
  BY <1>18, SMTT(40) DEF MsgTask, Write
<1>19. CASE CheckRst
  BY <1>19 DEF CheckRst, ResetEvent, Words
<1>20. CASE CheckMsg
  BY <1>20, SMTT(40) DEF CheckMsg, Read
<1>21. CASE Handle
  BY <1>21, SMTT(40)
     DEF Handle, ReplyTo, Write, Unanswered, ResetEvent, Msg, Asks, Requests, Answers,
         Received
<1>22. CASE CheckAck
  BY <1>22, SMTT(40) DEF CheckAck, Write
<1>23. CASE Ping
  BY <1>23 DEF Ping, Write
<1>24. CASE UNCHANGED vars
  BY <1>24 DEF vars
<1>25. QED
  BY <1>1, <1>2, <1>3, <1>4, <1>5, <1>6, <1>7, <1>8, <1>9, <1>10,
     <1>11, <1>12, <1>13, <1>14, <1>15, <1>16, <1>17, <1>18, <1>19,
     <1>20, <1>21, <1>22, <1>23, <1>24
  DEF Next, PfStep, VfStep, MsgTaskStep

LEMMA DialogueInit == Init => Dialogue
  BY DEF Init, Dialogue, Threads, PF, Asks, Told, Results3, Zero, Msg

LEMMA DialogueKept ==
    ASSUME Typed, Locked, Words, Dialogue, Waiting, Contents, [Next]_vars PROVE Dialogue'
<1> USE MailboxAssumption DEF Goto, bits, PF, Threads
<1>t. /\ pc \in [Threads -> PCs \cup VfPCs]
      /\ after \in [PF -> [job : {"read", "write"}, pc : PCs]]
      /\ buf \in [Threads -> [1 .. 2 -> Messages]]
      /\ mem \in [1 .. 2 -> Messages]
      /\ sent \in Nat
  BY SMTT(40) DEF Typed, TypeOK
<1>l. /\ pc["irq"] = "idle" \/ pc["ping"] = "idle"
      /\ \A t \in PF : Inside(t) => ~Inside("vf")
  BY DEF Locked
<1> USE DEF Dialogue, Asks, Told
<1> USE <1>t, <1>l
<1>1. ASSUME NEW t \in PF, Probe(t) PROVE Dialogue'
  BY <1>1 DEF Probe
<1>2. ASSUME NEW t \in PF, Claim(t) PROVE Dialogue'
  BY <1>2 DEF Claim
<1>3. ASSUME NEW t \in PF, Verify(t) PROVE Dialogue'
  BY <1>3 DEF Verify, Owner
<1>4. ASSUME NEW t \in PF, LockTimeout(t) PROVE Dialogue'
  BY <1>4 DEF LockTimeout
<1>5. ASSUME NEW t \in PF, Flush(t) PROVE Dialogue'
  BY <1>5 DEF Flush
<1>6. ASSUME NEW t \in PF, Send(t) PROVE Dialogue'
  BY <1>6 DEF Send
<1>7. ASSUME NEW t \in PF, Acknowledge(t) PROVE Dialogue'
  BY <1>7 DEF Acknowledge
<1>8. ASSUME NEW t \in Threads, Put(t) PROVE Dialogue'
  BY <1>8, SMTT(40) DEF Put, Locked, Contents, Inside, Replying, Sending, Results3
<1>9. ASSUME NEW t \in Threads, Get(t) PROVE Dialogue'
  BY <1>9, SMTT(40) DEF Get
<1>10. CASE VfRequest
  BY <1>10, SMTT(40) DEF VfRequest, Msg, Requests, Results3
<1>11. CASE VfLock
  BY <1>11 DEF VfLock
<1>12. CASE VfFlush
  BY <1>12 DEF VfFlush, StatusFlushed
<1>13. CASE VfSend
  BY <1>13 DEF VfSend, Contents, Requests, Results3
<1>14. CASE VfPoll
  BY <1>14 DEF VfPoll
<1>15. CASE VfAcknowledge
  BY <1>15 DEF VfAcknowledge
<1>16. CASE VfTimeout
  BY <1>16 DEF VfTimeout
<1>17. CASE Flr
  BY <1>17 DEF Flr
<1>18. CASE MsgTask
  BY <1>18 DEF MsgTask, Write
<1>19. CASE CheckRst
  BY <1>19 DEF CheckRst, ResetEvent, Zero, Msg, Results3
<1>20. CASE CheckMsg
  BY <1>20 DEF CheckMsg, Read
<1>21. CASE Handle
  BY <1>21 DEF Handle, ReplyTo, Write, ResetEvent, Zero, Msg, Results3
<1>22. CASE CheckAck
  BY <1>22 DEF CheckAck, Write
<1>23. CASE Ping
  BY <1>23 DEF Ping, Write
<1>24. CASE UNCHANGED vars
  BY <1>24 DEF vars
<1>25. QED
  BY <1>1, <1>2, <1>3, <1>4, <1>5, <1>6, <1>7, <1>8, <1>9, <1>10,
     <1>11, <1>12, <1>13, <1>14, <1>15, <1>16, <1>17, <1>18, <1>19,
     <1>20, <1>21, <1>22, <1>23, <1>24
  DEF Next, PfStep, VfStep, MsgTaskStep

LEMMA OnceInit == Init => Once
  BY
     DEF Init, Once, Threads, PF, Fresh, Pending, HasRead, Zero, Msg, Requests,
         Unwritten, Replying, Sending

LEMMA OnceQuiet ==
    ASSUME Once, Quiet, Numbered(buf["vf"][1]), sent \in Nat,
           pc["vf"] \in {"lock_put", "flush", "put1"} => sent >= 1
    PROVE  Once'
<1>1. Fresh'
  BY SMTT(40) DEF Once, Fresh, Quiet, Zero, Msg, PF
<1>2. Pending'
  BY SMTT(40) DEF Once, Pending, Quiet, Zero, Msg, Requests
<1>3. QED
  BY <1>1, <1>2 DEF Once

LEMMA OnceKept ==
    ASSUME Typed, Locked, Asks, Once, [Next]_vars PROVE Once'
<1> USE MailboxAssumption DEF Goto, bits, PF, Threads
<1>t. /\ pc \in [Threads -> PCs \cup VfPCs]
      /\ after \in [PF -> [job : {"read", "write"}, pc : PCs]]
      /\ buf \in [Threads -> [1 .. 2 -> Messages]]
      /\ mem \in [1 .. 2 -> Messages]
      /\ sent \in Nat
  BY SMTT(40) DEF Typed, TypeOK
<1>l. /\ pc["irq"] = "idle" \/ pc["ping"] = "idle"
      /\ \A t \in PF : Inside(t) => ~Inside("vf")
  BY DEF Locked
<1>n. /\ \A m \in Messages : m.n \in Nat
      /\ Numbered(mem[1]) /\ \A t \in Threads : Numbered(buf[t][1])
  BY SMTT(40) DEF Typed, Messages
<1>s. pc["vf"] \in {"lock_put", "flush", "put1"} => sent >= 1 /\ buf["vf"][1].n = sent
  BY <1>t, <1>n DEF Asks, Numbered
<1>a. \A t \in PF : /\ after[t].pc \in {"rst", "ack", "idle", "handle"}
                    /\ pc[t] = "send" => after[t].pc # "handle"
                    /\ pc[t] = "got" => HasRead /\ t = "irq"
                    /\ t = "ping" => after[t].pc = "idle"
  BY SMTT(40) DEF Locked, Jobs, HasRead
<1> USE <1>t, <1>l, <1>n, <1>s
<1>1. ASSUME NEW t \in PF, Probe(t) PROVE Once'
  <2>1. Quiet
    BY <1>1, <1>a DEF Probe, Quiet, Unwritten, Replying, Sending, HasRead
  <2>2. QED
    BY <2>1, OnceQuiet
<1>2. ASSUME NEW t \in PF, Claim(t) PROVE Once'
  <2>1. Quiet
    BY <1>2, <1>a DEF Claim, Quiet, Unwritten, Replying, Sending, HasRead
  <2>2. QED
    BY <2>1, OnceQuiet
<1>3. ASSUME NEW t \in PF, Verify(t) PROVE Once'
  <2>1. Quiet
    BY <1>3, <1>a DEF Verify, Owner, Quiet, Unwritten, Replying, Sending, HasRead
  <2>2. QED
    BY <2>1, OnceQuiet
<1>4. ASSUME NEW t \in PF, LockTimeout(t) PROVE Once'
  <2>1. Quiet
    BY <1>4, <1>a DEF LockTimeout, Quiet, Unwritten, Replying, Sending, HasRead
  <2>2. QED
    BY <2>1, OnceQuiet
<1>5. ASSUME NEW t \in PF, Flush(t) PROVE Once'
  <2>1. Quiet
    BY <1>5, <1>a DEF Flush, Quiet, Unwritten, Replying, Sending, HasRead
  <2>2. QED
    BY <2>1, OnceQuiet
<1>6. ASSUME NEW t \in PF, Send(t) PROVE Once'
  <2>1. Quiet
    BY <1>6, <1>a DEF Send, Quiet, Unwritten, Replying, Sending, HasRead
  <2>2. QED
    BY <2>1, OnceQuiet
<1>7. ASSUME NEW t \in PF, Acknowledge(t) PROVE Once'
  <2>1. Quiet
    BY <1>7, <1>a DEF Acknowledge, Quiet, Unwritten, Replying, Sending, HasRead
  <2>2. QED
    BY <2>1, OnceQuiet
<1>8. ASSUME NEW t \in Threads, Put(t) PROVE Once'
  <2>1. Fresh'
    BY <1>8, SMTT(40) DEF Put, Once, Fresh
  <2>2. Pending'
    BY <1>8, SMTT(40)
       DEF Put, Locked, Results3, Requests, Asks, Fresh, Once, Pending, HasRead,
           Unwritten, Replying, Sending
  <2>3. QED
    BY <2>1, <2>2 DEF Once
<1>9. ASSUME NEW t \in Threads, Get(t) PROVE Once'
  <2>1. Fresh'
    BY <1>9, SMTT(40) DEF Get, Once, Fresh
  <2>2. Pending'
    BY <1>9, SMTT(40)
       DEF Get, Locked, Inside, Once, Pending, HasRead, Unwritten, Replying, Sending
  <2>3. QED
    BY <2>1, <2>2 DEF Once
<1>10. CASE VfRequest
  <2>1. Fresh'
    BY <1>10, SMTT(40) DEF VfRequest, Msg, Numbered, Once, Fresh
  <2>2. Pending'
    BY <1>10 DEF VfRequest, Msg, Once, Pending, HasRead, Unwritten, Replying, Sending
  <2>3. QED
    BY <2>1, <2>2 DEF Once
<1>11. CASE VfLock
  <2>1. Quiet
    BY <1>11, <1>a DEF VfLock, Quiet, Unwritten, Replying, Sending, HasRead
  <2>2. QED
    BY <2>1, OnceQuiet
<1>12. CASE VfFlush
  <2>1. Quiet
    BY <1>12, <1>a DEF VfFlush, StatusFlushed, Quiet, Unwritten, Replying, Sending, HasRead
  <2>2. QED
    BY <2>1, OnceQuiet
<1>13. CASE VfSend
  <2>1. Quiet
    BY <1>13, <1>a DEF VfSend, Quiet, Unwritten, Replying, Sending, HasRead
  <2>2. QED
    BY <2>1, OnceQuiet
<1>14. CASE VfPoll
  <2>1. Quiet
    BY <1>14, <1>a DEF VfPoll, Quiet, Unwritten, Replying, Sending, HasRead
  <2>2. QED
    BY <2>1, OnceQuiet
<1>15. CASE VfAcknowledge
  <2>1. Quiet
    BY <1>15, <1>a DEF VfAcknowledge, Quiet, Unwritten, Replying, Sending, HasRead
  <2>2. QED
    BY <2>1, OnceQuiet
<1>16. CASE VfTimeout
  <2>1. Quiet
    BY <1>16, <1>a DEF VfTimeout, Quiet, Unwritten, Replying, Sending, HasRead
  <2>2. QED
    BY <2>1, OnceQuiet
<1>17. CASE Flr
  <2>1. Quiet
    BY <1>17, <1>a DEF Flr, Quiet, Unwritten, Replying, Sending, HasRead
  <2>2. QED
    BY <2>1, OnceQuiet
<1>18. CASE MsgTask
  <2>1. Quiet
    BY <1>18, <1>a, SMTT(40)
       DEF MsgTask, Write, Msg, Quiet, Unwritten, Replying, Sending, HasRead
  <2>2. QED
    BY <2>1, OnceQuiet
<1>19. CASE CheckRst
  <2>1. Quiet
    BY <1>19, <1>a
       DEF CheckRst, ResetEvent, Zero, Msg, Quiet, Unwritten, Replying, Sending, HasRead
  <2>2. QED
    BY <2>1, OnceQuiet
<1>20. CASE CheckMsg
  <2>1. Quiet
    BY <1>20, <1>a, SMTT(40)
       DEF CheckMsg, Read, Quiet, Unwritten, Replying, Sending, HasRead
  <2>2. QED
    BY <2>1, OnceQuiet
<1>21. CASE Handle
  <2>1. /\ sent' = sent /\ quit' = quit /\ pc'["vf"] = pc["vf"]
        /\ buf'["ping"] = buf["ping"]
        /\ mem'[1] \in {mem[1], Zero}
    BY <1>21 DEF Handle, ReplyTo, Write, ResetEvent
  <2>2. /\ buf'["irq"][1].n = buf["irq"][1].n
        /\ ~HasRead'
    BY <1>21, SMTT(40) DEF Handle, ReplyTo, Write, Received, Msg, HasRead
  <2>3. \/ applied' = applied
        \/ /\ applied' = applied \cup {buf["irq"][1].n}
           /\ buf["irq"][1].op \in Requests
    BY <1>21 DEF Handle, CarriedOut, Received, Requests
  <2>4. applied' = applied \/ Unwritten'
    BY <1>21, SMTT(40) DEF Handle, ReplyTo, Write, Unanswered, CarriedOut, Received,
                    Answers, Unwritten, Replying, Sending
  <2>5. Unwritten = FALSE
    BY <1>21 DEF Handle, Unwritten, Replying, Sending
  <2>6. Fresh'
    <3>0. buf["irq"][1].op \in Requests => buf["irq"][1].n \in 1 .. sent
      <4>1. buf["irq"][1] \in Messages
        BY SMTT(40)
      <4>2. QED
        BY <4>1, SMTT(40) DEF Numbered
    <3>1. applied' \subseteq 1 .. sent
      <4>1. applied \subseteq 1 .. sent
        BY DEF Once, Fresh
      <4>2. CASE applied' = applied
        BY <4>1, <4>2
      <4>3. CASE applied' = applied \cup {buf["irq"][1].n} /\ buf["irq"][1].op \in Requests
        BY <3>0, <4>1, <4>3
      <4>4. QED
        BY <4>2, <4>3, <2>3
    <3>2. ASSUME pc["vf"] \in {"lock_put", "flush", "put1"}
          PROVE  /\ mem'[1].n < sent /\ sent \notin applied'
                 /\ \A t \in PF : buf'[t][1].n < sent
      BY <3>2, <2>1, <2>2, <2>3, SMTT(40) DEF Once, Fresh, Zero, Msg
    <3>3. QED
      BY <3>1, <3>2, <2>1 DEF Fresh
  <2>7. Pending'
    BY <2>1, <2>2, <2>4, <2>5, SMTT(40) DEF Once, Pending, Zero, Msg, Requests
  <2>8. QED
    BY <2>6, <2>7 DEF Once
<1>22. CASE CheckAck
  <2>1. Quiet
    BY <1>22, <1>a, SMTT(40)
       DEF CheckAck, Write, Msg, Quiet, Unwritten, Replying, Sending, HasRead
  <2>2. QED
    BY <2>1, OnceQuiet
<1>23. CASE Ping
  <2>1. Quiet
    BY <1>23, <1>a DEF Ping, Write, Msg, Quiet, Unwritten, Replying, Sending, HasRead
  <2>2. QED
    BY <2>1, OnceQuiet
<1>24. CASE UNCHANGED vars
  <2>1. Quiet
    BY <1>24 DEF vars, Quiet, Unwritten, Replying, Sending, HasRead
  <2>2. QED
    BY <2>1, OnceQuiet
<1>25. QED
  BY <1>1, <1>2, <1>3, <1>4, <1>5, <1>6, <1>7, <1>8, <1>9, <1>10,
     <1>11, <1>12, <1>13, <1>14, <1>15, <1>16, <1>17, <1>18, <1>19,
     <1>20, <1>21, <1>22, <1>23, <1>24
  DEF Next, PfStep, VfStep, MsgTaskStep

-----------------------------------------------------------------------------
\* TypeOK: whatever overlaps, the mailbox memory and the messages that are read
\* hold words of messages, and only requests that were made are carried out.
THEOREM TypeCorrect == Spec => []TypeOK
<1>1. Typed => TypeOK
  BY DEF Typed
<1>2. QED
  BY <1>1, TypedInit, TypedKept, PTL DEF Spec

\* MessagesSound: where no ping runs together with ixgbe_msg_task, PF and VF are
\* never in the buffer together, a message is read as it was written, a VF gets
\* the answer to its own request, and a request is carried out once
\* (ixgbe_obtain_mbx_lock_pf, ixgbe_write_mbx_pf, ixgbe_rcv_msg_from_vf).
THEOREM MessagesAreSound == ASSUME ~Overlap PROVE Spec => []MessagesSound
<1> DEFINE IInv == Typed /\ Locked /\ Words /\ Waiting /\ Contents /\ Dialogue /\ Once
<1>1. Init => IInv
  BY TypedInit, LockedInit, WordsInit, WaitingInit, ContentsInit, DialogueInit,
     OnceInit
<1>2. IInv /\ [Next]_vars => IInv'
  BY TypedKept, LockedKept, WordsKept, WaitingKept, ContentsKept, DialogueKept, OnceKept
  DEF Dialogue
<1>3. IInv => MessagesSound
  <2> SUFFICES ASSUME IInv PROVE MessagesSound
    OBVIOUS
  <2>1. Exclusive
    BY DEF Exclusive, Locked
  <2>2. WholeMessages
    <3>1. Intact
      BY DEF Words
    <3>2. QED
      BY <3>1 DEF WholeMessages, Intact, Between
  <2>3. ReplyIsMine
    BY DEF ReplyIsMine, Dialogue, Told, Results3, Answers
  <2>4. AppliedOnce
    BY DEF AppliedOnce, Once, Pending, CarriedOut, Received, HasRead, Requests
  <2>5. QED
    BY <2>1, <2>2, <2>3, <2>4 DEF MessagesSound
<1>4. QED
  BY <1>1, <1>2, <1>3, PTL DEF Spec
=============================================================================
