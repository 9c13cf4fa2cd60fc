--------------------------- MODULE SwFwSyncProofs ---------------------------
(***************************************************************************)
(* Proofs about SwFwSync, for any number of ports, resources, calls and    *)
(* deaths: the types, that what acquire grants is exclusive and stays      *)
(* granted as long as nobody gives up waiting, and that nothing is left    *)
(* locked.                                                                 *)
(***************************************************************************)
EXTENDS SwFwSync, TLAPS

\* Most steps are first-order; those that count or compare records name SMT.
USE ZenonT(30)

-----------------------------------------------------------------------------
(* Owners, as long as nobody has given up waiting.                         *)

\* The callers that own SMBI, and those that own REGSMP.
HasSmbi(t) == th[t].pc \in {"regsmp", "read", "write", "free_read", "free_write",
                            "free_smbi"}
HasReg(t) == th[t].pc \in {"read", "write", "free_read", "free_write"}
Freeing(t) == th[t].pc \in {"free_read", "free_write", "free_smbi"}

\* What a caller owns: what it was told it has, what it has flagged and is
\* about to be told of, and what it is giving back and has not unflagged yet.
Owned(t) ==
    IF \/ th[t].fn = "try" /\ Freeing(t) /\ th[t].after = "ok"
       \/ th[t].fn = "rel" /\ th[t].pc \in {"smbi", "regsmp", "read", "write"}
    THEN th[t].mask ELSE held[t]

\* One caller at a time is past SMBI, and no two parties are past REGSMP.
Semaphores ==
    /\ fwpc = "in" => regsmp
    /\ \A t \in Threads :
        /\ HasSmbi(t) => smbi
        /\ HasReg(t) => regsmp /\ fwpc = "out"
        /\ \A u \in Threads : HasSmbi(t) /\ HasSmbi(u) => t = u

\* Where a caller may stand, and the word it is about to write back: it is the
\* one that the register holds.
Caller(t) ==
    /\ th[t].fn \in {"try", "rel", "init"}
    /\ th[t].fn = "init" => th[t].pc \notin {"read", "write", "sleep"}
    /\ Freeing(t) => th[t].after \in {"sleep", "ok"}
    /\ Freeing(t) /\ th[t].fn # "try" => th[t].after = "ok"
    /\ th[t].probe /\ th[t].fn # "init" => th[t].mask = Res
    /\ th[t].pc # "idle" => held[t] = {}
    /\ th[t].pc = "idle" => th[t].fn = "try"
    /\ th[t].fn = "rel" => th[t].pc # "sleep"
    /\ th[t].pc \in {"write", "free_write"} => th[t].val.sw = sw /\ th[t].val.fw = fw
    /\ th[t].pc = "write" => th[t].val.reg
    /\ th[t].pc = "write" /\ th[t].fn = "try" => th[t].mask \cap (sw \cup fw) = {}

Owners ==
    \A t \in Threads :
        /\ Owned(t) \subseteq sw
        /\ Owned(t) \cap fw = {}
        /\ \A u \in Threads : u # t => Owned(t) \cap Owned(u) = {}

OwnersInv ==
    ~timedout => Semaphores /\ (\A t \in Threads : Caller(t)) /\ Owners

-----------------------------------------------------------------------------
(* Who will give the semaphores back, whatever happened before: a caller   *)
(* on its way there, or a dead driver, whose successor does it first.      *)

Owes(t) ==
    \/ HasSmbi(t) \/ th[t].pc = "dead"
    \/ th[t].pc = "smbi" /\ th[t].fn \in {"nested", "init"}
OwesReg(t) ==
    \/ HasReg(t) \/ th[t].pc = "dead"
    \/ th[t].pc \in {"smbi", "regsmp"} /\ th[t].fn \in {"nested", "init"}

Debts ==
    /\ smbi => \E t \in Threads : Owes(t)
    /\ regsmp => fwpc = "in" \/ \E t \in Threads : OwesReg(t)
    /\ \A t \in Threads : th[t].pc = "free_write" => ~th[t].val.reg

-----------------------------------------------------------------------------
(* Types.                                                                  *)

LEMMA Words == Empty \in Word /\ Idle \in Call
<1>1. Empty \in Word
  BY DEF Empty, Word
<1>2. QED
  BY <1>1 DEF Idle, Call, Steps, Fns, Afters

\* The two ways in which a call goes on keep the types.
LEMMA FreeTyped ==
    ASSUME TypeOK, NEW t \in Threads, NEW step \in Afters, Free(t, step)
    PROVE  th' \in [Threads -> Call]
<1>1. "free_read" \in Steps
  BY DEF Steps
<1>2. QED
  BY <1>1, Words DEF TypeOK, Free, Call

LEMMA ReturnTyped ==
    ASSUME TypeOK, NEW t \in Threads, NEW got \in BOOLEAN, Return(t, got)
    PROVE  th' \in [Threads -> Call] /\ held' \in [Threads -> SUBSET Res]
<1>1. \A f \in {"try", "rel"} :
        [Idle EXCEPT !.pc = "smbi", !.mask = Res, !.probe = TRUE, !.fn = f] \in Call
  BY Words DEF Idle, Call, Steps, Fns
<1>2. th' \in [Threads -> Call]
  BY <1>1, Words DEF TypeOK, Return
<1>3. th[t].mask \in SUBSET Res
  BY DEF TypeOK, Call
<1>4. held' \in [Threads -> SUBSET Res]
  BY <1>3 DEF TypeOK, Return
<1>5. QED
  BY <1>2, <1>4

LEMMA ContinueTyped ==
    ASSUME TypeOK, NEW t \in Threads, NEW step \in Afters, Continue(t, step)
    PROVE  th' \in [Threads -> Call] /\ held' \in [Threads -> SUBSET Res]
<1>1. CASE step \in {"ok", "err"}
  BY <1>1, ReturnTyped DEF Continue
<1>2. CASE step \notin {"ok", "err"}
  <2>1. step \in Steps /\ "ok" \in Afters
    BY <1>2 DEF Steps, Afters
  <2>2. th' = [th EXCEPT ![t].pc = step, ![t].after = "ok"] /\ held' = held
    BY <1>2 DEF Continue
  <2>3. QED
    BY <2>1, <2>2 DEF TypeOK, Call
<1>3. QED
  BY <1>1, <1>2

LEMMA TypeInit == Init => TypeOK
<1> SUFFICES ASSUME Init PROVE TypeOK
  OBVIOUS
<1>1. th \in [Threads -> Call]
  BY Words DEF Init
<1>2. calls \in [Threads -> 0 .. MaxCalls] /\ crashes \in 0 .. MaxCrashes
  BY SwFwAssumption, SMTT(40) DEF Init
<1>3. sw \subseteq Res /\ fw \subseteq Res \ SwOnly /\ held \in [Threads -> SUBSET Res]
  BY DEF Init
<1>4. smbi \in BOOLEAN /\ regsmp \in BOOLEAN /\ timedout \in BOOLEAN /\ fwpc = "out"
  BY DEF Init
<1>5. QED
  BY <1>1, <1>2, <1>3, <1>4 DEF TypeOK

LEMMA TypeKept == TypeOK /\ [Next]_vars => TypeOK'
<1> SUFFICES ASSUME TypeOK, [Next]_vars PROVE TypeOK'
  OBVIOUS
<1> USE SwFwAssumption DEF At, Goto, regs
<1>a. \A t \in Threads : OnGetFailed(th[t].fn) \in Afters
  BY DEF TypeOK, OnGetFailed, Call, Fns, Afters
<1>b. \A reg \in BOOLEAN : [sw |-> sw, fw |-> fw, reg |-> reg] \in Word
  BY DEF TypeOK, Word
<1>c. \A t \in Threads : th[t].val \in Word
  BY DEF TypeOK, Call
<1>d. th \in [Threads -> Call]
  BY DEF TypeOK
<1>1. ASSUME NEW t \in Threads, GetSmbi(t) PROVE TypeOK'
  <2>1. th' \in [Threads -> Call]
    BY <1>1, Words, SMTT(40) DEF GetSmbi, TypeOK, Call, Steps, Fns, Afters
  <2>2. QED
    BY <1>1, <2>1 DEF GetSmbi, TypeOK
<1>2. ASSUME NEW t \in Threads, SmbiTimeout(t) PROVE TypeOK'
  <2>1. th' \in [Threads -> Call] /\ held' \in [Threads -> SUBSET Res]
    BY <1>2, <1>a, ContinueTyped DEF SmbiTimeout
  <2>2. QED
    BY <1>2, <2>1 DEF SmbiTimeout, TypeOK
<1>3. ASSUME NEW t \in Threads, GetRegsmp(t) PROVE TypeOK'
  <2>1. CASE th[t].fn = "init"
    <3>1. th' \in [Threads -> Call]
      BY <1>3, <2>1, FreeTyped DEF GetRegsmp, Afters
    <3>2. QED
      BY <1>3, <3>1 DEF GetRegsmp, TypeOK
  <2>2. CASE th[t].fn # "init"
    <3>1. th' \in [Threads -> Call]
      BY <1>3, <2>2, SMTT(40) DEF GetRegsmp, TypeOK, Call, Steps
    <3>2. QED
      BY <1>3, <3>1 DEF GetRegsmp, TypeOK
  <2>3. QED
    BY <2>1, <2>2
<1>4. ASSUME NEW t \in Threads, RegsmpTimeout(t) PROVE TypeOK'
  <2>1. th' \in [Threads -> Call]
    BY <1>4, <1>a, FreeTyped DEF RegsmpTimeout
  <2>2. QED
    BY <1>4, <2>1 DEF RegsmpTimeout, TypeOK
<1>5. ASSUME NEW t \in Threads, ReadSync(t) PROVE TypeOK'
  <2> DEFINE c == th[t]
  <2>1. c \in Call
    BY DEF TypeOK
  <2>2. /\ \A step \in Afters : [c EXCEPT !.pc = "free_read", !.after = step] \in Call
        /\ [c EXCEPT !.fn = "nested", !.mask = Res, !.pc = "smbi"] \in Call
    BY <2>1 DEF Call, Steps, Fns
  <2>3. [c EXCEPT !.pc = "write", !.val = [sw |-> sw, fw |-> fw, reg |-> regsmp]] \in Call
    BY <2>1, <1>b DEF Call, Steps, TypeOK
  <2>4. "sleep" \in Afters /\ "err" \in Afters
    BY DEF Afters
  <2>5. PICK d \in Call : th' = [th EXCEPT ![t] = d]
    BY <1>5, <2>2, <2>3, <2>4 DEF ReadSync, Decide
  <2>6. QED
    BY <1>5, <2>5 DEF ReadSync, TypeOK
<1>6. ASSUME NEW t \in Threads, WriteSync(t) PROVE TypeOK'
  <2>1. th' \in [Threads -> Call]
    BY <1>6, FreeTyped DEF WriteSync, Afters
  <2>2. sw' \subseteq Res /\ fw' \subseteq Res \ SwOnly /\ regsmp' \in BOOLEAN
    BY <1>6, <1>c DEF WriteSync, NewSw, NewFw, TypeOK, Call, Word
  <2>3. QED
    BY <1>6, <2>1, <2>2 DEF WriteSync, TypeOK
<1>7. ASSUME NEW t \in Threads, FreeRead(t) PROVE TypeOK'
  <2> DEFINE w == [sw |-> sw, fw |-> fw, reg |-> FALSE]
  <2>1. w \in Word /\ "free_write" \in Steps
    BY <1>b DEF Steps
  <2>2. th' = [th EXCEPT ![t].pc = "free_write", ![t].val = w]
    BY <1>7 DEF FreeRead
  <2> HIDE DEF w
  <2>3. th' \in [Threads -> Call]
    BY <2>1, <2>2, <1>d DEF Call
  <2>4. QED
    BY <1>7, <2>3 DEF FreeRead, TypeOK
<1>8. ASSUME NEW t \in Threads, FreeWrite(t) PROVE TypeOK'
  <2>1. th' \in [Threads -> Call]
    BY <1>8, Words DEF FreeWrite, TypeOK, Call, Steps
  <2>2. sw' \subseteq Res /\ fw' \subseteq Res \ SwOnly /\ regsmp' \in BOOLEAN
    BY <1>8, <1>c DEF FreeWrite, Word
  <2>3. QED
    BY <1>8, <2>1, <2>2 DEF FreeWrite, TypeOK
<1>9. ASSUME NEW t \in Threads, FreeSmbi(t) PROVE TypeOK'
  <2>1. th' \in [Threads -> Call] /\ held' \in [Threads -> SUBSET Res]
    <3>1. CASE th[t].fn = "nested" /\ th[t].after = "ok"
      BY <1>9, <3>1, SMTT(40) DEF FreeSmbi, TypeOK, Call, Steps, Fns, Afters
    <3>2. CASE ~(th[t].fn = "nested" /\ th[t].after = "ok")
      BY <1>9, <3>2, ContinueTyped DEF FreeSmbi, TypeOK, Call
    <3>3. QED
      BY <3>1, <3>2
  <2>2. QED
    BY <1>9, <2>1 DEF FreeSmbi, TypeOK
<1>10. ASSUME NEW t \in Threads, GiveUp(t) PROVE TypeOK'
  <2>1. "smbi" \in Steps /\ "force" \in Fns
    BY DEF Steps, Fns
  <2>2. th' \in [Threads -> Call]
    BY <1>10, <1>d, <2>1 DEF GiveUp, Call
  <2>3. QED
    BY <1>10, <2>2 DEF GiveUp, TypeOK
<1>11. ASSUME NEW t \in Threads, Release(t) PROVE TypeOK'
  <2>1. [Idle EXCEPT !.pc = "smbi", !.fn = "rel", !.mask = held[t]] \in Call
    BY Words DEF Call, Steps, Fns, TypeOK
  <2>2. QED
    BY <1>11, <2>1 DEF Release, TypeOK
<1>12. ASSUME NEW t \in Threads, Probe(t) PROVE TypeOK'
  <2>1. [Idle EXCEPT !.pc = "smbi", !.fn = "init", !.probe = TRUE] \in Call
    BY Words DEF Call, Steps, Fns
  <2>2. QED
    BY <1>12, <2>1 DEF Probe, TypeOK
<1>13. ASSUME NEW t \in Threads, Again(t) PROVE TypeOK'
  <2>1. th' \in [Threads -> Call]
    BY <1>13, Words, SMTT(40) DEF Again, TypeOK, Call, Steps, Fns, Afters
  <2>2. QED
    BY <1>13, <2>1 DEF Again, TypeOK
<1>14. ASSUME NEW t \in Threads, Acquire(t) PROVE TypeOK'
  <2>1. \A r \in Res : [Idle EXCEPT !.pc = "smbi", !.mask = {r}] \in Call
    BY Words DEF Call, Steps
  <2>2. th' \in [Threads -> Call]
    BY <1>14, <2>1 DEF Acquire, TypeOK
  <2>3. QED
    BY <1>14, <2>2, SMTT(40) DEF Acquire, TypeOK
<1>15. ASSUME NEW t \in Threads, Crash(t) PROVE TypeOK'
  <2>1. [Idle EXCEPT !.pc = "dead"] \in Call
    BY Words DEF Call, Steps
  <2>2. QED
    BY <1>15, <2>1, SMTT(40) DEF Crash, TypeOK
<1>16. CASE FwLock
  BY <1>16 DEF FwLock, TypeOK
<1>17. CASE FwUpdate
  BY <1>17 DEF FwUpdate, TypeOK
<1>18. CASE UNCHANGED vars
  BY <1>18 DEF vars, TypeOK
<1>19. QED
  BY <1>1, <1>2, <1>3, <1>4, <1>5, <1>6, <1>7, <1>8, <1>9, <1>10, <1>11,
     <1>12, <1>13, <1>14, <1>15, <1>16, <1>17, <1>18
  DEF Next, ThreadStep

\* TypeOK: no step writes a word back that SW_FW_SYNC cannot hold, such as a
\* firmware flag of a resource that has none.
THEOREM TypeCorrect == Spec => []TypeOK
  BY TypeInit, TypeKept, PTL DEF Spec

-----------------------------------------------------------------------------
(* Nothing is left locked.                                                 *)

LEMMA DebtsInit == Init => Debts
  BY SMTT(40) DEF Init, Debts, Idle

LEMMA DebtsKept == TypeOK /\ Debts /\ [Next]_vars => Debts'
<1> SUFFICES ASSUME TypeOK, Debts, [Next]_vars PROVE Debts'
  OBVIOUS
<1> USE DEF Debts, Owes, OwesReg, HasSmbi, HasReg, At, Goto, Free, regs
<1>a. th \in [Threads -> Call]
  BY DEF TypeOK
<1>1. ASSUME NEW t \in Threads, GetSmbi(t) PROVE Debts'
  BY <1>a, <1>1 DEF GetSmbi, Call
<1>2. ASSUME NEW t \in Threads, SmbiTimeout(t) PROVE Debts'
  <2>1. CASE th[t].fn \in {"try", "force"}
    <3>1. Return(t, FALSE)
      BY <1>2, <2>1 DEF SmbiTimeout, Continue, OnGetFailed
    <3>2. \A u \in Threads : th'[u] # th[u] => u = t
      BY <1>a, <3>1 DEF Return
    <3>3. th'[t].pc # "free_write"
      BY <1>a, <3>1 DEF Return, Idle
    <3>4. ~Owes(t) /\ ~OwesReg(t)
      BY <1>2, <2>1 DEF SmbiTimeout
    <3>5. QED
      BY <1>2, <3>2, <3>3, <3>4 DEF SmbiTimeout
  <2>2. CASE th[t].fn \in {"rel", "nested", "init"}
    <3>1. OnGetFailed(th[t].fn) \in {"read", "free_read"}
      BY <2>2 DEF OnGetFailed
    <3>2. th'[t].pc \in {"read", "free_read"}
      BY <1>a, <1>2, <3>1 DEF SmbiTimeout, Continue, Call
    <3>3. \A u \in Threads : th'[u] # th[u] => u = t
      BY <1>a, <1>2, <3>1 DEF SmbiTimeout, Continue
    <3>4. QED
      BY <1>2, <3>2, <3>3 DEF SmbiTimeout
  <2>3. QED
    BY <1>a, <2>1, <2>2 DEF Call, Fns
<1>3. ASSUME NEW t \in Threads, GetRegsmp(t) PROVE Debts'
  BY <1>a, <1>3, SMTT(40) DEF GetRegsmp, Call
<1>4. ASSUME NEW t \in Threads, RegsmpTimeout(t) PROVE Debts'
  <2>1. th'[t].pc = "free_read"
    BY <1>a, <1>4 DEF RegsmpTimeout, Call
  <2>2. \A u \in Threads : th'[u] # th[u] => u = t
    BY <1>a, <1>4 DEF RegsmpTimeout
  <2>3. QED
    BY <1>4, <2>1, <2>2 DEF RegsmpTimeout
<1>5. ASSUME NEW t \in Threads, ReadSync(t) PROVE Debts'
  BY <1>a, <1>5, SMTT(40) DEF ReadSync, Decide, Call
<1>6. ASSUME NEW t \in Threads, WriteSync(t) PROVE Debts'
  BY <1>a, <1>6, SMTT(40) DEF WriteSync, Call
<1>7. ASSUME NEW t \in Threads, FreeRead(t) PROVE Debts'
  BY <1>a, <1>7, SMTT(40) DEF FreeRead, Call
<1>8. ASSUME NEW t \in Threads, FreeWrite(t) PROVE Debts'
  BY <1>a, <1>8, SMTT(40) DEF FreeWrite, Call
<1>9. ASSUME NEW t \in Threads, FreeSmbi(t) PROVE Debts'
  <2>1. ~OwesReg(t) /\ ~smbi'
    BY <1>9 DEF FreeSmbi
  <2>2. \A u \in Threads : th'[u] # th[u] => u = t
    BY <1>a, <1>9 DEF FreeSmbi, Continue, Return
  <2>3. th'[t].pc # "free_write"
    <3>1. CASE th[t].fn = "nested" /\ th[t].after = "ok"
      BY <1>a, <1>9, <3>1, SMTT(40) DEF FreeSmbi, Call
    <3>2. CASE Continue(t, th[t].after)
      <4>1. CASE \E got \in BOOLEAN : Return(t, got)
        BY <1>a, <4>1, SMTT(40) DEF Return, Idle
      <4>2. CASE ~\E got \in BOOLEAN : Return(t, got)
        BY <1>a, <3>2, <4>2 DEF Continue, Call, Afters
      <4>3. QED
        BY <4>1, <4>2
    <3>3. QED
      BY <1>9, <3>1, <3>2 DEF FreeSmbi
  <2>4. QED
    BY <1>9, <2>1, <2>2, <2>3 DEF FreeSmbi
<1>10. ASSUME NEW t \in Threads, GiveUp(t) PROVE Debts'
  BY <1>a, <1>10, SMTT(40) DEF GiveUp, Call
<1>11. ASSUME NEW t \in Threads, Release(t) PROVE Debts'
  BY <1>a, <1>11 DEF Release, Idle, Call
<1>12. ASSUME NEW t \in Threads, Probe(t) PROVE Debts'
  BY <1>a, <1>12 DEF Probe, Idle, Call
<1>13. ASSUME NEW t \in Threads, Again(t) PROVE Debts'
  BY <1>a, <1>13, SMTT(40) DEF Again, Call
<1>14. ASSUME NEW t \in Threads, Acquire(t) PROVE Debts'
  BY <1>a, <1>14, SMTT(40) DEF Acquire, Idle, Call
<1>15. ASSUME NEW t \in Threads, Crash(t) PROVE Debts'
  BY <1>a, <1>15 DEF Crash, Idle, Call
<1>16. CASE FwLock
  BY <1>16 DEF FwLock
<1>17. CASE FwUpdate
  BY <1>17 DEF FwUpdate
<1>18. CASE UNCHANGED vars
  BY <1>18 DEF vars
<1>19. QED
  BY <1>1, <1>2, <1>3, <1>4, <1>5, <1>6, <1>7, <1>8, <1>9, <1>10, <1>11,
     <1>12, <1>13, <1>14, <1>15, <1>16, <1>17, <1>18
  DEF Next, ThreadStep

\* QuietFree: when no call is in progress and the firmware is away from
\* SW_FW_SYNC, SMBI and REGSMP are free, whoever died or gave up before
\* (ixgbe_release_swfw_sync_semaphore, ixgbe_init_swfw_sync_X540).
THEOREM NothingLeftLocked == Spec => []QuietFree
<1>1. Init => TypeOK /\ Debts
  BY TypeInit, DebtsInit
<1>2. TypeOK /\ Debts /\ [Next]_vars => (TypeOK /\ Debts)'
  BY TypeKept, DebtsKept
<1>3. Debts => QuietFree
  BY DEF Debts, QuietFree, Owes, OwesReg, HasSmbi, HasReg, At
<1>4. QED
  BY <1>1, <1>2, <1>3, PTL DEF Spec

-----------------------------------------------------------------------------
(* Exclusion.                                                              *)

Good == Semaphores /\ (\A t \in Threads : Caller(t)) /\ Owners

LEMMA GoodInit == Init => Good
  BY SMTT(40)
     DEF Init, Good, Semaphores, Caller, Owners, Owned, HasSmbi, HasReg, Freeing, Idle

LEMMA GoodKept == ASSUME TypeOK, Good, ~timedout, [Next]_vars, ~timedout' PROVE Good'
<1> USE DEF At, Goto, Free, regs
<1>a. th \in [Threads -> Call] /\ held \in [Threads -> SUBSET Res]
  BY DEF TypeOK
<1>1. ASSUME NEW t \in Threads, GetSmbi(t) PROVE Good'
  <2>1. Semaphores'
    BY <1>a, <1>1, SMTT(40) DEF GetSmbi, Call, Good, Semaphores, HasSmbi, HasReg, Caller
  <2>2. ASSUME NEW u \in Threads PROVE Caller(u)'
    BY <1>a, <1>1, SMTT(40) DEF GetSmbi, Call, Good, Caller, Freeing
  <2>3. Owners'
    BY <1>a, <1>1, SMTT(40) DEF GetSmbi, Call, Good, Caller, Freeing, Owners, Owned
  <2>4. QED
    BY <2>1, <2>2, <2>3 DEF Good
<1>2. ASSUME NEW t \in Threads, GetRegsmp(t) PROVE Good'
  <2>1. Semaphores'
    <3>1. th'[t].pc \in {"read", "free_read"}
      BY <1>a, <1>2, SMTT(40) DEF GetRegsmp, Call
    <3>2. \A u \in Threads : th'[u] # th[u] => u = t
      BY <1>a, <1>2 DEF GetRegsmp
    <3>3. fwpc = "out" /\ HasSmbi(t) /\ \A u \in Threads : HasReg(u) => u = t
      BY <1>2 DEF GetRegsmp, Good, Semaphores, HasSmbi, HasReg, TypeOK
    <3>4. QED
      BY <1>2, <3>1, <3>2, <3>3 DEF GetRegsmp, Good, Semaphores, HasSmbi, HasReg
  <2>2. ASSUME NEW u \in Threads PROVE Caller(u)'
    BY <1>a, <1>2, SMTT(40) DEF GetRegsmp, Call, Good, Caller, Freeing
  <2>3. Owners'
    BY <1>a, <1>2, SMTT(40) DEF GetRegsmp, Call, Good, Caller, Freeing, Owners, Owned
  <2>4. QED
    BY <2>1, <2>2, <2>3 DEF Good
<1>3. ASSUME NEW t \in Threads, ReadSync(t) PROVE Good'
  <2>1. Semaphores'
    BY <1>a, <1>3, SMTT(40)
       DEF ReadSync, Decide, Taken, Call, Good, Semaphores, HasSmbi, HasReg, Caller
  <2>2. ASSUME NEW u \in Threads PROVE Caller(u)'
    <3>1. regsmp
      BY <1>3 DEF ReadSync, Good, Semaphores, HasReg
    <3>2. QED
      BY <1>a, <1>3, <3>1, SMTT(40) DEF ReadSync, Decide, Taken, Call, Good, Caller, Freeing
  <2>3. Owners'
    <3>1. \A u \in Threads : th'[u] # th[u] => u = t
      BY <1>a, <1>3 DEF ReadSync, Decide
    <3>2. th'[t].fn = th[t].fn /\ th'[t].mask = th[t].mask
      BY <1>a, <1>3, SMTT(40) DEF ReadSync, Decide, Call, Good, Caller
    <3>3. \/ th'[t].pc = "write"
          \/ th'[t].pc = "free_read" /\ th[t].fn = "try" /\ th'[t].after = "sleep"
      BY <1>a, <1>3, SMTT(40) DEF ReadSync, Decide, Call, Good, Caller
    <3>4. \A u \in Threads : Owned(u)' = Owned(u)
      BY <1>3, <3>1, <3>2, <3>3 DEF ReadSync, Owned, Freeing
    <3>5. QED
      BY <1>3, <3>4 DEF ReadSync, Good, Owners
  <2>4. QED
    BY <2>1, <2>2, <2>3 DEF Good
<1>4. ASSUME NEW t \in Threads, WriteSync(t) PROVE Good'
  <2>1. Semaphores'
    BY <1>a, <1>4, SMTT(40)
       DEF WriteSync, NewSw, NewFw, Call, Good, Semaphores, HasSmbi, HasReg, Caller
  <2>2. ASSUME NEW u \in Threads PROVE Caller(u)'
    BY <1>a, <1>4, SMTT(40)
       DEF WriteSync, NewSw, NewFw, Call, Good, Semaphores, HasSmbi, HasReg, Caller, Freeing
  <2>3. Owners'
    BY <1>a, <1>4, SMTT(40)
       DEF WriteSync, NewSw, NewFw, Call, Good, Caller, Freeing, Owners, Owned
  <2>4. QED
    BY <2>1, <2>2, <2>3 DEF Good
<1>5. ASSUME NEW t \in Threads, FreeRead(t) PROVE Good'
  <2>1. Semaphores'
    BY <1>a, <1>5 DEF FreeRead, Call, Good, Semaphores, HasSmbi, HasReg, Caller
  <2>2. ASSUME NEW u \in Threads PROVE Caller(u)'
    BY <1>a, <1>5, SMTT(40) DEF FreeRead, Call, Good, Caller, Freeing
  <2>3. Owners'
    BY <1>a, <1>5, SMTT(40) DEF FreeRead, Call, Good, Caller, Freeing, Owners, Owned
  <2>4. QED
    BY <2>1, <2>2, <2>3 DEF Good
<1>6. ASSUME NEW t \in Threads, FreeWrite(t) PROVE Good'
  <2>1. Semaphores'
    BY <1>a, <1>6, SMTT(40) DEF FreeWrite, Call, Good, Semaphores, HasSmbi, HasReg, Caller
  <2>2. ASSUME NEW u \in Threads PROVE Caller(u)'
    BY <1>a, <1>6, SMTT(40)
       DEF FreeWrite, Call, Good, Semaphores, HasSmbi, HasReg, Caller, Freeing
  <2>3. Owners'
    BY <1>a, <1>6, SMTT(40) DEF FreeWrite, Call, Good, Caller, Freeing, Owners, Owned
  <2>4. QED
    BY <2>1, <2>2, <2>3 DEF Good
<1>7. ASSUME NEW t \in Threads, FreeSmbi(t) PROVE Good'
  <2>1. CASE th[t].after = "sleep"
    <3>1. th' = [th EXCEPT ![t].pc = "sleep", ![t].after = "ok"] /\ held' = held
      BY <1>7, <2>1 DEF FreeSmbi, Continue
    <3>2. th[t].fn = "try" /\ th[t].pc = "free_smbi" /\ held[t] = {}
      BY <1>7, <2>1 DEF FreeSmbi, Good, Caller, Freeing
    <3>h. held' = held
      BY <3>1
    <3>3. /\ \A u \in Threads : th'[u] # th[u] => u = t
          /\ th'[t].pc = "sleep" /\ th'[t].fn = "try"
          /\ th'[t].mask = th[t].mask /\ th'[t].probe = th[t].probe
      BY <1>a, <3>1, <3>2 DEF Call
    <3>4. Semaphores'
      BY <1>7, <3>3 DEF FreeSmbi, Good, Semaphores, HasSmbi, HasReg
    <3>5. ASSUME NEW u \in Threads PROVE Caller(u)'
      BY <1>7, <3>h, <3>2, <3>3, SMTT(40) DEF FreeSmbi, Good, Caller, Freeing
    <3>6. \A u \in Threads : Owned(u)' = Owned(u)
      BY <2>1, <3>h, <3>2, <3>3 DEF Owned, Freeing
    <3>7. Owners'
      BY <1>7, <3>6 DEF FreeSmbi, Good, Owners
    <3>8. QED
      BY <3>4, <3>5, <3>7 DEF Good
  <2>2. CASE th[t].after = "ok" /\ th[t].probe /\ th[t].fn # "rel"
    <3>1. Return(t, TRUE)
      BY <1>7, <2>2 DEF FreeSmbi, Continue, Good, Caller
    <3>2. /\ \A u \in Threads : th'[u] # th[u] => u = t
          /\ th'[t].pc = "smbi" /\ th'[t].mask = Res /\ th'[t].probe
          /\ th'[t].fn = IF th[t].fn = "init" THEN "try" ELSE "rel"
      BY <1>a, <2>2, <3>1 DEF Return, Idle
    <3>3. held' = held
      <4>1. held[t] = {}
        BY <1>7 DEF FreeSmbi, Good, Caller
      <4>2. QED
        BY <1>a, <2>2, <3>1, <4>1 DEF Return
    <3>4. Semaphores'
      BY <1>7, <3>2 DEF FreeSmbi, Good, Semaphores, HasSmbi, HasReg
    <3>5. ASSUME NEW u \in Threads PROVE Caller(u)'
      BY <1>7, <3>2, <3>3, SMTT(40) DEF FreeSmbi, Good, Caller, Freeing
    <3>6. th[t].fn = "try" => th[t].mask = Res
      BY <2>2 DEF Good, Caller
    <3>7. \A u \in Threads : Owned(u)' = Owned(u)
      BY <1>7, <2>2, <3>2, <3>3, <3>6, SMTT(40) DEF FreeSmbi, Good, Caller, Owned, Freeing
    <3>8. Owners'
      BY <1>7, <3>7 DEF FreeSmbi, Good, Owners
    <3>9. QED
      BY <3>4, <3>5, <3>8 DEF Good
  <2>3. CASE th[t].after = "ok" /\ (~th[t].probe \/ th[t].fn = "rel")
    <3>1. Return(t, TRUE)
      BY <1>7, <2>3 DEF FreeSmbi, Continue, Good, Caller
    <3>2. th' = [th EXCEPT ![t] = Idle]
      BY <2>3, <3>1 DEF Return
    <3>3. /\ \A u \in Threads : th'[u] # th[u] => u = t
          /\ th'[t] = Idle
      BY <1>a, <3>2
    <3>4. held' = [held EXCEPT ![t] = IF th[t].fn = "try" THEN th[t].mask ELSE {}]
      BY <2>3, <3>1 DEF Return, Good, Caller
    <3>5. Semaphores'
      BY <1>7, <3>3, SMTT(40) DEF FreeSmbi, Good, Semaphores, HasSmbi, HasReg, Idle
    <3>6. ASSUME NEW u \in Threads PROVE Caller(u)'
      BY <1>a, <1>7, <3>3, <3>4, SMTT(40) DEF FreeSmbi, Good, Caller, Freeing, Idle
    <3>7. \A u \in Threads : Owned(u)' = Owned(u)
      <4>1. /\ th[t].pc = "free_smbi" /\ held[t] = {}
            /\ (th[t].fn = "try" \/ th[t].fn = "rel" \/ th[t].fn = "init")
        BY <1>7 DEF FreeSmbi, Good, Caller
      <4>2. Owned(t)' = Owned(t)
        BY <1>a, <2>3, <3>3, <3>4, <4>1, SMTT(40) DEF Owned, Freeing, Idle
      <4>3. \A u \in Threads \ {t} : th'[u] = th[u] /\ held'[u] = held[u]
        BY <1>a, <3>2, <3>4
      <4>4. \A u \in Threads \ {t} : Owned(u)' = Owned(u)
        BY <4>3 DEF Owned, Freeing
      <4>5. QED
        BY <4>2, <4>4
    <3>8. Owners'
      BY <1>7, <3>7 DEF FreeSmbi, Good, Owners
    <3>9. QED
      BY <3>5, <3>6, <3>8 DEF Good
  <2>4. QED
    BY <1>7, <2>1, <2>2, <2>3 DEF FreeSmbi, Good, Caller, Freeing
<1>8. ASSUME NEW t \in Threads, Release(t) PROVE Good'
  <2>1. Semaphores'
    BY <1>a, <1>8, SMTT(40)
       DEF Release, Idle, Call, Good, Semaphores, HasSmbi, HasReg, Caller
  <2>2. ASSUME NEW u \in Threads PROVE Caller(u)'
    BY <1>a, <1>8
       DEF Release, Idle, Call, Good, Semaphores, HasSmbi, HasReg, Caller, Freeing
  <2>3. Owners'
    BY <1>a, <1>8, SMTT(40) DEF Release, Idle, Call, Good, Caller, Freeing, Owners, Owned
  <2>4. QED
    BY <2>1, <2>2, <2>3 DEF Good
<1>9. ASSUME NEW t \in Threads, Probe(t) PROVE Good'
  <2>1. Semaphores'
    BY <1>a, <1>9, SMTT(40) DEF Probe, Idle, Call, Good, Semaphores, HasSmbi, HasReg, Caller
  <2>2. ASSUME NEW u \in Threads PROVE Caller(u)'
    BY <1>a, <1>9 DEF Probe, Idle, Call, Good, Caller, Freeing
  <2>3. Owners'
    BY <1>a, <1>9, SMTT(40) DEF Probe, Idle, Call, Good, Caller, Freeing, Owners, Owned
  <2>4. QED
    BY <2>1, <2>2, <2>3 DEF Good
<1>10. ASSUME NEW t \in Threads, Again(t) PROVE Good'
  <2>1. Semaphores'
    BY <1>a, <1>10, SMTT(40) DEF Again, Call, Good, Semaphores, HasSmbi, HasReg, Caller
  <2>2. ASSUME NEW u \in Threads PROVE Caller(u)'
    BY <1>a, <1>10, SMTT(40) DEF Again, Call, Good, Caller, Freeing
  <2>3. Owners'
    BY <1>a, <1>10, SMTT(40) DEF Again, Call, Good, Caller, Freeing, Owners, Owned
  <2>4. QED
    BY <2>1, <2>2, <2>3 DEF Good
<1>11. ASSUME NEW t \in Threads, Acquire(t) PROVE Good'
  <2>1. Semaphores'
    BY <1>a, <1>11, SMTT(40)
       DEF Acquire, Idle, Call, Good, Semaphores, HasSmbi, HasReg, Caller
  <2>2. ASSUME NEW u \in Threads PROVE Caller(u)'
    BY <1>a, <1>11, SMTT(40) DEF Acquire, Idle, Call, Good, Caller, Freeing
  <2>3. Owners'
    BY <1>a, <1>11, SMTT(40) DEF Acquire, Idle, Call, Good, Caller, Freeing, Owners, Owned
  <2>4. QED
    BY <2>1, <2>2, <2>3 DEF Good
<1>12. ASSUME NEW t \in Threads, Crash(t) PROVE Good'
  <2>1. Semaphores'
    BY <1>a, <1>12, SMTT(40)
       DEF Crash, Idle, Call, Good, Semaphores, HasSmbi, HasReg, Caller
  <2>2. ASSUME NEW u \in Threads PROVE Caller(u)'
    BY <1>a, <1>12 DEF Crash, Idle, Call, Good, Caller, Freeing
  <2>3. Owners'
    BY <1>a, <1>12, SMTT(40) DEF Crash, Idle, Call, Good, Caller, Freeing, Owners, Owned
  <2>4. QED
    BY <2>1, <2>2, <2>3 DEF Good
<1>13. CASE FwLock
  <2>1. Semaphores' /\ Owners'
    BY <1>13, SMTT(40) DEF FwLock, Good, Semaphores, HasSmbi, HasReg, Owners, Owned, Freeing
  <2>2. ASSUME NEW u \in Threads PROVE Caller(u)'
    BY <1>13 DEF FwLock, Good, Semaphores, HasSmbi, HasReg, Caller, Freeing
  <2>3. QED
    BY <2>1, <2>2 DEF Good
<1>14. CASE FwUpdate
  <2>1. Semaphores' /\ Owners'
    BY <1>14, SMTT(40)
       DEF FwUpdate, Good, Semaphores, HasSmbi, HasReg, Owners, Owned, Freeing
  <2>2. ASSUME NEW u \in Threads PROVE Caller(u)'
    BY <1>14 DEF FwUpdate, Good, Semaphores, HasSmbi, HasReg, Caller, Freeing
  <2>3. QED
    BY <2>1, <2>2 DEF Good
<1>15. CASE UNCHANGED vars
  <2>1. Semaphores' /\ Owners'
    BY <1>15, SMTT(40) DEF vars, Good, Semaphores, HasSmbi, HasReg, Owners, Owned, Freeing
  <2>2. ASSUME NEW u \in Threads PROVE Caller(u)'
    BY <1>15 DEF vars, Good, Semaphores, HasSmbi, HasReg, Caller, Freeing
  <2>3. QED
    BY <2>1, <2>2 DEF Good
<1>16. QED
  BY <1>1, <1>2, <1>3, <1>4, <1>5, <1>6, <1>7, <1>8, <1>9, <1>10, <1>11, <1>12, <1>13, <1>14, <1>15
  DEF Next, ThreadStep, SmbiTimeout, RegsmpTimeout, GiveUp

\* OwnersSound: as long as nobody gives up waiting, what acquire grants is not
\* granted to anybody else, nor taken by the firmware, and stays flagged in
\* SW_FW_SYNC until it is given back (ixgbe_acquire_swfw_sync_X540), whatever
\* drivers die and are probed again meanwhile (ixgbe_init_swfw_sync_X540).
THEOREM OwnersAreSound == Spec => []OwnersSound
<1>1. Init => TypeOK /\ OwnersInv
  BY TypeInit, GoodInit DEF Good, OwnersInv
<1>2. TypeOK /\ OwnersInv /\ [Next]_vars => OwnersInv'
  <2> SUFFICES ASSUME TypeOK, OwnersInv, [Next]_vars, ~timedout'
               PROVE  Good'
    BY DEF OwnersInv, Good
  <2>1. ~timedout
    BY DEF Next, ThreadStep, vars, GetSmbi, SmbiTimeout, GetRegsmp, RegsmpTimeout,
           ReadSync, WriteSync, FreeRead, FreeWrite, FreeSmbi, GiveUp, Release,
           Probe, Again, Acquire, Crash, FwLock, FwUpdate
  <2>2. QED
    BY <2>1, GoodKept DEF OwnersInv, Good
<1>3. TypeOK /\ OwnersInv => OwnersSound
  <2> SUFFICES ASSUME TypeOK, OwnersInv, ~timedout PROVE OwnersSound
    BY DEF OwnersSound, OneOwner, FlagsKept
  <2>1. \A t \in Threads : Owned(t) = held[t] \/ held[t] = {}
    BY DEF OwnersInv, Caller, Owned, Freeing
  <2>2. QED
    BY <2>1 DEF OwnersInv, Owners, OwnersSound, OneOwner, FlagsKept
<1>4. QED
  BY <1>1, <1>2, <1>3, TypeKept, PTL DEF Spec
=============================================================================
