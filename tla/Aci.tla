--------------------------------- MODULE Aci --------------------------------
(***************************************************************************)
(* The Admin Command Interface of the E610 (ixgbe_e610.c): a command is    *)
(* written to registers and answered in them, at once or with an           *)
(* acknowledgement first, and hw->aci.lock admits one command at a time.   *)
(* Threads send commands and ask for the NVM resource                      *)
(* (ixgbe_acquire_res), the service task fetches the firmware's events     *)
(* (ixgbe_handle_fw_event).  The firmware is external; it may answer after *)
(* the driver gave up.                                                     *)
(***************************************************************************)
EXTENDS Naturals, TLAPS

CONSTANTS
    Threads,      \* threads that send commands, beside the service task
    Ops,          \* kinds of the commands that they send
    MaxCalls,     \* bound: commands that the threads send
    MaxExecute,   \* IXGBE_ACI_SEND_MAX_EXECUTE
    MaxTrouble,   \* bound: timeouts, errors and busy answers
    MaxEvents,    \* bound: events of the firmware
    Spent         \* the pairs of calls and events that are spent at the start

VARIABLES
    thr,          \* what a thread does, and with which command
    lock,         \* hw->aci.lock: its holder, or Free
    hicr,         \* PF_HICR: C, SV, EV
    hida, hida2,  \* PF_HIDA, PF_HIDA_2: descriptors
    last_status,  \* hw->aci.last_status, of the last command of any thread
    work,         \* firmware: the command that it took
    held,         \* firmware: another function owns the resource
    evq,          \* firmware: events that wait
    eicr,         \* the interrupt of an event
    async_event,  \* IXGBE_FLAG2_FW_ASYNC_EVENT
    executed,     \* firmware: how often it carried out each command
    spoiled,      \* an event was fetched in vain, or its fetching failed
    calls, trouble, events

regs == <<hicr, hida, hida2>>
fw == <<work, held, evq, eicr, executed>>
bounds == <<calls, trouble, events>>
cvars == <<thr, lock, regs, last_status, fw, async_event, spoiled, bounds>>

Service == "service"
Free == "free"
All == Threads \cup {Service}
Ids == 1 .. MaxCalls
Nothing == [id |-> 0, op |-> "none", ret |-> "ok"]
Descs == [id : 0 .. MaxCalls, op : Ops \cup {"none", "event"},
          ret : {"ok", "busy", "error"}]
Quiet == [c |-> FALSE, sv |-> FALSE, ev |-> FALSE]
Hicr == [c : BOOLEAN, sv : BOOLEAN, ev : BOOLEAN]
Rest == [at |-> "idle", id |-> 0, op |-> "none", tries |-> 0, h |-> Quiet,
         got |-> Nothing, status |-> "none", more |-> FALSE]

TypeOK ==
    /\ thr \in [All -> [at : {"idle", "lock", "sync", "async", "read", "after"},
                        id : 0 .. MaxCalls, op : Ops \cup {"none", "event"},
                        tries : 0 .. MaxExecute, h : Hicr, got : Descs,
                        status : {"none", "ok", "busy", "timeout", "error", "nowait"},
                        more : BOOLEAN]]
    /\ lock \in All \cup {Free} /\ hicr \in Hicr
    /\ hida \in Descs /\ hida2 \in Descs /\ work \in Descs
    /\ last_status \in {"ok", "busy", "error"}
    /\ held \in BOOLEAN /\ evq \in 0 .. MaxEvents
    /\ {eicr, async_event, spoiled} \subseteq BOOLEAN
    /\ executed \in [Ids -> 0 .. MaxExecute + 1]
    /\ calls \in 0 .. MaxCalls /\ trouble \in 0 .. MaxTrouble
    /\ events \in 0 .. MaxEvents

Init ==
    /\ thr = [t \in All |-> Rest] /\ lock = Free
    /\ hicr = Quiet /\ hida = Nothing /\ hida2 = Nothing /\ work = Nothing
    /\ last_status = "ok" /\ held \in BOOLEAN
    /\ evq = 0 /\ eicr = FALSE /\ async_event = FALSE
    /\ executed = [i \in Ids |-> 0] /\ spoiled = FALSE
    /\ \E s \in Spent : calls = s[1] /\ events = s[2]
    /\ trouble = 0

Set(t, r) == thr' = [thr EXCEPT ![t] = r]
Go(t, l) == Set(t, [thr[t] EXCEPT !.at = l])
Trouble == trouble < MaxTrouble /\ trouble' = trouble + 1

-----------------------------------------------------------------------------
(* ixgbe_aci_send_cmd, ixgbe_aci_get_event                                 *)

Call(t, op) ==
    /\ thr[t].at = "idle" /\ t # Service /\ calls < MaxCalls
    /\ calls' = calls + 1
    /\ Set(t, [Rest EXCEPT !.at = "lock", !.id = calls + 1, !.op = op])
    /\ UNCHANGED <<lock, regs, last_status, fw, async_event, spoiled, trouble, events>>

\* ixgbe_handle_fw_event: the flag is cleared before the events are fetched.
HandleEvents ==
    /\ thr[Service].at = "idle" /\ async_event
    /\ async_event' = FALSE
    /\ Set(Service, [Rest EXCEPT !.at = "lock", !.op = "event"])
    /\ UNCHANGED <<lock, regs, last_status, fw, spoiled, bounds>>

\* ixgbe_aci_check_event_pending: no event, so no command.
NoEvent ==
    /\ thr[Service].at = "lock" /\ lock = Free /\ evq = 0
    /\ Set(Service, [thr[Service] EXCEPT !.at = "after", !.status = "nowait"])
    /\ UNCHANGED <<lock, regs, last_status, fw, async_event, spoiled, bounds>>

\* The lock, and the start of ixgbe_aci_send_cmd_execute: it is refused while PF_HICR.C is
\* set, else PF_HIDA is written, then C set and SV and EV cleared.
BusyNever(t) == FALSE

Busy(t) == hicr.c

Execute(t) ==
    /\ thr[t].at = "lock" /\ lock = Free /\ (t = Service => evq > 0)
    /\ IF Busy(t)
       THEN /\ last_status' = "busy"
            /\ Set(t, [thr[t] EXCEPT !.at = "after", !.status = "busy"])
            /\ UNCHANGED <<lock, hicr, hida, work>>
       ELSE /\ lock' = t
            /\ last_status' = "ok"
            /\ hida' = [id |-> thr[t].id, op |-> thr[t].op, ret |-> "ok"]
            /\ work' = IF hicr.c THEN work ELSE hida'
            /\ hicr' = [c |-> TRUE, sv |-> FALSE, ev |-> FALSE]
            /\ Go(t, "sync")
    /\ UNCHANGED <<hida2, held, evq, eicr, executed, async_event, spoiled, bounds>>

Seen(t, l) == Set(t, [thr[t] EXCEPT !.at = l, !.h = hicr])

\* The polls for the acknowledgement and for the answer.
PollSync(t) ==
    /\ thr[t].at = "sync" /\ (hicr.sv \/ ~hicr.c)
    /\ Seen(t, IF hicr.sv /\ hicr.c THEN "async" ELSE "read")
    /\ UNCHANGED <<lock, regs, last_status, fw, async_event, spoiled, bounds>>

PollAsync(t) ==
    /\ thr[t].at = "async" /\ (hicr.ev \/ ~hicr.c)
    /\ Seen(t, "read")
    /\ UNCHANGED <<lock, regs, last_status, fw, async_event, spoiled, bounds>>

GiveUp(t) ==
    /\ \/ thr[t].at = "sync" /\ ~hicr.sv /\ hicr.c
       \/ thr[t].at = "async" /\ ~hicr.ev /\ hicr.c
    /\ Trouble
    /\ Seen(t, "read")
    /\ UNCHANGED <<lock, regs, last_status, fw, async_event, spoiled, calls, events>>

\* What the driver reads into its descriptor, by the last value of PF_HICR.
Answer(h) == IF h.ev /\ ~h.c THEN hida2 ELSE hida

Verdict(t, h, d) ==
    IF h.c THEN "timeout"
    ELSE IF (~h.sv /\ ~h.ev) \/ (d.op # thr[t].op /\ thr[t].op # "event") THEN "error"
    ELSE d.ret

MoreNever == FALSE

\* "Check if there are any further events pending"
More == evq > 0

ReadAnswer(t) ==
    /\ thr[t].at = "read"
    /\ LET h == thr[t].h
           d == Answer(h)
           v == Verdict(t, h, d)
       IN  /\ last_status' = IF v \in {"busy", "error"} /\ d.ret # "ok"
                             THEN d.ret ELSE last_status
           /\ Set(t, [thr[t] EXCEPT !.at = "after", !.got = d, !.status = v,
                          !.more = More])
    /\ lock' = Free
    /\ UNCHANGED <<regs, fw, async_event, spoiled, bounds>>

\* ixgbe_should_retry_aci_send_cmd_execute, and the condition of the loop.
Again(t) ==
    /\ thr[t].op = "retry" /\ thr[t].status \in {"busy", "error"}
    /\ thr[t].tries + 1 < MaxExecute

Retry(t) ==
    /\ thr[t].at = "after" /\ Again(t)
    /\ Set(t, [Rest EXCEPT !.at = "lock", !.id = thr[t].id, !.op = "retry",
                   !.tries = thr[t].tries + 1])
    /\ UNCHANGED <<lock, regs, last_status, fw, async_event, spoiled, bounds>>

\* ixgbe_aci_req_res looks at last_status after the lock was released: only
\* if it is EBUSY does ixgbe_acquire_res learn for how long to poll.
Wait(t) == thr[t].op = "acquire" /\ thr[t].status = "busy" /\ last_status = "busy"

Poll(t) ==
    /\ thr[t].at = "after" /\ Wait(t) /\ held
    /\ Set(t, [Rest EXCEPT !.at = "lock", !.id = thr[t].id, !.op = "acquire"])
    /\ UNCHANGED <<lock, regs, last_status, fw, async_event, spoiled, bounds>>

\* The call returns.
Return(t) ==
    /\ t # Service /\ thr[t].at = "after" /\ ~Again(t) /\ ~(Wait(t) /\ held)
    /\ Set(t, Rest)
    /\ UNCHANGED <<lock, regs, last_status, fw, async_event, spoiled, bounds>>

\* ixgbe_handle_fw_event fetches on while there are more.
Handled ==
    /\ thr[Service].at = "after"
    /\ IF thr[Service].status = "ok" /\ thr[Service].more
       THEN Set(Service, [Rest EXCEPT !.at = "lock", !.op = "event"])
       ELSE Set(Service, Rest)
    /\ spoiled' = (spoiled \/ thr[Service].status \notin {"ok", "nowait"})
    /\ UNCHANGED <<lock, regs, last_status, fw, async_event, bounds>>

\* ixgbe_msix_other: ixgbe_schedule_fw_event.
Msix ==
    /\ eicr /\ eicr' = FALSE /\ async_event' = TRUE
    /\ UNCHANGED <<thr, lock, regs, last_status, work, held, evq, executed, spoiled,
                   bounds>>

-----------------------------------------------------------------------------
(* The firmware                                                            *)

Carried(id) == IF id \in Ids THEN [executed EXCEPT ![id] = @ + 1] ELSE executed

\* The answer to the command.
Reply(ret) ==
    /\ ret = "busy" => (work.op = "acquire" /\ held)
    /\ ret = "ok" => ~(work.op = "acquire" /\ held)
    /\ IF ret = "ok" THEN executed' = Carried(work.id)
                          /\ evq' = IF work.op = "event" /\ evq > 0 THEN evq - 1 ELSE evq
                     ELSE UNCHANGED <<executed, evq>>
    /\ work' = Nothing
    /\ IF ret = "error" THEN Trouble ELSE UNCHANGED trouble

FwAnswer(ret) ==
    /\ hicr.c /\ ~hicr.sv
    /\ Reply(ret)
    /\ hicr' = [c |-> FALSE, sv |-> TRUE, ev |-> FALSE]
    /\ hida' = [work EXCEPT !.ret = ret]
    /\ UNCHANGED <<thr, lock, hida2, last_status, held, eicr, async_event,
                   spoiled, calls, events>>

FwAck ==
    /\ hicr.c /\ ~hicr.sv
    /\ hicr' = [hicr EXCEPT !.sv = TRUE]
    /\ UNCHANGED <<thr, lock, hida, hida2, last_status, fw, async_event,
                   spoiled, bounds>>

FwFinish(ret) ==
    /\ hicr.c /\ hicr.sv
    /\ Reply(ret)
    /\ hicr' = [c |-> FALSE, sv |-> TRUE, ev |-> TRUE]
    /\ hida2' = [work EXCEPT !.ret = ret]
    /\ UNCHANGED <<thr, lock, hida, last_status, held, eicr, async_event,
                   spoiled, calls, events>>

FwEvent ==
    /\ events < MaxEvents /\ events' = events + 1
    /\ evq' = evq + 1 /\ eicr' = TRUE
    /\ UNCHANGED <<thr, lock, regs, last_status, work, held, executed,
                   async_event, spoiled, calls, trouble>>

\* The other function lets the resource go, or its time is over.
FwRelease ==
    /\ held /\ held' = FALSE
    /\ UNCHANGED <<thr, lock, regs, last_status, work, evq, eicr, executed,
                   async_event, spoiled, bounds>>

Next ==
    \/ \E t \in All :
         \/ Execute(t) \/ PollSync(t) \/ PollAsync(t) \/ GiveUp(t)
         \/ ReadAnswer(t) \/ Retry(t) \/ Poll(t) \/ Return(t)
         \/ \E op \in Ops : Call(t, op)
    \/ HandleEvents \/ NoEvent \/ Handled \/ Msix
    \/ \E ret \in {"ok", "busy", "error"} : FwAnswer(ret) \/ FwFinish(ret)
    \/ FwAck \/ FwEvent \/ FwRelease

Steps(t) ==
    \/ Execute(t) \/ PollSync(t) \/ PollAsync(t)
    \/ ReadAnswer(t) \/ Retry(t) \/ Poll(t) \/ Return(t)

FwTurn ==
    FwAck \/ \E ret \in {"ok", "busy", "error"} : FwAnswer(ret) \/ FwFinish(ret)

Fairness ==
    /\ \A t \in All : WF_cvars(Steps(t))
    /\ WF_cvars(HandleEvents) /\ WF_cvars(NoEvent) /\ WF_cvars(Handled)
    /\ WF_cvars(Msix) /\ WF_cvars(FwRelease)
    /\ WF_cvars(FwTurn)

Spec == Init /\ [][Next]_cvars /\ Fairness

-----------------------------------------------------------------------------
(***************************************************************************)
(* A command that ixgbe_aci_send_cmd reports as done got its own answer,   *)
(* and the firmware carried it out: once, or for a command that may be     *)
(* sent again at most MaxExecute times, although the firmware may answer   *)
(* an abandoned command later.  A command that was not sent again is never *)
(* carried out twice.                                                      *)
(***************************************************************************)
AnswerIsMine ==
    /\ \A t \in Threads : thr[t].at = "after" /\ thr[t].status = "ok" =>
           thr[t].got.id = thr[t].id /\ executed[thr[t].id] > 0
    /\ \A t \in Threads : thr[t].id # 0 /\ thr[t].op # "retry" => executed[thr[t].id] <= 1

(***************************************************************************)
(* The events of the firmware are all fetched (ixgbe_handle_fw_event       *)
(* clears its flag before it fetches, and fetches until there is none),    *)
(* unless the command that fetches them failed.                            *)
(***************************************************************************)
EventsFetched == []<>(evq = 0 \/ spoiled)

\* ixgbe_acquire_res: "If needed, the function will poll until the current
\* lock owner timeouts".
AcquireWaits ==
    [][\A t \in Threads : Return(t) /\ thr[t].op = "acquire" /\ thr[t].status = "busy"
                              /\ thr[t].got.ret = "busy" => ~held]_cvars

-----------------------------------------------------------------------------
\* Most steps are first-order; those that count or compare records name SMT.
USE ZenonT(30)

(***************************************************************************)
(* AnswerIsMine, for any number of threads and commands.  The invariant    *)
(* follows a command: its number is nobody else's (Numbered), the registers*)
(* hold it while its sender waits under the lock, and then its answer      *)
(* (Mine), and one that is not sent again is carried out at most once      *)
(* (Single), because whoever sends it once more knows that the firmware    *)
(* neither carried it out nor still works on it (Unsent).                  *)
(***************************************************************************)
Thread == [at : {"idle", "lock", "sync", "async", "read", "after"},
           id : 0 .. MaxCalls, op : Ops \cup {"none", "event"},
           tries : Nat, h : Hicr, got : Descs,
           status : {"none", "ok", "busy", "timeout", "error", "nowait"},
           more : BOOLEAN]

Typed ==
    /\ thr \in [All -> Thread]
    /\ hicr \in Hicr /\ hida \in Descs /\ hida2 \in Descs /\ work \in Descs
    /\ executed \in [Ids -> Nat] /\ calls \in 0 .. MaxCalls

Waits(t) == thr[t].at \in {"sync", "async", "read"}
Locked == \A t \in All : Waits(t) => lock = t

Numbered ==
    /\ \A t \in Threads : IF thr[t].at = "idle" THEN thr[t].id = 0
                           ELSE thr[t].id \in 1 .. calls
    /\ thr[Service].id = 0
    /\ \A t, u \in Threads : t # u /\ thr[t].id # 0 => thr[t].id # thr[u].id
    /\ work.id <= calls
    /\ \A i \in Ids : i > calls => executed[i] = 0

Done(t, d) ==
    /\ d.id = thr[t].id
    /\ d.ret = "ok" => executed[d.id] > 0
    /\ d.ret # "ok" /\ thr[t].op # "retry" => executed[d.id] = 0

Mine ==
    \A t \in Threads :
        /\ Waits(t) => IF hicr.c THEN work.id = thr[t].id ELSE Done(t, Answer(hicr))
        /\ thr[t].at = "read" /\ ~thr[t].h.c => hicr = thr[t].h
        /\ thr[t].at = "after" /\ thr[t].status = "ok" =>
               thr[t].got.id = thr[t].id /\ executed[thr[t].id] > 0

InFlight(i) == hicr.c /\ work.id = i
Unsent(t) == thr[t].at = "lock" \/ (thr[t].at = "after" /\ thr[t].status = "busy")

Single ==
    \A t \in Threads : thr[t].id # 0 /\ thr[t].op # "retry" =>
        /\ executed[thr[t].id] <= 1
        /\ InFlight(thr[t].id) \/ Unsent(t) => executed[thr[t].id] = 0
        /\ ~(InFlight(thr[t].id) /\ Unsent(t))

IInv == Typed /\ Locked /\ Numbered /\ Mine /\ Single

\* The bounds are numbers, and the service task is not one of the callers.
Sane ==
    /\ MaxCalls \in Nat /\ Spent \subseteq (0 .. MaxCalls) \X Nat
    /\ Service \notin Threads /\ Free \notin All

LEMMA IInvInit == ASSUME Sane, Init PROVE IInv
<1>1. Rest \in Thread /\ Nothing \in Descs /\ Quiet \in Hicr
  BY SMTT(40) DEF Sane, Rest, Thread, Nothing, Descs, Quiet, Hicr
<1>2. calls \in 0 .. MaxCalls
  BY DEF Init, Sane
<1>3. Typed
  BY <1>1, <1>2 DEF Init, Typed
<1>4. \A t \in All : thr[t] = Rest
  BY DEF Init
<1>5. Locked /\ Mine
  BY <1>4, SMTT(40) DEF Locked, Waits, Rest, Mine, All
<1>6. Numbered
  BY <1>2, <1>4, SMTT(40) DEF Init, Numbered, Rest, All, Nothing, Ids, Sane
<1>7. Single
  BY <1>4, SMTT(40) DEF Single, Rest, All
<1>8. QED
  BY <1>3, <1>5, <1>6, <1>7 DEF IInv

\* What touches neither the commands nor the registers.
Aside == Msix \/ FwEvent \/ FwRelease \/ UNCHANGED cvars

\* A step of one thread leaves the others where they are.
LEMMA OneMoves ==
    ASSUME Typed, NEW t \in All, NEW r \in Thread, Set(t, r)
    PROVE  /\ thr' \in [All -> Thread] /\ thr'[t] = r
           /\ \A u \in All : u # t => thr'[u] = thr[u]
  BY DEF Typed, Set

\* The states that threads are set to.
LEMMA Begun ==
    ASSUME Sane, NEW i \in 0 .. MaxCalls, NEW op \in Ops \cup {"none", "event"}, NEW n \in Nat
    PROVE  /\ [Rest EXCEPT !.at = "lock", !.id = i, !.op = op] \in Thread
           /\ [Rest EXCEPT !.at = "lock", !.id = i, !.op = op, !.tries = n] \in Thread
<1>1. Nothing \in Descs /\ Quiet \in Hicr /\ 0 \in 0 .. MaxCalls
  BY SMTT(40) DEF Sane, Nothing, Descs, Quiet, Hicr
<1>2. QED
  BY <1>1 DEF Rest, Thread

LEMMA Idle ==
    ASSUME Sane
    PROVE  Rest \in Thread /\ [Rest EXCEPT !.at = "lock", !.op = "event"] \in Thread
<1>1. Nothing \in Descs /\ Quiet \in Hicr /\ 0 \in 0 .. MaxCalls
  BY SMTT(40) DEF Sane, Nothing, Descs, Quiet, Hicr
<1>2. QED
  BY <1>1 DEF Rest, Thread

LEMMA Moved ==
    ASSUME NEW r \in Thread, NEW h \in Hicr, NEW d \in Descs, NEW more \in BOOLEAN,
           NEW a \in {"sync", "async", "read", "after"},
           NEW v \in {"ok", "busy", "timeout", "error", "nowait"}
    PROVE  /\ [r EXCEPT !.at = a] \in Thread
           /\ [r EXCEPT !.at = a, !.h = h] \in Thread
           /\ [r EXCEPT !.at = "after", !.status = v] \in Thread
           /\ [r EXCEPT !.at = "after", !.got = d, !.status = v, !.more = more] \in Thread
<1>1. [r EXCEPT !.at = a] \in Thread
  BY DEF Thread
<1>2. [r EXCEPT !.at = a, !.h = h] \in Thread
  BY DEF Thread
<1>3. [r EXCEPT !.at = "after", !.status = v] \in Thread
  BY DEF Thread
<1>4. [r EXCEPT !.at = "after", !.got = d, !.status = v, !.more = more] \in Thread
  BY DEF Thread
<1>5. QED
  BY <1>1, <1>2, <1>3, <1>4

\* The types.
LEMMA TypedKept ==
    ASSUME Sane, Typed, [Next]_cvars
    PROVE  Typed'
<1>1. ASSUME NEW t \in All, Execute(t) PROVE Typed'
  <2>1. [thr[t] EXCEPT !.at = "after", !.status = "busy"] \in Thread
         /\ [thr[t] EXCEPT !.at = "sync"] \in Thread
    BY Moved DEF Typed
  <2>2. thr' \in [All -> Thread]
    BY <1>1, <2>1, OneMoves DEF Execute, Go
  <2>3. [id |-> thr[t].id, op |-> thr[t].op, ret |-> "ok"] \in Descs
    BY DEF Typed, Thread, Descs
  <2>4. [c |-> TRUE, sv |-> FALSE, ev |-> FALSE] \in Hicr
    BY DEF Hicr
  <2>5. hicr' \in Hicr /\ hida' \in Descs /\ work' \in Descs
    BY <1>1, <2>3, <2>4 DEF Execute, Typed
  <2>6. QED
    BY <1>1, <2>2, <2>5 DEF Execute, Typed, regs, fw, bounds
<1>2. ASSUME NEW t \in All, PollSync(t) PROVE Typed'
  <2> DEFINE r == [thr[t] EXCEPT !.at = IF hicr.sv /\ hicr.c THEN "async" ELSE "read", !.h = hicr]
  <2>1. r \in Thread
    BY Moved DEF Typed
  <2>2. thr' \in [All -> Thread]
    BY <1>2, <2>1, OneMoves DEF PollSync, Seen
  <2>3. QED
    BY <1>2, <2>2 DEF PollSync, Typed, regs, fw, bounds
<1>3. ASSUME NEW t \in All, PollAsync(t) PROVE Typed'
  <2> DEFINE r == [thr[t] EXCEPT !.at = "read", !.h = hicr]
  <2>1. r \in Thread
    BY Moved DEF Typed
  <2>2. thr' \in [All -> Thread]
    BY <1>3, <2>1, OneMoves DEF PollAsync, Seen
  <2>3. QED
    BY <1>3, <2>2 DEF PollAsync, Typed, regs, fw, bounds
<1>4. ASSUME NEW t \in All, GiveUp(t) PROVE Typed'
  <2> DEFINE r == [thr[t] EXCEPT !.at = "read", !.h = hicr]
  <2>1. r \in Thread
    BY Moved DEF Typed
  <2>2. thr' \in [All -> Thread]
    BY <1>4, <2>1, OneMoves DEF GiveUp, Seen
  <2>3. QED
    BY <1>4, <2>2 DEF GiveUp, Typed, regs, fw, bounds
<1>5. ASSUME NEW t \in All, ReadAnswer(t) PROVE Typed'
  <2> DEFINE d == Answer(thr[t].h)
             v == Verdict(t, thr[t].h, d)
  <2>1. d \in Descs
    BY DEF Typed, Answer
  <2>2. v \in {"ok", "busy", "timeout", "error"}
    BY <2>1 DEF Verdict, Descs
  <2>3. More \in BOOLEAN
    BY SMTT(40) DEF More
  <2>4. [thr[t] EXCEPT !.at = "after", !.got = d, !.status = v, !.more = More] \in Thread
    BY <2>1, <2>2, <2>3, Moved DEF Typed
  <2>5. thr' \in [All -> Thread]
    BY <1>5, <2>4, OneMoves DEF ReadAnswer
  <2>6. QED
    BY <1>5, <2>5 DEF ReadAnswer, Typed, regs, fw, bounds
<1>6. ASSUME NEW t \in All, Retry(t) PROVE Typed'
  <2>1. thr[t].id \in 0 .. MaxCalls /\ thr[t].tries + 1 \in Nat
         /\ "retry" \in Ops \cup {"none", "event"}
    BY <1>6, SMTT(40) DEF Retry, Again, Typed, Thread
  <2>2. [Rest EXCEPT !.at = "lock", !.id = thr[t].id, !.op = "retry", !.tries = thr[t].tries + 1] \in Thread
    BY <2>1, Begun
  <2>3. thr' \in [All -> Thread]
    BY <1>6, <2>2, OneMoves DEF Retry
  <2>4. QED
    BY <1>6, <2>3 DEF Retry, Typed, regs, fw, bounds
<1>7. ASSUME NEW t \in All, Poll(t) PROVE Typed'
  <2>1. thr[t].id \in 0 .. MaxCalls /\ thr[t].tries + 1 \in Nat
         /\ "acquire" \in Ops \cup {"none", "event"}
    BY <1>7, SMTT(40) DEF Poll, Wait, Typed, Thread
  <2>2. [Rest EXCEPT !.at = "lock", !.id = thr[t].id, !.op = "acquire"] \in Thread
    BY <2>1, Begun
  <2>3. thr' \in [All -> Thread]
    BY <1>7, <2>2, OneMoves DEF Poll
  <2>4. QED
    BY <1>7, <2>3 DEF Poll, Typed, regs, fw, bounds
<1>8. ASSUME NEW t \in All, Return(t) PROVE Typed'
  <2>1. Rest \in Thread
    BY Idle
  <2>2. thr' \in [All -> Thread]
    BY <1>8, <2>1, OneMoves DEF Return
  <2>3. QED
    BY <1>8, <2>2 DEF Return, Typed, regs, fw, bounds
<1>9. ASSUME NEW t \in All, NEW op \in Ops, Call(t, op) PROVE Typed'
  <2>1. calls + 1 \in 0 .. MaxCalls
    BY <1>9, SMTT(40) DEF Call, Typed, Sane
  <2>2. [Rest EXCEPT !.at = "lock", !.id = calls + 1, !.op = op] \in Thread
    BY <2>1, Begun
  <2>3. thr' \in [All -> Thread]
    BY <1>9, <2>2, OneMoves DEF Call
  <2>4. QED
    BY <1>9, <2>1, <2>3 DEF Call, Typed, regs, fw, bounds
<1>10. CASE HandleEvents
  <2>1. /\ Service \in All
        /\ [Rest EXCEPT !.at = "lock", !.op = "event"] \in Thread /\ Rest \in Thread
    BY Idle DEF All
  <2>2. thr' \in [All -> Thread]
    BY <1>10, <2>1, OneMoves DEF HandleEvents
  <2>3. QED
    BY <1>10, <2>2 DEF HandleEvents, Typed, regs, fw, bounds
<1>11. CASE NoEvent
  <2>1. /\ Service \in All
        /\ [Rest EXCEPT !.at = "lock", !.op = "event"] \in Thread /\ Rest \in Thread
    BY Idle DEF All
  <2>2. [thr[Service] EXCEPT !.at = "after", !.status = "nowait"] \in Thread
    BY <2>1, Moved DEF Typed
  <2>3. thr' \in [All -> Thread]
    BY <1>11, <2>1, <2>2, OneMoves DEF NoEvent
  <2>4. QED
    BY <1>11, <2>3 DEF NoEvent, Typed, regs, fw, bounds
<1>12. CASE Handled
  <2>1. /\ Service \in All
        /\ [Rest EXCEPT !.at = "lock", !.op = "event"] \in Thread /\ Rest \in Thread
    BY Idle DEF All
  <2>2. thr' \in [All -> Thread]
    BY <1>12, <2>1, OneMoves DEF Handled
  <2>3. QED
    BY <1>12, <2>2 DEF Handled, Typed, regs, fw, bounds
<1>13. ASSUME NEW ret \in {"ok", "busy", "error"}, FwAnswer(ret) PROVE Typed'
  <2>1. executed' \in [Ids -> Nat]
    BY <1>13, SMTT(40) DEF FwAnswer, Reply, Carried, Typed
  <2>2. hida' \in Descs /\ work' \in Descs /\ hicr' \in Hicr
    BY <1>13, SMTT(40) DEF FwAnswer, Reply, Typed, Descs, Hicr, Nothing, Sane
  <2>3. QED
    BY <1>13, <2>1, <2>2 DEF FwAnswer, Typed
<1>14. ASSUME NEW ret \in {"ok", "busy", "error"}, FwFinish(ret) PROVE Typed'
  <2>1. executed' \in [Ids -> Nat]
    BY <1>14, SMTT(40) DEF FwFinish, Reply, Carried, Typed
  <2>2. hida2' \in Descs /\ work' \in Descs /\ hicr' \in Hicr
    BY <1>14, SMTT(40) DEF FwFinish, Reply, Typed, Descs, Hicr, Nothing, Sane
  <2>3. QED
    BY <1>14, <2>1, <2>2 DEF FwFinish, Typed
<1>15. CASE FwAck
  BY <1>15 DEF FwAck, Hicr, Typed, regs, fw, bounds
<1>16. CASE Aside
  BY <1>16 DEF Aside, Msix, FwEvent, FwRelease, cvars, Typed, regs, fw, bounds
<1>17. QED
  BY <1>1, <1>2, <1>3, <1>4, <1>5, <1>6, <1>7, <1>8, <1>9, <1>10, <1>11,
     <1>12, <1>13, <1>14, <1>15, <1>16
  DEF Next, Aside

\* What a step does to the commands, in the terms of the invariant.
Still == UNCHANGED <<regs, work, executed, calls>>
Others(t) == \A u \in All : u # t => thr'[u] = thr[u]
Keeps(t) == thr'[t].id = thr[t].id /\ thr'[t].op = thr[t].op /\ Others(t)

Watches(t) ==
    /\ thr[t].at \in {"sync", "async"} /\ thr'[t].at \in {"async", "read"}
    /\ thr'[t].h = hicr /\ Keeps(t) /\ Still /\ UNCHANGED lock
Refused(t) ==
    /\ thr[t].at = "lock" /\ thr'[t].at = "after" /\ thr'[t].status = "busy"
    /\ Keeps(t) /\ Still /\ UNCHANGED lock
Sends(t) ==
    /\ thr[t].at = "lock" /\ thr'[t].at = "sync" /\ lock = Free /\ lock' = t
    /\ ~hicr.c /\ hicr'.c /\ work'.id = thr[t].id
    /\ Keeps(t) /\ UNCHANGED <<executed, calls>>
Reads(t) ==
    /\ thr[t].at = "read" /\ thr'[t].at = "after" /\ lock' = Free
    /\ thr'[t].got = Answer(thr[t].h)
    /\ thr'[t].status \in {"ok", "busy"} =>
           ~thr[t].h.c /\ Answer(thr[t].h).ret = thr'[t].status
    /\ Keeps(t) /\ Still
Restarts(t) ==
    /\ thr[t].at = "after" /\ thr'[t].at = "lock"
    /\ thr[t].op = "retry" \/ thr[t].status = "busy"
    /\ Keeps(t) /\ Still /\ UNCHANGED lock
Ends(t) ==
    /\ thr[t].at = "after" /\ thr'[t].at = "idle" /\ thr'[t].id = 0
    /\ t # Service /\ Others(t) /\ Still /\ UNCHANGED lock
Begins(t) ==
    /\ thr[t].at = "idle" /\ thr'[t].at = "lock" /\ thr'[t].id = calls + 1
    /\ t # Service /\ calls < MaxCalls /\ calls' = calls + 1
    /\ Others(t) /\ UNCHANGED <<regs, work, executed, lock>>
Serves ==
    /\ ~Waits(Service)' /\ thr'[Service].id \in {0, thr[Service].id}
    /\ Others(Service) /\ Still /\ UNCHANGED lock
Answers ==
    /\ hicr.c /\ ~hicr'.c /\ work'.id = 0
    /\ Answer(hicr)'.id = work.id
    /\ executed' = IF Answer(hicr)'.ret = "ok" THEN Carried(work.id) ELSE executed
    /\ UNCHANGED <<thr, lock, calls>>
Acks == hicr.c /\ hicr'.c /\ UNCHANGED <<thr, lock, work, executed, calls>>
Rests == Still /\ UNCHANGED <<thr, lock>>

Effect ==
    \/ \E t \in All :
         \/ Watches(t) \/ Refused(t) \/ Sends(t) \/ Reads(t) \/ Restarts(t)
         \/ Ends(t) \/ Begins(t)
    \/ Serves \/ Answers \/ Acks \/ Rests

\* Every step of Next is one of these.
LEMMA Effects ==
    ASSUME Sane, Typed, [Next]_cvars
    PROVE  Effect
<1>1. ASSUME NEW t \in All, Execute(t) PROVE Effect
  <2>1. /\ thr[t] \in Thread
        /\ [thr[t] EXCEPT !.at = "after", !.status = "busy"] \in Thread
        /\ [thr[t] EXCEPT !.at = "sync"] \in Thread
    BY Moved DEF Typed
  <2>2. CASE hicr.c
    <3>1. thr'[t] = [thr[t] EXCEPT !.at = "after", !.status = "busy"] /\ Others(t)
      BY <1>1, <2>1, <2>2, OneMoves DEF Execute, Busy, Others
    <3>2. Refused(t)
      BY <1>1, <2>1, <2>2, <3>1, SMTT(40)
         DEF Execute, Busy, Refused, Keeps, Still, regs, bounds, Thread
    <3>3. QED
      BY <3>2 DEF Effect
  <2>3. CASE ~hicr.c
    <3>1. thr'[t] = [thr[t] EXCEPT !.at = "sync"] /\ Others(t)
      BY <1>1, <2>1, <2>3, OneMoves DEF Execute, Busy, Go, Others
    <3>2. Sends(t)
      BY <1>1, <2>1, <2>3, <3>1, SMTT(40) DEF Execute, Busy, Sends, Keeps, bounds, Thread
    <3>3. QED
      BY <3>2 DEF Effect
  <2>4. QED
    BY <2>2, <2>3
<1>2. ASSUME NEW t \in All, PollSync(t) PROVE Effect
  <2> DEFINE r == [thr[t] EXCEPT !.at = IF hicr.sv /\ hicr.c THEN "async" ELSE "read", !.h = hicr]
  <2>1. thr[t] \in Thread /\ r \in Thread
    BY Moved DEF Typed
  <2>2. thr'[t] = r /\ Others(t)
    BY <1>2, <2>1, OneMoves DEF PollSync, Seen, Others
  <2>3. Watches(t)
    BY <1>2, <2>1, <2>2, SMTT(40) DEF PollSync, Watches, Keeps, Still, fw, bounds, Thread
  <2>4. QED
    BY <2>3 DEF Effect
<1>3. ASSUME NEW t \in All, PollAsync(t) PROVE Effect
  <2> DEFINE r == [thr[t] EXCEPT !.at = "read", !.h = hicr]
  <2>1. thr[t] \in Thread /\ r \in Thread
    BY Moved DEF Typed
  <2>2. thr'[t] = r /\ Others(t)
    BY <1>3, <2>1, OneMoves DEF PollAsync, Seen, Others
  <2>3. Watches(t)
    BY <1>3, <2>1, <2>2 DEF PollAsync, Watches, Keeps, Still, fw, bounds, Thread
  <2>4. QED
    BY <2>3 DEF Effect
<1>4. ASSUME NEW t \in All, GiveUp(t) PROVE Effect
  <2> DEFINE r == [thr[t] EXCEPT !.at = "read", !.h = hicr]
  <2>1. thr[t] \in Thread /\ r \in Thread
    BY Moved DEF Typed
  <2>2. thr'[t] = r /\ Others(t)
    BY <1>4, <2>1, OneMoves DEF GiveUp, Seen, Others
  <2>3. Watches(t)
    BY <1>4, <2>1, <2>2 DEF GiveUp, Watches, Keeps, Still, fw, bounds, Thread
  <2>4. QED
    BY <2>3 DEF Effect
<1>5. ASSUME NEW t \in All, ReadAnswer(t) PROVE Effect
  <2> DEFINE d == Answer(thr[t].h)
             v == Verdict(t, thr[t].h, d)
             r == [thr[t] EXCEPT !.at = "after", !.got = d, !.status = v, !.more = More]
  <2>1. d \in Descs /\ thr[t] \in Thread /\ More \in BOOLEAN
         /\ hicr \in Hicr
    BY SMTT(40) DEF Typed, Answer, More
  <2>2. /\ v \in {"ok", "busy", "timeout", "error"}
        /\ v \in {"ok", "busy"} => ~thr[t].h.c /\ d.ret = v
    <3>1. CASE thr[t].h.c
      BY <3>1 DEF Verdict
    <3>2. CASE ~thr[t].h.c
      <4>1. d.ret \in {"ok", "busy", "error"}
        BY <2>1 DEF Descs
      <4>2. v = "error" \/ (d.ret # "ok" /\ v = d.ret) \/ (d.ret = "ok" /\ v = "ok")
        BY <3>2 DEF Verdict
      <4>3. QED
        BY <3>2, <4>1, <4>2
    <3>3. QED
      BY <3>1, <3>2
  <2>3. r \in Thread
    <3> HIDE DEF d, v
    <3>1. v \in {"ok", "busy", "timeout", "error", "nowait"}
      BY <2>2
    <3>2. QED
      BY <2>1, <3>1, Moved
  <2>4. thr'[t] = r /\ Others(t)
    BY <1>5, <2>3, OneMoves DEF ReadAnswer, Others
  <2>5. Reads(t)
    BY <1>5, <2>1, <2>2, <2>4 DEF ReadAnswer, Reads, Keeps, Still, fw, bounds, Thread
  <2>6. QED
    BY <2>5 DEF Effect
<1>6. ASSUME NEW t \in All, Retry(t) PROVE Effect
  <2> DEFINE r == [Rest EXCEPT !.at = "lock", !.id = thr[t].id, !.op = "retry", !.tries = thr[t].tries + 1]
  <2>1. thr[t].id \in 0 .. MaxCalls /\ thr[t].tries + 1 \in Nat
         /\ "retry" \in Ops \cup {"none", "event"}
    BY <1>6, SMTT(40) DEF Retry, Again, Typed, Thread
  <2>2. r \in Thread
    BY <2>1, Begun
  <2>3. thr'[t] = r /\ Others(t)
    BY <1>6, <2>2, OneMoves DEF Retry, Others
  <2>4. Restarts(t)
    BY <1>6, <2>3 DEF Retry, Again, Restarts, Keeps, Still, fw, bounds, Rest
  <2>5. QED
    BY <2>4 DEF Effect
<1>7. ASSUME NEW t \in All, Poll(t) PROVE Effect
  <2> DEFINE r == [Rest EXCEPT !.at = "lock", !.id = thr[t].id, !.op = "acquire"]
  <2>1. thr[t].id \in 0 .. MaxCalls /\ thr[t].tries + 1 \in Nat
         /\ "acquire" \in Ops \cup {"none", "event"}
    BY <1>7, SMTT(40) DEF Poll, Wait, Typed, Thread
  <2>2. r \in Thread
    BY <2>1, Begun
  <2>3. thr'[t] = r /\ Others(t)
    BY <1>7, <2>2, OneMoves DEF Poll, Others
  <2>4. Restarts(t)
    BY <1>7, <2>3 DEF Poll, Wait, Restarts, Keeps, Still, fw, bounds, Rest
  <2>5. QED
    BY <2>4 DEF Effect
<1>8. ASSUME NEW t \in All, Return(t) PROVE Effect
  <2>1. thr'[t] = Rest /\ Others(t)
    BY <1>8, Idle, OneMoves DEF Return, Others
  <2>2. Ends(t)
    BY <1>8, <2>1, SMTT(40) DEF Return, Ends, Still, fw, bounds, Rest
  <2>3. QED
    BY <2>2 DEF Effect
<1>9. ASSUME NEW t \in All, NEW op \in Ops, Call(t, op) PROVE Effect
  <2> DEFINE r == [Rest EXCEPT !.at = "lock", !.id = calls + 1, !.op = op]
  <2>1. calls + 1 \in 0 .. MaxCalls
    BY <1>9, SMTT(40) DEF Call, Typed, Sane
  <2>2. r \in Thread
    BY <2>1, Begun
  <2>3. thr'[t] = r /\ Others(t)
    BY <1>9, <2>2, OneMoves DEF Call, Others
  <2>4. Begins(t)
    BY <1>9, <2>3 DEF Call, Begins, fw, Rest
  <2>5. QED
    BY <2>4 DEF Effect
<1>10. CASE HandleEvents
  <2> DEFINE r == [Rest EXCEPT !.at = "lock", !.op = "event"]
  <2>1. thr'[Service] = r /\ Others(Service)
    BY <1>10, Idle, OneMoves DEF HandleEvents, Others, All
  <2>2. Serves
    BY <1>10, <2>1 DEF HandleEvents, Serves, Waits, Still, fw, bounds, Rest
  <2>3. QED
    BY <2>2 DEF Effect
<1>11. CASE NoEvent
  <2> DEFINE r == [thr[Service] EXCEPT !.at = "after", !.status = "nowait"]
  <2>1. Service \in All /\ thr[Service] \in Thread /\ r \in Thread
    BY Moved DEF Typed, All
  <2>2. thr'[Service] = r /\ Others(Service)
    BY <1>11, <2>1, OneMoves DEF NoEvent, Others
  <2>3. Serves
    BY <1>11, <2>1, <2>2 DEF NoEvent, Serves, Waits, Still, fw, bounds, Thread
  <2>4. QED
    BY <2>3 DEF Effect
<1>12. CASE Handled
  <2> DEFINE r == [Rest EXCEPT !.at = "lock", !.op = "event"]
  <2>1. (thr'[Service] = r \/ thr'[Service] = Rest) /\ Others(Service)
    BY <1>12, Idle, OneMoves, SMTT(40) DEF Handled, Others, All
  <2>2. ~Waits(Service)' /\ thr'[Service].id = 0
    <3>1. r.at = "lock" /\ r.id = 0 /\ Rest.at = "idle" /\ Rest.id = 0
      BY DEF Rest
    <3>2. QED
      BY <2>1, <3>1 DEF Waits
  <2>3. Serves
    BY <1>12, <2>1, <2>2 DEF Handled, Serves, Still, fw, bounds
  <2>4. QED
    BY <2>3 DEF Effect
<1>13. ASSUME NEW ret \in {"ok", "busy", "error"}, FwAnswer(ret) PROVE Effect
  <2>1. Answer(hicr)' = [work EXCEPT !.ret = ret]
    BY <1>13 DEF FwAnswer, Answer
  <2>2. Answer(hicr)'.id = work.id /\ Answer(hicr)'.ret = ret
    BY <2>1 DEF Typed, Descs
  <2>3. Answers
    BY <1>13, <2>2 DEF FwAnswer, Reply, Answers, Nothing
  <2>4. QED
    BY <2>3 DEF Effect
<1>14. ASSUME NEW ret \in {"ok", "busy", "error"}, FwFinish(ret) PROVE Effect
  <2>1. Answer(hicr)' = [work EXCEPT !.ret = ret]
    BY <1>14 DEF FwFinish, Answer
  <2>2. Answer(hicr)'.id = work.id /\ Answer(hicr)'.ret = ret
    BY <2>1 DEF Typed, Descs
  <2>3. Answers
    BY <1>14, <2>2 DEF FwFinish, Reply, Answers, Nothing
  <2>4. QED
    BY <2>3 DEF Effect
<1>15. CASE FwAck
  <2>1. Acks
    BY <1>15 DEF FwAck, Acks, Typed, Hicr, fw, bounds
  <2>2. QED
    BY <2>1 DEF Effect
<1>16. CASE Aside
  BY <1>16
     DEF Aside, Msix, FwEvent, FwRelease, cvars, Effect, Rests, Still, regs, fw, bounds
<1>17. QED
  BY <1>1, <1>2, <1>3, <1>4, <1>5, <1>6, <1>7, <1>8, <1>9, <1>10, <1>11,
     <1>12, <1>13, <1>14, <1>15, <1>16
  DEF Next, Aside

\* Who waits has the lock.
LEMMA LockedKept ==
    ASSUME Sane, Typed, Locked, Effect
    PROVE  Locked'
<1>1. ASSUME NEW t \in All, Watches(t) PROVE Locked'
  BY <1>1 DEF Watches, Keeps, Others, Locked, Waits, Sane, All
<1>2. ASSUME NEW t \in All, Refused(t) PROVE Locked'
  BY <1>2 DEF Refused, Keeps, Others, Locked, Waits, Sane, All
<1>3. ASSUME NEW t \in All, Sends(t) PROVE Locked'
  BY <1>3 DEF Sends, Keeps, Others, Locked, Waits, Sane, All
<1>4. ASSUME NEW t \in All, Reads(t) PROVE Locked'
  BY <1>4 DEF Reads, Keeps, Others, Locked, Waits, Sane, All
<1>5. ASSUME NEW t \in All, Restarts(t) PROVE Locked'
  BY <1>5 DEF Restarts, Keeps, Others, Locked, Waits, Sane, All
<1>6. ASSUME NEW t \in All, Ends(t) PROVE Locked'
  BY <1>6 DEF Ends, Keeps, Others, Locked, Waits, Sane, All
<1>7. ASSUME NEW t \in All, Begins(t) PROVE Locked'
  BY <1>7 DEF Begins, Keeps, Others, Locked, Waits, Sane, All
<1>8. CASE Serves
  BY <1>8 DEF Serves, Keeps, Others, Locked, Waits, Sane, All
<1>9. CASE Answers
  BY <1>9 DEF Answers, Keeps, Others, Locked, Waits, Sane, All
<1>10. CASE Acks
  BY <1>10 DEF Acks, Keeps, Others, Locked, Waits, Sane, All
<1>11. CASE Rests
  BY <1>11 DEF Rests, Keeps, Others, Locked, Waits, Sane, All
<1>12. QED
  BY <1>1, <1>2, <1>3, <1>4, <1>5, <1>6, <1>7, <1>8, <1>9, <1>10, <1>11 DEF Effect

\* A number is given once.
LEMMA NumberedKept ==
    ASSUME Sane, Typed, Numbered, Effect
    PROVE  Numbered'
<1>0. calls \in Nat /\ work.id \in Nat /\ executed \in [Ids -> Nat]
      /\ \A t \in Threads : t \in All /\ t # Service /\ thr[t] \in Thread
  BY SMTT(40) DEF Typed, Descs, Sane, All
<1>1. ASSUME NEW t \in All, Watches(t) PROVE Numbered'
  BY <1>1, SMTT(40) DEF Watches, Keeps, Others, Still, Numbered, All, Sane
<1>2. ASSUME NEW t \in All, Refused(t) PROVE Numbered'
  BY <1>2, SMTT(40) DEF Refused, Keeps, Others, Still, Numbered, All, Sane
<1>3. ASSUME NEW t \in All, Sends(t) PROVE Numbered'
  BY <1>3, <1>0, SMTT(40) DEF Sends, Keeps, Others, Still, Numbered, All, Sane
<1>4. ASSUME NEW t \in All, Reads(t) PROVE Numbered'
  BY <1>4, SMTT(40) DEF Reads, Keeps, Others, Still, Numbered, All, Sane
<1>5. ASSUME NEW t \in All, Restarts(t) PROVE Numbered'
  BY <1>5, SMTT(40) DEF Restarts, Keeps, Others, Still, Numbered, All, Sane
<1>6. ASSUME NEW t \in All, Ends(t) PROVE Numbered'
  BY <1>6, SMTT(40) DEF Ends, Keeps, Others, Still, Numbered, All, Sane
<1>7. ASSUME NEW t \in All, Begins(t) PROVE Numbered'
  <2>1. t \in Threads /\ thr'[t].id = calls + 1 /\ thr'[t].at = "lock"
    BY <1>7 DEF Begins, All
  <2>2. \A u \in Threads : u # t => thr'[u] = thr[u] /\ thr[u].id <= calls
    BY <1>7, <1>0, SMTT(40) DEF Begins, Others, Numbered
  <2>3. \A u \in Threads : IF thr'[u].at = "idle" THEN thr'[u].id = 0
                            ELSE thr'[u].id \in 1 .. calls'
    BY <1>7, <1>0, <2>1, <2>2, SMTT(40) DEF Begins, Numbered
  <2>4. \A u, v \in Threads : u # v /\ thr'[u].id # 0 => thr'[u].id # thr'[v].id
    BY <1>0, <2>1, <2>2, SMTT(40) DEF Numbered
  <2>5. thr'[Service].id = 0
    BY <1>7 DEF Begins, Others, All, Numbered
  <2>6. work'.id <= calls' /\ \A i \in Ids : i > calls' => executed'[i] = 0
    BY <1>7, <1>0, SMTT(40) DEF Begins, Numbered, Ids
  <2>7. QED
    BY <2>3, <2>4, <2>5, <2>6 DEF Numbered
<1>8. CASE Serves
  BY <1>8 DEF Serves, Keeps, Others, Still, Numbered, All, Sane
<1>9. CASE Answers
  <2>1. \A i \in Ids : i > calls => executed'[i] = executed[i]
    BY <1>9, <1>0, SMTT(40) DEF Answers, Carried, Numbered
  <2>2. QED
    BY <1>9, <1>0, <2>1, SMTT(40) DEF Answers, Numbered
<1>10. CASE Acks
  BY <1>10 DEF Acks, Keeps, Others, Still, Numbered, All, Sane
<1>11. CASE Rests
  BY <1>11 DEF Rests, Keeps, Others, Still, Numbered, All, Sane
<1>12. QED
  BY <1>1, <1>2, <1>3, <1>4, <1>5, <1>6, <1>7, <1>8, <1>9, <1>10, <1>11 DEF Effect

\* The answer that a thread reads is that of its own command.
LEMMA MineKept ==
    ASSUME Sane, Typed, Locked, Numbered, Mine, Single, Effect
    PROVE  Mine'
<1>0. calls \in Nat /\ work.id \in Nat /\ executed \in [Ids -> Nat]
      /\ \A t \in Threads : t \in All /\ t # Service /\ thr[t] \in Thread
  BY SMTT(40) DEF Typed, Descs, Sane, All
<1>1. ASSUME NEW t \in All, Watches(t) PROVE Mine'
  <2>1. Answer(hicr)' = Answer(hicr)
    BY <1>1 DEF Watches, Still, regs, Answer
  <2>2. QED
    BY <1>1, <1>0, <2>1, SMTT(40) DEF Watches, Keeps, Others, Still, regs, Mine, Done, Waits
<1>2. ASSUME NEW t \in All, Refused(t) PROVE Mine'
  <2>1. Answer(hicr)' = Answer(hicr)
    BY <1>2 DEF Refused, Still, regs, Answer
  <2>2. QED
    BY <1>2, <1>0, <2>1, SMTT(40) DEF Refused, Keeps, Others, Still, regs, Mine, Done, Waits
<1>3. ASSUME NEW t \in All, Sends(t) PROVE Mine'
  <2>1. \A u \in All : ~Waits(u)
    BY <1>3 DEF Sends, Locked, Sane
  <2>2. QED
    BY <1>3, <1>0, <2>1 DEF Sends, Keeps, Others, Mine, Waits
<1>4. ASSUME NEW t \in All, Reads(t) PROVE Mine'
  <2>1. Answer(hicr)' = Answer(hicr)
    BY <1>4 DEF Reads, Still, regs, Answer
  <2>2. QED
    BY <1>4, <1>0, <2>1, SMTT(40) DEF Reads, Keeps, Others, Still, regs, Mine, Done, Waits
<1>5. ASSUME NEW t \in All, Restarts(t) PROVE Mine'
  <2>1. Answer(hicr)' = Answer(hicr)
    BY <1>5 DEF Restarts, Still, regs, Answer
  <2>2. QED
    BY <1>5, <1>0, <2>1, SMTT(40)
       DEF Restarts, Keeps, Others, Still, regs, Mine, Done, Waits
<1>6. ASSUME NEW t \in All, Ends(t) PROVE Mine'
  <2>1. Answer(hicr)' = Answer(hicr)
    BY <1>6 DEF Ends, Still, regs, Answer
  <2>2. QED
    BY <1>6, <1>0, <2>1, SMTT(40) DEF Ends, Keeps, Others, Still, regs, Mine, Done, Waits
<1>7. ASSUME NEW t \in All, Begins(t) PROVE Mine'
  <2>1. Answer(hicr)' = Answer(hicr)
    BY <1>7 DEF Begins, Still, regs, Answer
  <2>2. QED
    BY <1>7, <1>0, <2>1, SMTT(40) DEF Begins, Keeps, Others, Still, regs, Mine, Done, Waits
<1>8. CASE Serves
  <2>1. Answer(hicr)' = Answer(hicr)
    BY <1>8 DEF Serves, Still, regs, Answer
  <2>2. QED
    BY <1>8, <1>0, <2>1, SMTT(40) DEF Serves, Keeps, Others, Still, regs, Mine, Done, Waits
<1>9. CASE Answers
  <2>1. \A u \in Threads : executed[thr[u].id] > 0 => executed'[thr[u].id] > 0
    BY <1>9, <1>0, SMTT(40) DEF Answers, Carried, Ids, Thread
  <2>2. ASSUME NEW u \in Threads, Waits(u)
        PROVE  Done(u, Answer(hicr))'
    <3>1. work.id = thr[u].id /\ thr[u].id \in Ids /\ thr[u].id # 0
      <4>1. thr[u].id \in 1 .. calls /\ calls \in 0 .. MaxCalls
        BY <2>2 DEF Waits, Numbered, Typed
      <4>2. QED
        BY <1>9, <2>2, <4>1, SMTT(40) DEF Answers, Mine, Ids, Sane
    <3>2. Answer(hicr)'.ret = "ok" => executed'[thr[u].id] > 0
      BY <1>9, <1>0, <3>1, SMTT(40) DEF Answers, Carried
    <3>3. thr[u].op # "retry" => executed[thr[u].id] = 0
      BY <1>9, <3>1 DEF Answers, Single, InFlight
    <3>4. QED
      BY <1>9, <3>1, <3>2, <3>3 DEF Answers, Done
  <2>3. QED
    BY <1>9, <2>1, <2>2 DEF Answers, Mine, Waits
<1>10. CASE Acks
  BY <1>10, <1>0 DEF Acks, Mine, Done, Waits
<1>11. CASE Rests
  <2>1. Answer(hicr)' = Answer(hicr)
    BY <1>11 DEF Rests, Still, regs, Answer
  <2>2. QED
    BY <1>11, <1>0, <2>1 DEF Rests, Keeps, Others, Still, regs, Mine, Done, Waits
<1>12. QED
  BY <1>1, <1>2, <1>3, <1>4, <1>5, <1>6, <1>7, <1>8, <1>9, <1>10, <1>11 DEF Effect

\* A command that is not sent again is carried out at most once.
LEMMA SingleKept ==
    ASSUME Sane, Typed, Locked, Numbered, Mine, Single, Effect
    PROVE  Single'
<1>0. calls \in Nat /\ work.id \in Nat /\ executed \in [Ids -> Nat]
      /\ \A t \in Threads : t \in All /\ t # Service /\ thr[t] \in Thread
  BY SMTT(40) DEF Typed, Descs, Sane, All
<1>1. ASSUME NEW t \in All, Watches(t) PROVE Single'
  BY <1>1, <1>0, SMTT(40) DEF Watches, Keeps, Others, Still, regs, Single, InFlight, Unsent
<1>2. ASSUME NEW t \in All, Refused(t) PROVE Single'
  BY <1>2, <1>0, SMTT(40) DEF Refused, Keeps, Others, Still, regs, Single, InFlight, Unsent
<1>3. ASSUME NEW t \in All, Sends(t) PROVE Single'
  <2> SUFFICES ASSUME NEW u \in Threads, thr'[u].id # 0, thr'[u].op # "retry"
               PROVE  /\ executed'[thr'[u].id] <= 1
                      /\ InFlight(thr[u].id)' \/ Unsent(u)' => executed'[thr'[u].id] = 0
                      /\ ~(InFlight(thr[u].id)' /\ Unsent(u)')
    BY DEF Single, InFlight, Unsent
  <2>1. CASE u = t
    BY <1>3, <2>1 DEF Sends, Keeps, Single, InFlight, Unsent
  <2>2. CASE u # t
    <3>1. thr'[u] = thr[u] /\ thr[u].id # work'.id
      BY <1>3, <1>0, <2>2 DEF Sends, Keeps, Others, Numbered, All
    <3>2. QED
      BY <1>3, <3>1 DEF Sends, Single, InFlight, Unsent
  <2>3. QED
    BY <2>1, <2>2
<1>4. ASSUME NEW t \in All, Reads(t) PROVE Single'
  BY <1>4, <1>0, SMTT(40)
     DEF Reads, Keeps, Others, Still, regs, Single, InFlight, Unsent, Mine, Done, Waits
<1>5. ASSUME NEW t \in All, Restarts(t) PROVE Single'
  BY <1>5, <1>0, SMTT(40) DEF Restarts, Keeps, Others, Still, regs, Single, InFlight, Unsent
<1>6. ASSUME NEW t \in All, Ends(t) PROVE Single'
  BY <1>6, <1>0 DEF Ends, Keeps, Others, Still, regs, Single, InFlight, Unsent
<1>7. ASSUME NEW t \in All, Begins(t) PROVE Single'
  <2> SUFFICES ASSUME NEW u \in Threads, thr'[u].id # 0, thr'[u].op # "retry"
               PROVE  /\ executed'[thr'[u].id] <= 1
                      /\ InFlight(thr[u].id)' \/ Unsent(u)' => executed'[thr'[u].id] = 0
                      /\ ~(InFlight(thr[u].id)' /\ Unsent(u)')
    BY DEF Single, InFlight, Unsent
  <2>1. CASE u = t
    <3>1. calls + 1 \in Ids /\ calls + 1 > calls /\ work.id # calls + 1
      BY <1>7, <1>0, SMTT(40) DEF Begins, Ids, Numbered, Sane
    <3>2. executed'[thr'[u].id] = 0 /\ ~InFlight(thr[u].id)'
      BY <1>7, <2>1, <3>1 DEF Begins, Numbered, InFlight
    <3>3. QED
      BY <3>2, SMTT(40)
  <2>2. CASE u # t
    BY <1>7, <1>0, <2>2 DEF Begins, Others, Single, InFlight, Unsent, regs
  <2>3. QED
    BY <2>1, <2>2
<1>8. CASE Serves
  BY <1>8, <1>0 DEF Serves, Keeps, Others, Still, regs, Single, InFlight, Unsent
<1>9. CASE Answers
  BY <1>9, <1>0, SMTT(40)
     DEF Answers, Keeps, Others, Still, regs, Single, InFlight, Unsent, Carried, Numbered
<1>10. CASE Acks
  BY <1>10, <1>0 DEF Acks, Keeps, Others, Still, regs, Single, InFlight, Unsent
<1>11. CASE Rests
  BY <1>11, <1>0 DEF Rests, Keeps, Others, Still, regs, Single, InFlight, Unsent
<1>12. QED
  BY <1>1, <1>2, <1>3, <1>4, <1>5, <1>6, <1>7, <1>8, <1>9, <1>10, <1>11 DEF Effect

\* AnswerIsMine: whatever the threads, the service task and a slow firmware
\* do, a command that ixgbe_aci_send_cmd reports as done was carried out and
\* its answer read, and only one that may be sent again is carried out twice.
THEOREM AnswersAreMine == ASSUME Sane PROVE Spec => []AnswerIsMine
<1>1. Init => IInv
  BY IInvInit
<1>2. IInv /\ [Next]_cvars => IInv'
  BY TypedKept, Effects, LockedKept, NumberedKept, MineKept, SingleKept DEF IInv
<1>3. IInv => AnswerIsMine
  BY DEF IInv, AnswerIsMine, Mine, Single
<1>4. QED
  BY <1>1, <1>2, <1>3, PTL DEF Spec
=============================================================================
