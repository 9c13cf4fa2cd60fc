------------------------------ MODULE SwFwSync ------------------------------
(***************************************************************************)
(* The semaphores by which the drivers of the ports of one controller and  *)
(* its firmware share the NVM, the PHYs and the other common parts         *)
(* (ixgbe_x540.c: acquire, release and init of SW_FW_SYNC).                *)
(*                                                                         *)
(* SW_FW_SYNC has one software and one firmware flag per resource.  Its    *)
(* software users take SMBI before they touch it, and take REGSMP to keep  *)
(* the firmware away; reading either of the two as 0 sets it.  Every       *)
(* register access is a step of its own.                                   *)
(*                                                                         *)
(* The FLASH bit that the hardware sets beside the firmware's NVM flag is  *)
(* folded into that flag, and the I2C flags are flags like the others: the *)
(* mask of "all" resources is Res.                                         *)
(***************************************************************************)
EXTENDS Naturals, FiniteSets, TLC

CONSTANTS
    Threads,    \* callers, each of another port
    Res,        \* the resources of SW_FW_SYNC
    SwOnly,     \* those without a firmware flag (IXGBE_GSSR_SW_MNG_SM)
    MaxCalls,   \* bound on the acquisitions of a caller
    MaxCrashes  \* bound on the deaths of a port's driver

ASSUME SwFwAssumption ==
    /\ SwOnly \subseteq Res
    /\ MaxCalls \in Nat /\ MaxCrashes \in Nat

VARIABLES
    smbi,       \* SWSM.SMBI
    regsmp,     \* SW_FW_SYNC.REGSMP
    sw, fw,     \* the software and the firmware flags of SW_FW_SYNC
    fwpc,       \* the firmware: away from the register, or at it
    th,         \* the call every caller is in
    held,       \* what a caller was told it has
    calls,      \* acquisitions begun
    crashes,    \* deaths so far
    timedout    \* history: somebody gave up waiting

vars == <<smbi, regsmp, sw, fw, fwpc, th, held, calls, crashes, timedout>>
regs == <<smbi, regsmp, sw, fw>>

Word == [sw : SUBSET Res, fw : SUBSET (Res \ SwOnly), reg : BOOLEAN]
Empty == [sw |-> {}, fw |-> {}, reg |-> FALSE]

\* Where a caller stands: its next register access; the function it is in
\* ("try" and "force" are the loop and the tail of acquire, "rel" is release,
\* "nested" the release inside acquire, "init" the first lines of init); the
\* mask; the word it read; and where it goes on after giving SMBI back.
Steps == {"idle", "dead", "smbi", "regsmp", "read", "write", "free_read",
          "free_write", "free_smbi", "sleep"}
Fns == {"try", "force", "rel", "nested", "init"}
Afters == {"sleep", "ok", "err", "read", "free_read"}
Call == [pc : Steps, fn : Fns, mask : SUBSET Res, val : Word, after : Afters,
         probe : BOOLEAN]

Idle == [pc |-> "idle", fn |-> "try", mask |-> {}, val |-> Empty,
         after |-> "ok", probe |-> FALSE]

Symmetry == Permutations(Threads)

Init ==
    /\ smbi = FALSE /\ regsmp = FALSE /\ sw = {} /\ fw = {}
    /\ fwpc = "out"
    /\ th = [t \in Threads |-> Idle]
    /\ held = [t \in Threads |-> {}]
    /\ calls = [t \in Threads |-> 0] /\ crashes = 0
    /\ timedout = FALSE

At(t, step) == th[t].pc = step
Goto(t, step) == th' = [th EXCEPT ![t].pc = step]
\* Give both semaphores back and go on with step.
Free(t, step) ==
    th' = [th EXCEPT ![t].pc = "free_read", ![t].after = step, ![t].val = Empty]

-----------------------------------------------------------------------------
(* ixgbe_get_swfw_sync_semaphore and ixgbe_release_swfw_sync_semaphore.     *)
(* The 2000 polls of either bit are a wait that may end at any time at      *)
(* which the bit is still set.                                              *)

\* Both time-outs of get.  acquire returns an error; release and init do not
\* look at the result.
OnGetFailed(fn) == CASE fn \in {"try", "force"} -> "err"
                     [] fn \in {"rel", "nested"} -> "read"
                     [] fn = "init" -> "free_read"

\* The call returns.  Init goes from its first two lines to the acquisition of
\* every flag and, whatever that returned, to their release.
Return(t, got) ==
    LET c == th[t] IN
    /\ th' = [th EXCEPT ![t] =
          IF c.probe /\ c.fn # "rel"
          THEN [Idle EXCEPT !.pc = "smbi", !.mask = Res, !.probe = TRUE,
                            !.fn = IF c.fn = "init" THEN "try" ELSE "rel"]
          ELSE Idle]
    /\ held' = [held EXCEPT ![t] = IF got /\ c.fn \in {"try", "force"} /\ ~c.probe
                                   THEN c.mask ELSE {}]

\* What follows the release of both semaphores.
Continue(t, step) ==
    \/ step = "ok" /\ Return(t, TRUE)
    \/ step = "err" /\ Return(t, FALSE)
    \/ /\ step \notin {"ok", "err"}
       /\ th' = [th EXCEPT ![t].pc = step, ![t].after = "ok"]
       /\ UNCHANGED held

GetSmbi(t) ==
    /\ At(t, "smbi") /\ ~smbi
    /\ smbi' = TRUE
    /\ Goto(t, "regsmp")
    /\ UNCHANGED <<regsmp, sw, fw, fwpc, held, calls, crashes, timedout>>

SmbiTimeout(t) ==
    /\ At(t, "smbi") /\ smbi
    /\ timedout' = TRUE
    /\ Continue(t, OnGetFailed(th[t].fn))
    /\ UNCHANGED <<regs, fwpc, calls, crashes>>

GetRegsmp(t) ==
    /\ At(t, "regsmp") /\ ~regsmp
    /\ regsmp' = TRUE
    /\ IF th[t].fn = "init" THEN Free(t, "ok") ELSE Goto(t, "read")
    /\ UNCHANGED <<smbi, sw, fw, fwpc, held, calls, crashes, timedout>>

\* A variant of RegsmpTimeout: the error path keeps the semaphores.
RegsmpTimeoutKeeps(t) ==
    /\ At(t, "regsmp") /\ regsmp
    /\ timedout' = TRUE
    /\ Continue(t, OnGetFailed(th[t].fn))
    /\ UNCHANGED <<regs, fwpc, calls, crashes>>

RegsmpTimeout(t) ==
    /\ At(t, "regsmp") /\ regsmp
    /\ timedout' = TRUE
    /\ Free(t, OnGetFailed(th[t].fn))
    /\ UNCHANGED <<regs, fwpc, held, calls, crashes>>

FreeRead(t) ==
    /\ At(t, "free_read")
    /\ th' = [th EXCEPT ![t].pc = "free_write",
                        ![t].val = [sw |-> sw, fw |-> fw, reg |-> FALSE]]
    /\ regsmp' = TRUE
    /\ UNCHANGED <<smbi, sw, fw, fwpc, held, calls, crashes, timedout>>

FreeWrite(t) ==
    /\ At(t, "free_write")
    /\ sw' = th[t].val.sw /\ fw' = th[t].val.fw /\ regsmp' = th[t].val.reg
    /\ th' = [th EXCEPT ![t].pc = "free_smbi", ![t].val = Empty]
    /\ UNCHANGED <<smbi, fwpc, held, calls, crashes, timedout>>

\* After its first release of the semaphores ("free_read") init is done with
\* them; so is the release inside acquire, after which acquire gives back once
\* more what is no longer its own.
FreeSmbi(t) ==
    /\ At(t, "free_smbi")
    /\ smbi' = FALSE
    /\ IF th[t].fn = "nested" /\ th[t].after = "ok"
       THEN /\ th' = [th EXCEPT ![t].pc = "free_read", ![t].after = "err",
                                ![t].fn = "force"]
            /\ UNCHANGED held
       ELSE Continue(t, th[t].after)
    /\ UNCHANGED <<regsmp, sw, fw, fwpc, calls, crashes, timedout>>

-----------------------------------------------------------------------------
(* ixgbe_acquire_swfw_sync_X540, ixgbe_release_swfw_sync_X540 and           *)
(* ixgbe_init_swfw_sync_X540.                                               *)

Acquire(t) ==
    /\ At(t, "idle") /\ held[t] = {}
    /\ calls[t] < MaxCalls
    /\ calls' = [calls EXCEPT ![t] = @ + 1]
    /\ \E r \in Res : th' = [th EXCEPT ![t] = [Idle EXCEPT !.pc = "smbi", !.mask = {r}]]
    /\ UNCHANGED <<regs, fwpc, held, crashes, timedout>>

Release(t) ==
    /\ At(t, "idle") /\ held[t] # {}
    /\ th' = [th EXCEPT ![t] = [Idle EXCEPT !.pc = "smbi", !.fn = "rel", !.mask = held[t]]]
    /\ held' = [held EXCEPT ![t] = {}]
    /\ UNCHANGED <<regs, fwpc, calls, crashes, timedout>>

Probe(t) ==
    /\ At(t, "dead")
    /\ th' = [th EXCEPT ![t] = [Idle EXCEPT !.pc = "smbi", !.fn = "init", !.probe = TRUE]]
    /\ UNCHANGED <<regs, fwpc, held, calls, crashes, timedout>>

\* The test of the loop, and a variant that forgets fwmask.
TakenBySw(mask) == sw \cap mask # {}
Taken(mask) == (sw \cup fw) \cap mask # {}

\* What the caller does with the word it reads.  The tail of acquire ignores
\* the firmware's flag, or clears every software flag.
Decide(t) ==
    LET c == th[t]
        Away(step) == [c EXCEPT !.pc = "free_read", !.after = step]
    IN th' = [th EXCEPT ![t] =
         CASE c.fn = "try" /\ Taken(c.mask) -> Away("sleep")
           [] c.fn = "force" /\ ~Taken(c.mask) -> Away("err")
           [] c.fn = "force" /\ fw \cap c.mask = {} /\ Taken(c.mask) ->
                [c EXCEPT !.fn = "nested", !.mask = Res, !.pc = "smbi"]
           [] OTHER -> [c EXCEPT !.pc = "write",
                                 !.val = [sw |-> sw, fw |-> fw, reg |-> regsmp]]]

ReadSync(t) ==
    /\ At(t, "read")
    /\ Decide(t)
    /\ regsmp' = TRUE
    /\ UNCHANGED <<smbi, sw, fw, fwpc, held, calls, crashes, timedout>>

\* The word written, and two variants: one sets the flags of the mask and
\* no others, one sets the firmware's flags too.
NewSwOnlyMine(t) == IF th[t].fn \in {"try", "force"} THEN th[t].mask
                                                     ELSE th[t].val.sw \ th[t].mask
NewFwToo(t) == th[t].val.fw \cup th[t].mask

NewSw(t) == IF th[t].fn \in {"try", "force"} THEN th[t].val.sw \cup th[t].mask
                                             ELSE th[t].val.sw \ th[t].mask
NewFw(t) == th[t].val.fw

WriteSync(t) ==
    /\ At(t, "write")
    /\ sw' = NewSw(t) /\ fw' = NewFw(t) /\ regsmp' = th[t].val.reg
    /\ Free(t, "ok")
    /\ UNCHANGED <<smbi, fwpc, held, calls, crashes, timedout>>

\* The next round, and what follows the last of the 200 or 1000.
Again(t) ==
    /\ At(t, "sleep")
    /\ Goto(t, "smbi")
    /\ UNCHANGED <<regs, fwpc, held, calls, crashes, timedout>>

GiveUp(t) ==
    /\ At(t, "sleep")
    /\ th' = [th EXCEPT ![t].pc = "smbi", ![t].fn = "force"]
    /\ timedout' = TRUE
    /\ UNCHANGED <<regs, fwpc, held, calls, crashes>>

\* The driver dies anywhere, with what it holds still flagged.
Crash(t) ==
    /\ ~At(t, "dead") /\ crashes < MaxCrashes
    /\ crashes' = crashes + 1
    /\ th' = [th EXCEPT ![t] = [Idle EXCEPT !.pc = "dead"]]
    /\ held' = [held EXCEPT ![t] = {}]
    /\ UNCHANGED <<regs, fwpc, calls, timedout>>

-----------------------------------------------------------------------------
(* The firmware: it takes REGSMP, then sets a flag whose software twin is   *)
(* clear, or clears one of its own.  It may stop anywhere.                  *)

FwLock ==
    /\ fwpc = "out" /\ ~regsmp
    /\ regsmp' = TRUE /\ fwpc' = "in"
    /\ UNCHANGED <<smbi, sw, fw, th, held, calls, crashes, timedout>>

FwUpdate ==
    /\ fwpc = "in"
    /\ \/ \E r \in Res \ (SwOnly \cup sw) : fw' = fw \cup {r}
       \/ \E r \in fw : fw' = fw \ {r}
       \/ fw' = fw
    /\ regsmp' = FALSE /\ fwpc' = "out"
    /\ UNCHANGED <<smbi, sw, th, held, calls, crashes, timedout>>

ThreadStep(t) ==
    \/ GetSmbi(t) \/ SmbiTimeout(t) \/ GetRegsmp(t) \/ RegsmpTimeout(t)
    \/ ReadSync(t) \/ WriteSync(t)
    \/ FreeRead(t) \/ FreeWrite(t) \/ FreeSmbi(t)
    \/ GiveUp(t) \/ Release(t) \/ Probe(t)

Next ==
    \/ \E t \in Threads : ThreadStep(t) \/ Again(t) \/ Acquire(t) \/ Crash(t)
    \/ FwLock \/ FwUpdate

Spec == Init /\ [][Next]_vars

-----------------------------------------------------------------------------
TypeOK ==
    /\ smbi \in BOOLEAN /\ regsmp \in BOOLEAN
    /\ sw \subseteq Res /\ fw \subseteq Res \ SwOnly
    /\ fwpc \in {"out", "in"}
    /\ th \in [Threads -> Call]
    /\ held \in [Threads -> SUBSET Res]
    /\ calls \in [Threads -> 0 .. MaxCalls] /\ crashes \in 0 .. MaxCrashes
    /\ timedout \in BOOLEAN

\* While nobody has given up waiting, a resource has one owner: no two ports,
\* and no port and the firmware, are told that they have it.
OneOwner ==
    ~timedout => \A t \in Threads :
        /\ held[t] \cap fw = {}
        /\ \A u \in Threads \ {t} : held[t] \cap held[u] = {}

\* ... and what a caller has stays flagged until it gives it back: no
\* read-modify-write of SW_FW_SYNC by another port or by the release of
\* REGSMP loses a flag.
FlagsKept == ~timedout => \A t \in Threads : held[t] \subseteq sw

\* Both together: what acquire grants is exclusive and stays granted.
OwnersSound == OneOwner /\ FlagsKept

\* Nothing is left locked: when no call is in progress and the firmware is
\* away from the register, both semaphores are free, whoever died or gave up
\* before (ixgbe_init_swfw_sync_X540: "reset hardware semaphore bits").
QuietFree ==
    (fwpc = "out" /\ \A t \in Threads : At(t, "idle")) => ~smbi /\ ~regsmp
=============================================================================
