------------------------------ MODULE IrqProofs ------------------------------
(***************************************************************************)
(* The two users of the interrupt masks.  LinkWatch: the link interrupt is *)
(* never left masked without an update pending, however often the port     *)
(* comes up and whatever modules are plugged.  NapiIrq: whatever the       *)
(* handlers and the poll routines of the vectors do, nobody cleans a ring  *)
(* that the holder of the RTNL lock empties.                               *)
(***************************************************************************)
EXTENDS LinkWatch, TLAPS

CONSTANTS Vectors, MaxWork, Budget, MaxArrivals, MaxOps
VARIABLES down, eims, eicr, inirq, napi, disabling, missed, poll, work, rxon,
          ctl, rearm, arrivals, ops

Nap == INSTANCE NapiIrq

-----------------------------------------------------------------------------
(* LinkWatch. *)

\* Past its read of the link the watchdog has a value to store.
ReadFirst == svc \in {"decide", "clear", "unmask", "store"} => seen # "unset"

\* The inductive invariant: the types, the watchdog's local variable and the
\* masking rule.
LinkInv == TypeOK /\ ReadFirst /\ LscNotStuck

\* Initially nothing is masked and nothing is pending.
LEMMA LinkInit == Init => LinkInv
<1> SUFFICES ASSUME Init PROVE LinkInv
  OBVIOUS
<1>1. news \in 0 .. MaxNews
  BY LinkAssumption DEF Init
<1>2. CASE phys = TRUE
  BY <1>1, <1>2, Zenon DEF Init, LinkInv, TypeOK, ReadFirst, LscNotStuck, Reading
<1>3. CASE phys = FALSE
  BY <1>1, <1>3, Zenon DEF Init, LinkInv, TypeOK, ReadFirst, LscNotStuck, Reading
<1> QED
  BY <1>2, <1>3, ZenonT(30) DEF Init

\* Every step of the handler, the watchdog, the timer and the hardware keeps
\* the invariant.
LEMMA LinkStep == LinkInv /\ [Next]_vars => LinkInv'
<1> SUFFICES ASSUME LinkInv, [Next]_vars PROVE LinkInv'
  OBVIOUS
<1> USE DEF LinkInv, TypeOK, ReadFirst, LscNotStuck
<1>1. CASE LinkChange
  BY <1>1 DEF LinkChange
<1>2. CASE TimeoutPasses
  BY <1>2 DEF TimeoutPasses
<1>3. CASE UpComplete
  <2>1. news' \in 0 .. MaxNews
    BY <1>3, LinkAssumption DEF UpComplete
  <2> QED
    BY <1>3, <2>1, Zenon DEF UpComplete
<1>4. CASE SfpPlugged
  <2>1. news' \in 0 .. MaxNews
    BY <1>4, LinkAssumption DEF SfpPlugged
  <2>2. TypeOK'
    BY <1>4, <2>1 DEF SfpPlugged
  <2> QED
    BY <1>4, <2>2 DEF SfpPlugged
<1>5. CASE Irq
  BY <1>5, ZenonT(30) DEF Irq
<1>6. CASE IrqMask
  <2>1. TypeOK'
    BY <1>6, ZenonT(30) DEF IrqMask
  <2>2. ReadFirst'
    BY <1>6 DEF IrqMask
  <2>3. LscNotStuck'
    BY <1>6 DEF IrqMask
  <2> QED
    BY <2>1, <2>2, <2>3 DEF LinkInv
<1>7. CASE IrqEnable
  <2>1. TypeOK'
    BY <1>7 DEF IrqEnable, Reenable
  <2>2. ReadFirst'
    BY <1>7 DEF IrqEnable, Reenable
  <2>3. LscNotStuck'
    BY <1>7, ZenonT(30) DEF IrqEnable, Reenable
  <2> QED
    BY <2>1, <2>2, <2>3 DEF LinkInv
<1>8. CASE ServiceTimer
  BY <1>8 DEF ServiceTimer
<1>9. CASE ServiceStart
  BY <1>9, ZenonT(30) DEF ServiceStart
<1>10. CASE CheckLink
  BY <1>10 DEF CheckLink, Skip, Reading
<1>11. CASE Decide
  BY <1>11 DEF Decide
<1>12. CASE ClearNeed
  <2>1. TypeOK'
    BY <1>12, ZenonT(30) DEF ClearNeed
  <2>2. ReadFirst'
    BY <1>12 DEF ClearNeed
  <2>3. LscNotStuck'
    BY <1>12 DEF ClearNeed
  <2> QED
    BY <2>1, <2>2, <2>3 DEF LinkInv
<1>13. CASE Unmask
  BY <1>13 DEF Unmask
<1>14. CASE Store
  BY <1>14 DEF Store
<1>15. CASE Report
  BY <1>15, ZenonT(30) DEF Report
<1>16. CASE UNCHANGED vars
  BY <1>16 DEF vars
<1> QED
  BY <1>1, <1>2, <1>3, <1>4, <1>5, <1>6, <1>7, <1>8, <1>9, <1>10, <1>11,
     <1>12, <1>13, <1>14, <1>15, <1>16 DEF Next

\* The handler's mask and the watchdog's unmask may land in either order;
\* ixgbe_irq_enable never leaves the port deaf to its link.
THEOREM NeverDeaf == Spec => []LscNotStuck
<1>1. LinkInv => LscNotStuck
  BY DEF LinkInv
<1> QED
  BY LinkInit, LinkStep, <1>1, PTL DEF Spec

\* ixgbe_watchdog_update_link never stores a link state it has not read, and
\* every variable keeps its type.
THEOREM StoresWhatItRead == Spec => []TypeOK
<1>1. LinkInv => TypeOK
  BY DEF LinkInv
<1> QED
  BY LinkInit, LinkStep, <1>1, PTL DEF Spec
-----------------------------------------------------------------------------
(* NapiIrq. *)

\* The steps of the holder of the RTNL lock, and the variables it goes by.
CtlAts == {"rest", "up_napi", "up_eicr", "up_irq", "down_irq", "down_sync",
           "disable", "wait", "clean", "sw_napi", "sw_config", "sw_wake"}
NapTyped ==
    /\ ctl \in [at : CtlAts, vs : SUBSET Vectors]
    /\ napi \in [Vectors -> {"idle", "sched", "disabled"}]
    /\ poll \in [Vectors -> {"out", "clean", "complete", "test", "enable"}]

\* A ring is cleaned by a scheduled context only, and the contexts that the
\* holder of the lock took stay disabled until it enables them again: in a
\* port that is down, all of them.
NapOwned ==
    /\ \A v \in Vectors : poll[v] \in {"clean", "complete"} => napi[v] = "sched"
    /\ ctl.at \in {"clean", "sw_napi", "up_napi"} =>
           \A v \in ctl.vs : napi[v] = "disabled"
    /\ down /\ ctl.at = "rest" => \A v \in Vectors : napi[v] = "disabled"
    /\ ctl.at \in {"down_irq", "down_sync", "up_napi"} => ctl.vs = Vectors
    /\ down /\ ctl.at \in {"disable", "wait", "clean"} => ctl.vs = Vectors
    /\ ctl.at \in {"down_irq", "down_sync"} => down
    /\ down => ctl.at \in {"rest", "down_irq", "down_sync", "disable", "wait", "clean"}
NapInv == NapTyped /\ NapOwned

\* A port starts down, with every context disabled; no step of the handler, the
\* poll routine or the holder of the lock breaks this ownership.
LEMMA NapInit == Nap!Init => NapInv
  BY DEF Nap!Init, Nap!Rest, NapInv, NapTyped, NapOwned, CtlAts

LEMMA NapKept == NapInv /\ [Nap!Next]_Nap!vars => NapInv'
<1> SUFFICES ASSUME NapInv, [Nap!Next]_Nap!vars PROVE NapInv'
  OBVIOUS
<1>1. ASSUME NEW v \in Vectors, Nap!CleanRings(v) PROVE NapInv'
  BY <1>1 DEF Nap!CleanRings, Nap!Schedule, NapInv, NapTyped, NapOwned
<1>2. ASSUME NEW v \in Vectors, Nap!PollStart(v) PROVE NapInv'
  BY <1>2 DEF Nap!PollStart, Nap!kernel, NapInv, NapTyped, NapOwned
<1>3. ASSUME NEW v \in Vectors, Nap!PollClean(v) PROVE NapInv'
  BY <1>3 DEF Nap!PollClean, NapInv, NapTyped, NapOwned
<1>4. ASSUME NEW v \in Vectors, Nap!PollComplete(v) PROVE NapInv'
  BY <1>4 DEF Nap!PollComplete, NapInv, NapTyped, NapOwned
<1>5. ASSUME NEW v \in Vectors, Nap!PollTest(v) PROVE NapInv'
  BY <1>5 DEF Nap!PollTest, Nap!kernel, NapInv, NapTyped, NapOwned
<1>6. ASSUME NEW v \in Vectors, Nap!PollEnable(v) PROVE NapInv'
  BY <1>6 DEF Nap!PollEnable, Nap!kernel, NapInv, NapTyped, NapOwned
<1>7. ASSUME NEW v \in Vectors, Nap!SwitchBegin(v) PROVE NapInv'
  BY <1>7 DEF Nap!SwitchBegin, Nap!kernel, Nap!At, CtlAts, NapInv, NapTyped, NapOwned
<1>8. CASE Nap!UpBegin
  BY <1>8 DEF Nap!UpBegin, Nap!kernel, Nap!At, CtlAts, NapInv, NapTyped, NapOwned
<1>9. CASE Nap!NapiEnable
  BY <1>9 DEF Nap!NapiEnable, Nap!At, Nap!GoOn, CtlAts, NapInv, NapTyped, NapOwned
<1>10. CASE Nap!DownBegin
  BY <1>10 DEF Nap!DownBegin, Nap!kernel, Nap!At, CtlAts, NapInv, NapTyped, NapOwned
<1>11. CASE Nap!NapiDisable
  BY <1>11 DEF Nap!NapiDisable, Nap!At, Nap!GoOn, CtlAts, NapInv, NapTyped, NapOwned
<1>12. CASE Nap!NapiDisabled
  BY <1>12 DEF Nap!NapiDisabled, Nap!At, Nap!GoOn, Nap!Unscheduled, CtlAts,
           NapInv, NapTyped, NapOwned
<1>13. CASE Nap!CleanQueues
  BY <1>13 DEF Nap!CleanQueues, Nap!kernel, Nap!At, Nap!GoOn, Nap!Rest, CtlAts,
           NapInv, NapTyped, NapOwned
<1>14. CASE Nap!UpReadEicr \/ Nap!UpIrqEnable \/ Nap!IrqDisable \/ Nap!SynchronizeIrq
  BY <1>14 DEF Nap!UpReadEicr, Nap!UpIrqEnable, Nap!IrqDisable, Nap!SynchronizeIrq,
           Nap!kernel, Nap!At, Nap!GoOn, Nap!Rest, CtlAts, NapInv, NapTyped, NapOwned
<1>15. CASE Nap!SwitchConfigure \/ Nap!XskWakeup
  BY <1>15 DEF Nap!SwitchConfigure, Nap!XskWakeup, Nap!kernel, Nap!At, Nap!GoOn, Nap!Rest,
           CtlAts, NapInv, NapTyped, NapOwned
<1>16. CASE Nap!CheckHang \/ Nap!Rearm \/ UNCHANGED Nap!vars
  BY <1>16 DEF Nap!CheckHang, Nap!Rearm, Nap!vars, Nap!kernel, NapInv, NapTyped, NapOwned
<1>17. ASSUME NEW v \in Vectors, Nap!Fire(v) \/ Nap!Arrive(v) PROVE NapInv'
  BY <1>17 DEF Nap!Fire, Nap!Arrive, Nap!kernel, NapInv, NapTyped, NapOwned
<1>18. QED
  BY <1>1, <1>2, <1>3, <1>4, <1>5, <1>6, <1>7, <1>8, <1>9, <1>10, <1>11,
     <1>12, <1>13, <1>14, <1>15, <1>16, <1>17
  DEF Nap!Next, Nap!Driver, Nap!RtnlStep, Nap!VectorStep

\* napi_disable keeps the poll routine of every vector out of the rings that
\* ixgbe_down or ixgbe_txrx_ring_disable empties, for any number of vectors and
\* frames and however ups, downs and queue switches follow each other.
THEOREM CleanedByOne == Nap!Spec => []Nap!CleanedAlone
<1>1. NapInv => Nap!CleanedAlone
  BY DEF NapInv, NapTyped, NapOwned, Nap!CleanedAlone, Nap!At
<1>2. QED
  BY <1>1, NapInit, NapKept, PTL DEF Nap!Spec
=============================================================================
