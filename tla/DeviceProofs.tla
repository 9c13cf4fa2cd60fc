---------------------------- MODULE DeviceProofs ----------------------------
(***************************************************************************)
(* The parts of module Device, for every value of the constants.           *)
(***************************************************************************)
EXTENDS Device, TLAPS

\* Most steps are first-order; those that count or compare records name SMT.
USE ZenonT(30)

\* A behaviour is about one part, and its steps are steps of that part.
LEMMA OnePart ==
    ASSUME [DeviceNext]_mcvars
    PROVE  /\ part' = part
           /\ part = "iov" => [Iov!Next]_Iov!svars
           /\ part = "vf" => [Vf!Next]_Vf!gvars
           /\ part = "nvm" => [Nvm!Next]_Nvm!nvars
           /\ part = "rules" => [Fd!Next]_Fd!fvars
<1>1. CASE UNCHANGED mcvars
  BY <1>1 DEF mcvars, Iov!svars, Vf!gvars, Nvm!nvars, Nvm!flash, Nvm!caps, Fd!fvars
<1>2. CASE DeviceNext
  <2>1. part' = part
    BY <1>2 DEF DeviceNext, Keep7, Keep9, Keep10, Keep11, Keep12, Keep13, Keep14,
       Keep15, Keep16, Keep21
  <2>2. QED
    BY <1>2, <2>1 DEF DeviceNext
<1>3. QED
  BY <1>1, <1>2

-----------------------------------------------------------------------------
(* FdirRules: the hardware table mirrors the list of the rules.            *)

\* The variables that RulesMirror speaks of.
FdTyped ==
    /\ x1 \in [Locs -> {Fd!None} \cup [hash : FdHashes, action : Fd!Actions]]
    /\ x12 \subseteq Locs
    /\ x3 \subseteq [loc : Locs, hash : FdHashes, queue : Fd!Actions]

FdInv == FdTyped /\ Fd!RulesMirror

LEMMA FdInit == Fd!Init => FdInv
  BY DEF Fd!Init, FdInv, FdTyped, Fd!RulesMirror, Fd!Empty, Fd!Listed

LEMMA FdKept == ASSUME FdInv, [Fd!Next]_Fd!fvars PROVE FdInv'
<1> USE DEF FdInv
<1>1. ASSUME NEW l \in Locs, NEW h \in FdHashes, NEW a \in Fd!Actions, NEW m \in Masks,
             NEW ok \in BOOLEAN, Fd!AddRule(l, [hash |-> h, action |-> a], m, ok)
      PROVE  FdInv'
  <2> DEFINE r == [hash |-> h, action |-> a]
  <2>1. FdTyped'
    BY <1>1, SMTT(40)
       DEF Fd!AddRule, Fd!update_entry, Fd!Written, Fd!Erased, Fd!EraseOld, Fd!tc, FdTyped
  <2>2. Fd!RulesMirror'
    <3> SUFFICES ASSUME Fd!Ready' PROVE Fd!RulesMirror'
      BY DEF Fd!RulesMirror
    <3>1. Fd!Ready /\ Fd!RulesMirror
      BY <1>1 DEF Fd!AddRule, Fd!Ready, Fd!dev
    <3>2. CASE UNCHANGED <<x1, x3, x9>>
      BY <1>1, <3>1, <3>2
         DEF Fd!AddRule, Fd!RulesMirror, Fd!Ready, Fd!dev, Fd!Empty, Fd!Listed,
         Fd!SetMask, Fd!ValidQueue
    <3>3. CASE Fd!MaskOk(m) /\ Fd!update_entry(Fd!Written(x3, l, r), l, r)
      <4>1. \A f \in x3' : x1'[f.loc] = [hash |-> f.hash, action |-> f.queue]
        <5> SUFFICES ASSUME NEW f \in x3'
                     PROVE  x1'[f.loc] = [hash |-> f.hash, action |-> f.queue]
          OBVIOUS
        <5>1. CASE f = [loc |-> l, hash |-> r.hash, queue |-> r.action]
          BY <3>3, <5>1 DEF FdTyped, Fd!update_entry
        <5>2. CASE f \in x3 /\ (f.loc # l \/ f.hash # r.hash)
          <6>1. f \in [loc : Locs, hash : FdHashes, queue : Fd!Actions]
            BY <5>2 DEF FdTyped
          <6>2. x1[f.loc] = [hash |-> f.hash, action |-> f.queue]
            BY <3>1, <5>2 DEF Fd!RulesMirror
          <6>3. f.loc # l
            BY <3>1, <3>3, <5>2, <6>1, <6>2, DeviceAssumption, SMTT(40)
               DEF Fd!update_entry, Fd!Erased,
               Fd!EraseOld, Fd!Ready, Fd!None
          <6>4. QED
            BY <3>3, <6>1, <6>2, <6>3 DEF Fd!update_entry, FdTyped
        <5>3. QED
          BY <3>3, <5>1, <5>2 DEF Fd!update_entry, Fd!Written, Fd!Erased
      <4>2. \A k \in Fd!Listed(x1') \ x9' : Fd!ValidQueue(x1[k].action)' => \E f \in x3' : f.loc = k
        <5> SUFFICES ASSUME NEW k \in Fd!Listed(x1') \ x9', Fd!ValidQueue(x1[k].action)'
                     PROVE  \E f \in x3' : f.loc = k
          OBVIOUS
        <5>1. CASE k = l
          <6>1. [loc |-> l, hash |-> r.hash, queue |-> r.action] \in x3'
            BY <3>3, DeviceAssumption
               DEF Fd!update_entry, Fd!Written, Fd!Erased, Fd!EraseOld, Fd!None
          <6>2. QED
            BY <5>1, <6>1
        <5>2. CASE k # l
          <6>1. PICK f \in x3 : f.loc = k
            BY <1>1, <3>1, <3>3, <5>2
               DEF Fd!AddRule, Fd!dev, Fd!update_entry, Fd!RulesMirror, Fd!Listed,
                   Fd!ValidQueue, FdTyped
          <6>2. f \in x3'
            BY <3>3, <5>2, <6>1 DEF Fd!update_entry, Fd!Written, Fd!Erased
          <6>3. QED
            BY <6>1, <6>2
        <5>3. QED
          BY <5>1, <5>2
      <4>3. x4' = x2'
        BY <1>1, <3>1, <3>3 DEF Fd!AddRule, Fd!SetMask, Fd!MaskOk, Fd!RulesMirror
      <4>4. QED
        BY <4>1, <4>2, <4>3 DEF Fd!RulesMirror, Fd!Listed, Fd!ValidQueue
    <3>4. QED
      BY <1>1, <3>1, <3>2, <3>3 DEF Fd!AddRule, Fd!Ready
  <2>3. QED
    BY <2>1, <2>2
<1>2. ASSUME NEW l \in Locs, Fd!DelRule(l) PROVE FdInv'
  BY <1>2, DeviceAssumption, SMTT(40)
     DEF Fd!DelRule, Fd!update_entry, Fd!Erased, Fd!EraseOld,
       Fd!tc, Fd!dev, Fd!RulesMirror, Fd!Empty, Fd!Listed, Fd!Ready, Fd!None,
       Fd!ValidQueue, FdTyped
<1>3. ASSUME NEW b \in BOOLEAN, Fd!Hnode(b) PROVE FdInv'
  BY <1>3
     DEF Fd!Hnode, Fd!tc, Fd!dev, Fd!RulesMirror, Fd!Empty, Fd!Listed, Fd!Ready, Fd!None,
       Fd!ValidQueue, FdTyped
<1>4. CASE Fd!AddLink
  BY <1>4
     DEF Fd!AddLink, Fd!tc, Fd!dev, Fd!RulesMirror, Fd!Empty, Fd!Listed, Fd!Ready, Fd!None,
       Fd!ValidQueue, FdTyped
<1>5. CASE Fd!DelLink
  <2>1. FdTyped'
    BY <1>5 DEF Fd!DelLink, FdTyped
  <2>2. Fd!RulesMirror'
    BY <1>5, <2>1, SMTT(40)
       DEF Fd!DelLink, Fd!tc, Fd!dev, Fd!RulesMirror, Fd!Empty, Fd!Listed, Fd!Ready,
           Fd!None,
       Fd!ValidQueue, FdTyped
  <2>3. QED
    BY <2>1, <2>2
<1>6. ASSUME NEW sub \in BOOLEAN, NEW l \in Locs, NEW h \in FdHashes, NEW m \in Masks,
             NEW ok \in BOOLEAN, Fd!AddKnode(sub, l, h, m, ok)
      PROVE  FdInv'
  <2> DEFINE r == [hash |-> h, action |-> Fd!Drop]
  <2>1. FdTyped'
    BY <1>6, SMTT(40)
       DEF Fd!AddKnode, Fd!update_entry, Fd!Written, Fd!Erased, Fd!EraseOld, Fd!Actions,
           FdTyped
  <2>2. Fd!RulesMirror'
    <3> SUFFICES ASSUME Fd!Ready' PROVE Fd!RulesMirror'
      BY DEF Fd!RulesMirror
    <3>1. Fd!Ready /\ Fd!RulesMirror
      BY <1>6 DEF Fd!AddKnode, Fd!Ready, Fd!dev
    <3>2. CASE UNCHANGED <<x1, x3, x9>>
      BY <1>6, <3>1, <3>2
         DEF Fd!AddKnode, Fd!RulesMirror, Fd!Ready, Fd!dev, Fd!Empty, Fd!Listed,
         Fd!SetMask, Fd!ValidQueue
    <3>3. CASE Fd!MaskOk(m) /\ Fd!update_entry(Fd!Written(x3, l, r), l, r)
      <4>1. \A f \in x3' : x1'[f.loc] = [hash |-> f.hash, action |-> f.queue]
        <5> SUFFICES ASSUME NEW f \in x3'
                     PROVE  x1'[f.loc] = [hash |-> f.hash, action |-> f.queue]
          OBVIOUS
        <5>1. CASE f = [loc |-> l, hash |-> r.hash, queue |-> r.action]
          BY <3>3, <5>1 DEF FdTyped, Fd!update_entry
        <5>2. CASE f \in x3 /\ (f.loc # l \/ f.hash # r.hash)
          <6>1. f \in [loc : Locs, hash : FdHashes, queue : Fd!Actions]
            BY <5>2 DEF FdTyped
          <6>2. x1[f.loc] = [hash |-> f.hash, action |-> f.queue]
            BY <3>1, <5>2 DEF Fd!RulesMirror
          <6>3. f.loc # l
            BY <3>1, <3>3, <5>2, <6>1, <6>2, DeviceAssumption, SMTT(40)
               DEF Fd!update_entry, Fd!Erased,
               Fd!EraseOld, Fd!Ready, Fd!None
          <6>4. QED
            BY <3>3, <6>1, <6>2, <6>3 DEF Fd!update_entry, FdTyped
        <5>3. QED
          BY <3>3, <5>1, <5>2 DEF Fd!update_entry, Fd!Written, Fd!Erased
      <4>2. \A k \in Fd!Listed(x1') \ x9' : Fd!ValidQueue(x1[k].action)' => \E f \in x3' : f.loc = k
        <5> SUFFICES ASSUME NEW k \in Fd!Listed(x1') \ x9', Fd!ValidQueue(x1[k].action)'
                     PROVE  \E f \in x3' : f.loc = k
          OBVIOUS
        <5>1. CASE k = l
          <6>1. [loc |-> l, hash |-> r.hash, queue |-> r.action] \in x3'
            BY <3>3, DeviceAssumption
               DEF Fd!update_entry, Fd!Written, Fd!Erased, Fd!EraseOld, Fd!None
          <6>2. QED
            BY <5>1, <6>1
        <5>2. CASE k # l
          <6>1. PICK f \in x3 : f.loc = k
            BY <1>6, <3>1, <3>3, <5>2
               DEF Fd!AddKnode, Fd!dev, Fd!update_entry, Fd!RulesMirror, Fd!Listed,
                   Fd!ValidQueue, FdTyped
          <6>2. f \in x3'
            BY <3>3, <5>2, <6>1 DEF Fd!update_entry, Fd!Written, Fd!Erased
          <6>3. QED
            BY <6>1, <6>2
        <5>3. QED
          BY <5>1, <5>2
      <4>3. x4' = x2'
        BY <1>6, <3>1, <3>3 DEF Fd!AddKnode, Fd!SetMask, Fd!MaskOk, Fd!RulesMirror
      <4>4. QED
        BY <4>1, <4>2, <4>3 DEF Fd!RulesMirror, Fd!Listed, Fd!ValidQueue
    <3>4. QED
      BY <1>6, <3>1, <3>2, <3>3 DEF Fd!AddKnode, Fd!Ready
  <2>3. QED
    BY <2>1, <2>2
<1>7. ASSUME NEW sub \in BOOLEAN, NEW l \in Locs, Fd!DelKnode(sub, l) PROVE FdInv'
  BY <1>7, DeviceAssumption, SMTT(40)
     DEF Fd!DelKnode, Fd!update_entry, Fd!Erased, Fd!EraseOld,
     Fd!tc, Fd!dev, Fd!RulesMirror, Fd!Empty, Fd!Listed, Fd!Ready, Fd!None,
       Fd!ValidQueue, FdTyped
<1>8. ASSUME NEW mode \in BOOLEAN, Fd!Reset(mode) PROVE FdInv'
  BY <1>8
     DEF Fd!Reset, Fd!Cleared, Fd!tc, Fd!dev, Fd!RulesMirror, Fd!Empty, Fd!Listed,
         Fd!Ready, Fd!None,
       Fd!ValidQueue, FdTyped
<1>9. CASE Fd!Close
  BY <1>9
     DEF Fd!Close, Fd!Cleared, Fd!tc, Fd!dev, Fd!RulesMirror, Fd!Empty, Fd!Listed,
         Fd!Ready, Fd!None,
       Fd!ValidQueue, FdTyped
<1>10. ASSUME NEW mode \in BOOLEAN, NEW n \in RingCounts, Fd!SetClosed(mode, n) PROVE FdInv'
  BY <1>10
     DEF Fd!SetClosed, Fd!tc, Fd!dev, Fd!RulesMirror, Fd!Empty, Fd!Listed, Fd!Ready,
         Fd!None,
       Fd!ValidQueue, FdTyped
<1>11. ASSUME NEW bad \in SUBSET Locs, Fd!Configure(bad) PROVE FdInv'
  <2>1. FdTyped'
    BY <1>11, SMTT(40) DEF Fd!Configure, Fd!Restored, Fd!Listed, Fd!tc, FdTyped
  <2>2. Fd!RulesMirror'
    <3> SUFFICES ASSUME Fd!Ready' PROVE Fd!RulesMirror'
      BY DEF Fd!RulesMirror
    <3>1. /\ x3' = Fd!Restored(bad)
          /\ x4' = IF Fd!Empty THEN x4 ELSE x2
          /\ x9' = bad
          /\ UNCHANGED <<x1, x2, x8>>
      BY <1>11 DEF Fd!Configure, Fd!Ready
    <3>2. \A f \in x3' : x1'[f.loc] = [hash |-> f.hash, action |-> f.queue]
      BY <3>1, SMTT(40) DEF Fd!Restored, Fd!Listed, FdTyped, Fd!None
    <3>3. ASSUME NEW k \in Fd!Listed(x1') \ x9', Fd!ValidQueue(x1[k].action)'
          PROVE  \E f \in x3' : f.loc = k
      <4>1. [loc |-> k, hash |-> x1[k].hash, queue |-> x1[k].action] \in x3'
        BY <3>1, <3>3 DEF Fd!Restored, Fd!Listed, Fd!ValidQueue
      <4>2. QED
        BY <4>1
    <3>4. QED
      BY <3>1, <3>2, <3>3 DEF Fd!RulesMirror, Fd!Empty
  <2>3. QED
    BY <2>1, <2>2
<1>12. CASE UNCHANGED Fd!fvars
  BY <1>12
     DEF Fd!fvars, Fd!tc, Fd!dev, Fd!RulesMirror, Fd!Empty, Fd!Listed, Fd!Ready, Fd!None,
       Fd!ValidQueue, FdTyped
<1>13. QED
  BY <1>1, <1>2, <1>3, <1>4, <1>5, <1>6, <1>7, <1>8, <1>9, <1>10, <1>11, <1>12
  DEF Fd!Next
-----------------------------------------------------------------------------
(* NvmUpdate: the device boots from whole images.                          *)

\* Where the operation of a function stands, and the banks.
Stages ==
    [at : Nvm!Points, c : Nvm!Comps, b : 0 .. NBlocks - 1, seen : SUBSET Nvm!Comps,
     level : 0 .. 3]
NvmTyped ==
    /\ x1 \in [PFs -> Stages]
    /\ x4 \in [Nvm!Comps -> [by : PFs \cup {"nobody", "mixed"}, n : 0 .. NBlocks]]
    /\ x5 \subseteq Nvm!Comps

\* The bank of component c holds all of the image of function p.
Whole(p, c) == x4[c] = [by |-> p, n |-> NBlocks]

\* While a function owns the resource, the banks hold what it has written:
\* the components before the one at hand in full, that one up to the block at
\* hand, and it is not marked for activation.
Progress(p) ==
    /\ x1[p].at \in {"erase", "write"} => \A c \in Nvm!Comps : c < x1[p].c => Whole(p, c)
    /\ x1[p].at = "write" => x4[x1[p].c] = [by |-> p, n |-> x1[p].b] /\ x1[p].c \notin x5
    /\ x1[p].at = "finalize" => \A c \in Nvm!Comps : Whole(p, c)

NvmInv ==
    /\ NvmTyped
    /\ \A p \in PFs : x1[p].at \notin {"write", "release"} => x1[p].b = 0
    /\ \A p \in PFs : x3 = p => Progress(p)
    /\ Nvm!BootsWhole

LEMMA NvmInit == Nvm!Init => NvmInv
  BY DeviceAssumption, SMTT(40)
     DEF Nvm!Init, NvmInv, NvmTyped, Stages, Nvm!Idle, Nvm!Factory, Nvm!Points,
     Nvm!Comps, Nvm!BootsWhole, Nvm!Nobody, Progress

\* A step that leaves the banks alone, marks nothing and takes its function to
\* a point at which nothing is written.
LEMMA NvmMoves ==
    ASSUME NvmInv, NEW p \in PFs, NEW s \in Stages, x1' = [x1 EXCEPT ![p] = s],
           s.at \notin {"erase", "write", "finalize"}, s.at # "release" => s.b = 0,
           x4' = x4, x5' \subseteq x5, x3' \in {x3, "nobody", p}
    PROVE  NvmInv'
<1>1. NvmTyped'
  BY DEF NvmInv, NvmTyped
<1>2. ASSUME NEW q \in PFs, x1'[q].at \notin {"write", "release"} PROVE x1'[q].b = 0
  BY <1>2 DEF NvmInv, NvmTyped
<1>3. ASSUME NEW q \in PFs, x3' = q PROVE Progress(q)'
  <2>1. CASE q = p
    BY <2>1 DEF NvmInv, NvmTyped, Progress
  <2>2. CASE q # p
    <3>1. x3 = q /\ x1'[q] = x1[q]
      BY <1>3, <2>2, DeviceAssumption DEF NvmInv, NvmTyped
    <3>2. QED
      BY <3>1 DEF NvmInv, Progress, Whole
  <2>3. QED
    BY <2>1, <2>2
<1>4. Nvm!BootsWhole'
  BY DEF NvmInv, Nvm!BootsWhole
<1>5. QED
  BY <1>1, <1>2, <1>3, <1>4 DEF NvmInv

LEMMA NvmKept == ASSUME NvmInv, [Nvm!Next]_Nvm!nvars PROVE NvmInv'
<1> USE DeviceAssumption
<1>a. \A p \in PFs : /\ x1[p] \in Stages
                     /\ x1[p].at \notin {"write", "release"} => x1[p].b = 0
                     /\ x3 = p => Progress(p)
  BY DEF NvmInv, NvmTyped
<1>b. x1 \in [PFs -> Stages] /\ x5 \subseteq Nvm!Comps /\ Nvm!BootsWhole
      /\ x4 \in [Nvm!Comps -> [by : PFs \cup {"nobody", "mixed"}, n : 0 .. NBlocks]]
  BY DEF NvmInv, NvmTyped
<1>1. ASSUME NEW p \in PFs, NEW l \in {"pending", "macquire"}, Nvm!Begin(p, l) PROVE NvmInv'
  <2> DEFINE s == [x1[p] EXCEPT !.at = l]
  <2>1. s \in Stages /\ s.at \notin {"erase", "write", "finalize"} /\ (s.at # "release" => s.b = 0)
    BY <1>a, <1>1 DEF Nvm!Begin, Nvm!flash, Stages, Nvm!Points, Nvm!Comps, Nvm!At, Nvm!Idle
  <2>2. /\ x1' = [x1 EXCEPT ![p] = s]
        /\ x4' = x4 /\ x5' \subseteq x5 /\ x3' \in {x3, "nobody", p}
    BY <1>1 DEF Nvm!Begin, Nvm!flash, Nvm!Go, Nvm!At, Nvm!Idle, Nvm!Nobody
  <2>3. QED
    BY <2>1, <2>2, NvmMoves
<1>2. ASSUME NEW p \in PFs, Nvm!Pending(p) PROVE NvmInv'
  <2> DEFINE s == [x1[p] EXCEPT !.seen = x5, !.at = IF x5 = {} THEN "acquire" ELSE "cacquire"]
  <2>1. s \in Stages /\ s.at \notin {"erase", "write", "finalize"} /\ (s.at # "release" => s.b = 0)
    BY <1>a, <1>b, <1>2
       DEF Nvm!Pending, Nvm!flash, Stages, Nvm!Points, Nvm!Comps, Nvm!At, Nvm!Idle
  <2>2. /\ x1' = [x1 EXCEPT ![p] = s]
        /\ x4' = x4 /\ x5' \subseteq x5 /\ x3' \in {x3, "nobody", p}
    BY <1>2 DEF Nvm!Pending, Nvm!flash, Nvm!Go, Nvm!At, Nvm!Idle, Nvm!Nobody
  <2>3. QED
    BY <2>1, <2>2, NvmMoves
<1>3. ASSUME NEW p \in PFs, Nvm!Release(p) PROVE NvmInv'
  <2> DEFINE s == Nvm!Idle
  <2>1. s \in Stages /\ s.at \notin {"erase", "write", "finalize"} /\ (s.at # "release" => s.b = 0)
    BY <1>a, <1>3, SMTT(40)
       DEF Nvm!Release, Nvm!Released, Stages, Nvm!Points, Nvm!Comps, Nvm!At, Nvm!Idle
  <2>2. /\ x1' = [x1 EXCEPT ![p] = s]
        /\ x4' = x4 /\ x5' \subseteq x5 /\ x3' \in {x3, "nobody", p}
    BY <1>3 DEF Nvm!Release, Nvm!Released, Nvm!Go, Nvm!At, Nvm!Idle, Nvm!Nobody
  <2>3. QED
    BY <2>1, <2>2, NvmMoves
<1>4. ASSUME NEW p \in PFs, Nvm!CancelRelease(p) PROVE NvmInv'
  <2> DEFINE s == [x1[p] EXCEPT !.at = "acquire"]
  <2>1. s \in Stages /\ s.at \notin {"erase", "write", "finalize"} /\ (s.at # "release" => s.b = 0)
    BY <1>a, <1>4
       DEF Nvm!CancelRelease, Nvm!Released, Stages, Nvm!Points, Nvm!Comps, Nvm!At, Nvm!Idle
  <2>2. /\ x1' = [x1 EXCEPT ![p] = s]
        /\ x4' = x4 /\ x5' \subseteq x5 /\ x3' \in {x3, "nobody", p}
    BY <1>4 DEF Nvm!CancelRelease, Nvm!Released, Nvm!Go, Nvm!At, Nvm!Idle, Nvm!Nobody
  <2>3. QED
    BY <2>1, <2>2, NvmMoves
<1>5. ASSUME NEW p \in PFs, Nvm!EraseRefused(p) PROVE NvmInv'
  <2> DEFINE s == [x1[p] EXCEPT !.at = "release"]
  <2>1. s \in Stages /\ s.at \notin {"erase", "write", "finalize"} /\ (s.at # "release" => s.b = 0)
    BY <1>a, <1>5
       DEF Nvm!EraseRefused, Nvm!flash, Stages, Nvm!Points, Nvm!Comps, Nvm!At, Nvm!Idle
  <2>2. /\ x1' = [x1 EXCEPT ![p] = s]
        /\ x4' = x4 /\ x5' \subseteq x5 /\ x3' \in {x3, "nobody", p}
    BY <1>5 DEF Nvm!EraseRefused, Nvm!flash, Nvm!Go, Nvm!At, Nvm!Idle, Nvm!Nobody
  <2>3. QED
    BY <2>1, <2>2, NvmMoves
<1>6. ASSUME NEW p \in PFs, Nvm!Reload(p) PROVE NvmInv'
  BY <1>6
     DEF NvmInv, NvmTyped, Nvm!Reload, Nvm!Booted, Nvm!Factory, Nvm!Nobody, Nvm!BootsWhole
<1>7. ASSUME NEW p \in PFs, NEW ok \in BOOLEAN, Nvm!Acquire(p, ok) PROVE NvmInv'
  <2> DEFINE l == Nvm!NextPoint(x1[p].at)
             s == IF ok THEN [x1[p] EXCEPT !.at = l] ELSE Nvm!Idle
  <2>1. l \in {"package", "revert", "mread"} /\ x1[p].b = 0
    BY <1>a, <1>7 DEF Nvm!Acquire, Nvm!NextPoint
  <2> HIDE DEF l
  <2>2. s \in Stages /\ s.at \notin {"erase", "write", "finalize"} /\ (s.at # "release" => s.b = 0)
    BY <1>a, <2>1, SMTT(40) DEF Stages, Nvm!Points, Nvm!Comps, Nvm!Idle
  <2>3. /\ x1' = [x1 EXCEPT ![p] = s]
        /\ x4' = x4 /\ x5' \subseteq x5 /\ x3' \in {x3, "nobody", p}
    BY <1>7, <2>1 DEF Nvm!Acquire, Nvm!Go, l
  <2>4. QED
    BY <2>2, <2>3, NvmMoves
<1>8. ASSUME NEW p \in PFs, NEW ans \in Nvm!Answers, Nvm!Revert(p, ans) PROVE NvmInv'
  <2> DEFINE s == [x1[p] EXCEPT !.at = IF ans = "ok" THEN "crelease" ELSE "release"]
  <2>1. s \in Stages /\ s.at \notin {"erase", "write", "finalize"} /\ (s.at # "release" => s.b = 0)
    BY <1>a, <1>8 DEF Nvm!Revert, Stages, Nvm!Points, Nvm!Comps, Nvm!At, Nvm!Idle
  <2>2. /\ x1' = [x1 EXCEPT ![p] = s]
        /\ x4' = x4 /\ x5' \subseteq x5 /\ x3' \in {x3, "nobody", p}
    BY <1>8 DEF Nvm!Revert, Nvm!Go, Nvm!At, Nvm!Idle, Nvm!Nobody
  <2>3. QED
    BY <2>1, <2>2, NvmMoves
<1>9. ASSUME NEW p \in PFs, NEW ans \in Nvm!Answers, Nvm!SendPackage(p, ans) PROVE NvmInv'
  <2> DEFINE s == [x1[p] EXCEPT !.at = IF ans = "ok" THEN "table" ELSE "release"]
  <2>1. s \in Stages /\ s.at \notin {"erase", "write", "finalize"} /\ (s.at # "release" => s.b = 0)
    BY <1>a, <1>9
       DEF Nvm!SendPackage, Nvm!flash, Stages, Nvm!Points, Nvm!Comps, Nvm!At, Nvm!Idle
  <2>2. /\ x1' = [x1 EXCEPT ![p] = s]
        /\ x4' = x4 /\ x5' \subseteq x5 /\ x3' \in {x3, "nobody", p}
    BY <1>9 DEF Nvm!SendPackage, Nvm!flash, Nvm!Go, Nvm!At, Nvm!Idle, Nvm!Nobody
  <2>3. QED
    BY <2>1, <2>2, NvmMoves
<1>10. ASSUME NEW p \in PFs, NEW ans \in Nvm!Answers, NEW r \in Nvm!Responses, NEW rec \in BOOLEAN,
              Nvm!SendTable(p, ans, r, rec)
       PROVE  NvmInv'
  <2> DEFINE s == IF ans # "ok" \/ ~Nvm!Accepted(r, rec) THEN [x1[p] EXCEPT !.at = "release"]
                  ELSE IF x1[p].c < NComps THEN [x1[p] EXCEPT !.c = x1[p].c + 1]
                  ELSE [x1[p] EXCEPT !.c = 1, !.at = "erase"]
  <2>1. /\ x1' = [x1 EXCEPT ![p] = s] /\ x1[p].at = "table" /\ x1[p].b = 0
        /\ x3' = x3 /\ x4' = x4 /\ x5' = x5
    BY <1>a, <1>10 DEF Nvm!SendTable, Nvm!At, Nvm!flash
  <2>2. s \in Stages /\ s.b = 0
    <3>1. x1[p] \in Stages /\ x1[p].c \in 1 .. NComps
      BY <1>a DEF Stages, Nvm!Comps
    <3>2. x1[p].c < NComps => x1[p].c + 1 \in Nvm!Comps
      BY <3>1, SMTT(40) DEF Nvm!Comps
    <3>3. 1 \in Nvm!Comps
      BY SMTT(40) DEF Nvm!Comps
    <3>4. QED
      BY <2>1, <3>1, <3>2, <3>3 DEF Stages, Nvm!Points
  <2>3. CASE s.at # "erase"
    <3>1. s.at \notin {"erase", "write", "finalize"}
      BY <2>1, <2>3, SMTT(40)
    <3>2. QED
      BY <2>1, <2>2, <3>1, NvmMoves
  <2>4. CASE s.at = "erase"
    <3>1. s.c = 1
      BY <2>1, <2>4, SMTT(40)
    <3> HIDE DEF s
    <3>2. NvmTyped' /\ \A q \in PFs : x1'[q].at \notin {"write", "release"} => x1'[q].b = 0
      BY <1>a, <1>b, <2>1, <2>2 DEF NvmTyped
    <3>3. ASSUME NEW q \in PFs, x3' = q PROVE Progress(q)'
      <4>1. CASE q = p
        <5>1. x1'[q] = s
          BY <1>b, <2>1, <4>1
        <5>2. \A c \in Nvm!Comps : ~(c < 1)
          BY SMTT(40) DEF Nvm!Comps
        <5>3. QED
          BY <2>4, <3>1, <5>1, <5>2 DEF Progress
      <4>2. CASE q # p
        <5>1. x1'[q] = x1[q] /\ x3 = q
          BY <1>b, <2>1, <3>3, <4>2
        <5>2. QED
          BY <1>a, <2>1, <5>1, SMTT(40) DEF Progress, Whole
      <4>3. QED
        BY <4>1, <4>2
    <3>4. QED
      BY <1>a, <1>b, <2>1, <3>2, <3>3 DEF Nvm!BootsWhole, NvmInv
  <2>5. QED
    BY <2>3, <2>4
<1>11. ASSUME NEW p \in PFs, NEW ans \in Nvm!Answers, Nvm!Erase(p, ans) PROVE NvmInv'
  <2> DEFINE c == x1[p].c
             s == [x1[p] EXCEPT !.at = IF ans = "ok" THEN "write" ELSE "release"]
  <2>1. /\ x1' = [x1 EXCEPT ![p] = s] /\ x1[p].at = "erase" /\ x1[p].b = 0
        /\ x3' = x3 /\ x5' = x5 /\ c \in Nvm!Comps
    BY <1>a, <1>b, <1>11 DEF Nvm!Erase, Nvm!Go, Nvm!At, Stages
  <2>2. s \in Stages /\ s.b = 0 /\ s.c = c
    BY <1>a, <2>1, SMTT(40) DEF Stages, Nvm!Points
  <2>3. CASE ans = "refused"
    <3>1. x4' = x4 /\ s.at = "release"
      BY <1>a, <1>11, <2>3 DEF Nvm!Erase, Nvm!Done, Stages
    <3> HIDE DEF s
    <3>2. QED
      BY <2>1, <2>2, <3>1, NvmMoves
  <2>4. CASE ans # "refused"
    <3>1. x3 = p /\ c \notin x5 /\ x4' = [x4 EXCEPT ![c] = [by |-> p, n |-> 0]]
      BY <1>11, <2>4 DEF Nvm!Erase, Nvm!Command, Nvm!Done, Nvm!Answers
    <3>2. s.at = "write" \/ s.at = "release"
      BY <2>1, SMTT(40)
    <3> HIDE DEF s
    <3>3. NvmTyped'
      BY <1>a, <1>b, <2>1, <2>2, <3>1, SMTT(40) DEF NvmTyped
    <3>4. \A q \in PFs : x1'[q].at \notin {"write", "release"} => x1'[q].b = 0
      BY <1>a, <1>b, <2>1, <2>2
    <3>5. Progress(p)'
      BY <1>a, <1>b, <2>1, <2>2, <3>1, <3>2, SMTT(40) DEF Progress, Whole, Nvm!Comps
    <3>6. Nvm!BootsWhole'
      BY <1>a, <1>b, <2>1, <3>1 DEF Nvm!BootsWhole
    <3>7. QED
      BY <1>a, <1>b, <2>1, <3>1, <3>3, <3>4, <3>5, <3>6 DEF NvmInv
  <2>5. QED
    BY <2>3, <2>4
<1>12. ASSUME NEW p \in PFs, NEW ans \in Nvm!Answers, Nvm!WriteBlock(p, ans) PROVE NvmInv'
  <2> DEFINE c == x1[p].c
             b == x1[p].b
             next == IF b # NBlocks - 1 THEN [x1[p] EXCEPT !.b = b + 1]
                     ELSE [x1[p] EXCEPT !.b = 0, !.c = IF c < NComps THEN c + 1 ELSE c,
                              !.at = IF c < NComps THEN "erase" ELSE "finalize",
                              !.level = IF c = 1 THEN Nvm!LevelSet(p) ELSE x1[p].level]
             s == IF ans # "ok" THEN [x1[p] EXCEPT !.at = "release"] ELSE next
  <2>1. /\ x1' = [x1 EXCEPT ![p] = s] /\ x1[p].at = "write"
        /\ x3' = x3 /\ x5' = x5
    BY <1>12 DEF Nvm!WriteBlock, Nvm!At, Nvm!AfterBlock, Nvm!LastBlock
  <2>2. x1[p] \in Stages /\ c \in 1 .. NComps /\ b \in 0 .. NBlocks - 1
    BY <1>a DEF Stages, Nvm!Comps
  <2>3. s \in Stages
    <3>1. /\ b # NBlocks - 1 => b + 1 \in 0 .. NBlocks - 1
          /\ 0 \in 0 .. NBlocks - 1
          /\ (IF c < NComps THEN c + 1 ELSE c) \in Nvm!Comps
      BY <2>2, SMTT(40) DEF Nvm!Comps
    <3>2. (IF c = 1 THEN Nvm!LevelSet(p) ELSE x1[p].level) \in 0 .. 3
      BY <2>2, SMTT(40) DEF Stages, Nvm!LevelSet
    <3>3. [x1[p] EXCEPT !.at = "release"] \in Stages
      BY <2>2 DEF Stages, Nvm!Points
    <3>4. next \in Stages
      BY <2>2, <3>1, <3>2 DEF Stages, Nvm!Points
    <3>5. QED
      BY <3>3, <3>4
  <2>4. CASE ans = "refused"
    <3>1. s.at = "release"
      BY <2>2, <2>4 DEF Stages
    <3>2. x4' = x4
      BY <1>12, <2>4 DEF Nvm!WriteBlock, Nvm!Done
    <3>3. QED
      BY <2>1, <2>3, <3>1, <3>2, NvmMoves
  <2>5. CASE ans # "refused"
    <3>1. x3 = p
      BY <1>12, <2>5 DEF Nvm!WriteBlock, Nvm!Command, Nvm!Answers
    <3>2. x4[c] = [by |-> p, n |-> b] /\ c \notin x5 /\ \A k \in Nvm!Comps : k < c => Whole(p, k)
      BY <1>a, <1>b, <2>1, <3>1 DEF Progress
    <3>3. x4' = [x4 EXCEPT ![c] = [by |-> p, n |-> b + 1]]
      BY <1>12, <2>5, <3>2, SMTT(40)
         DEF Nvm!WriteBlock, Nvm!Done, Nvm!Answers, Nvm!BlockWritten
    <3>4. NvmTyped'
      <4> HIDE DEF s
      <4>1. [by |-> p, n |-> b + 1] \in [by : PFs \cup {"nobody", "mixed"}, n : 0 .. NBlocks]
        BY <2>2, SMTT(40)
      <4>2. QED
        BY <1>b, <2>1, <2>3, <3>3, <4>1 DEF NvmTyped
    <3>5. s.at \notin {"write", "release"} => s.b = 0
      BY <2>1, <2>2 DEF Stages
    <3>6. \A q \in PFs : x1'[q].at \notin {"write", "release"} => x1'[q].b = 0
      BY <1>a, <1>b, <2>1, <2>3, <3>5
    <3>7. Nvm!BootsWhole'
      BY <1>a, <1>b, <2>1, <2>2, <3>2, <3>3 DEF Nvm!BootsWhole
    <3>8. Progress(p)'
      <4>1. CASE s.at = "release"
        BY <1>a, <1>b, <2>1, <4>1 DEF Progress
      <4>2. CASE s.at # "release" /\ b # NBlocks - 1
        <5>1. s.at = "write" /\ s.c = c /\ s.b = b + 1
          BY <1>a, <1>b, <2>1, <2>2, <4>2 DEF Stages
        <5>2. QED
          BY <1>a, <1>b, <2>1, <2>2, <3>2, <3>3, <5>1, SMTT(40)
             DEF Progress, Whole, Nvm!Comps
      <4>3. CASE s.at # "release" /\ b = NBlocks - 1
        <5>1. IF c < NComps THEN s.at = "erase" /\ s.c = c + 1 ELSE s.at = "finalize"
          BY <1>a, <1>b, <2>1, <2>2, <4>3 DEF Stages
        <5>2. \A k \in Nvm!Comps : k <= c => Whole(p, k)'
          BY <1>a, <1>b, <2>2, <3>2, <3>3, <4>3, SMTT(40) DEF Whole, Nvm!Comps
        <5>3. QED
          BY <1>a, <1>b, <2>1, <2>2, <5>1, <5>2, SMTT(40) DEF Progress, Nvm!Comps
      <4>4. QED
        BY <4>1, <4>2, <4>3
    <3>9. QED
      BY <1>a, <1>b, <2>1, <3>1, <3>4, <3>6, <3>7, <3>8 DEF NvmInv
  <2>6. QED
    BY <2>4, <2>5
<1>13. ASSUME NEW p \in PFs, NEW ans \in Nvm!Answers, Nvm!MinSrev(p, ans) PROVE NvmInv'
  <2> DEFINE l == IF ans = "ok" /\ x1[p].at = "mread" THEN "mwrite"
                  ELSE IF ans = "ok" /\ x1[p].at = "mwrite" THEN "mactivate" ELSE "release"
             s == [x1[p] EXCEPT !.at = l]
  <2>1. s \in Stages /\ s.at \notin {"erase", "write", "finalize"} /\ (s.at # "release" => s.b = 0)
    BY <1>a, <1>13 DEF Nvm!MinSrev, Stages, Nvm!Points
  <2>2. x1' = [x1 EXCEPT ![p] = s] /\ x4' = x4 /\ x5' = x5 /\ x3' = x3
    BY <1>13 DEF Nvm!MinSrev, Nvm!Go, Nvm!At, Nvm!flash
  <2>3. QED
    BY <2>1, <2>2, NvmMoves
<1>14. ASSUME NEW p \in PFs, NEW ans \in Nvm!Answers, NEW empr \in BOOLEAN,
              Nvm!Finalize(p, ans, empr)
       PROVE  NvmInv'
  <2> DEFINE s == [x1[p] EXCEPT !.at = "release"]
  <2>1. s \in Stages /\ s.at = "release"
    BY <1>a DEF Stages, Nvm!Points
  <2>2. x1' = [x1 EXCEPT ![p] = s] /\ x4' = x4 /\ x3' = x3 /\ x1[p].at = "finalize"
    BY <1>14 DEF Nvm!Finalize, Nvm!Go, Nvm!At
  <2>3. CASE ~Nvm!Done(ans)
    BY <1>14, <2>1, <2>2, <2>3, NvmMoves DEF Nvm!Finalize
  <2>4. CASE Nvm!Done(ans)
    <3>1. x3 = p /\ x5' = Nvm!Comps
      BY <1>14, <2>4 DEF Nvm!Finalize, Nvm!Command, Nvm!Done
    <3>2. \A c \in Nvm!Comps : Whole(p, c)
      BY <1>a, <1>b, <2>2, <3>1 DEF Progress
    <3>3. Nvm!BootsWhole'
      BY <1>a, <1>b, <2>2, <3>1, <3>2, SMTT(40) DEF Nvm!BootsWhole, Whole
    <3>4. Progress(p)'
      BY <1>a, <1>b, <2>1, <2>2 DEF Progress
    <3>5. NvmTyped' /\ \A q \in PFs : x1'[q].at \notin {"write", "release"} => x1'[q].b = 0
      BY <1>a, <1>b, <2>1, <2>2, <3>1 DEF NvmTyped
    <3>6. QED
      BY <2>2, <3>1, <3>3, <3>4, <3>5 DEF NvmInv
  <2>5. QED
    BY <2>3, <2>4
<1>15. CASE Nvm!Expire
  BY <1>15 DEF NvmInv, NvmTyped, Nvm!Expire, Nvm!Nobody, Nvm!BootsWhole
<1>16. CASE Nvm!PowerCycle
  BY <1>16, SMTT(40)
     DEF NvmInv, NvmTyped, Nvm!PowerCycle, Nvm!Booted, Nvm!Factory, Nvm!Nobody,
         Nvm!BootsWhole, Nvm!Idle, Stages,
     Nvm!Points, Nvm!Comps
<1>17. CASE UNCHANGED Nvm!nvars
  BY <1>17 DEF NvmInv, NvmTyped, Nvm!nvars, Nvm!flash, Progress, Whole, Nvm!BootsWhole
<1>18. QED
  BY <1>1, <1>2, <1>3, <1>4, <1>5, <1>6, <1>7, <1>8, <1>9, <1>10, <1>11, <1>12, <1>13, <1>14,
     <1>15, <1>16, <1>17 DEF Nvm!Next

-----------------------------------------------------------------------------
(* SrIov: its own inductive invariant, proved there.                       *)

LEMMA IovInit == Iov!Init => Iov!IInv /\ Iov!Recovery
<1>1. Iov!Init => Iov!IInv
  BY DeviceAssumption, Iov!StageInit
<1>2. Iov!Init => Iov!Recovery
  BY DEF Iov!Init, Iov!Recovery
<1>3. QED
  BY <1>1, <1>2

LEMMA IovKept ==
    ASSUME Iov!IInv, Iov!Recovery, [Iov!Next]_Iov!svars
    PROVE  Iov!IInv' /\ Iov!Recovery'
<1>1. TotalVfs \in Nat /\ ~FALSE
  BY DeviceAssumption
<1>2. Iov!IInv'
  BY <1>1, Iov!StageKept
<1>3. Iov!Recovery'
  BY Iov!RecoveryKept
<1>4. QED
  BY <1>2, <1>3

-----------------------------------------------------------------------------
(* The driver.                                                             *)

\* The inductive invariant: that of the part the behaviour is about.
DeviceInv ==
    /\ part = "iov" => Iov!IInv /\ Iov!Recovery
    /\ part = "vf" => Vf!VfInv
    /\ part = "nvm" => NvmInv
    /\ part = "rules" => FdInv

LEMMA DeviceStarts == DeviceInit => DeviceInv
BY IovInit, Vf!VfInit, NvmInit, FdInit DEF DeviceInit, DeviceInv

LEMMA DeviceStep == DeviceInv /\ [DeviceNext]_mcvars => DeviceInv'
<1> SUFFICES ASSUME DeviceInv, [DeviceNext]_mcvars PROVE DeviceInv'
  OBVIOUS
<1>0. part' = part
  BY OnePart
<1>1. CASE part = "iov"
  <2>1. Iov!IInv' /\ Iov!Recovery'
    BY <1>1, OnePart, IovKept DEF DeviceInv
  <2>2. QED
    BY <1>0, <1>1, <2>1 DEF DeviceInv
<1>2. CASE part = "vf"
  <2>1. Vf!VfInv'
    BY <1>2, OnePart, Vf!VfKept DEF DeviceInv
  <2>2. QED
    BY <1>0, <1>2, <2>1 DEF DeviceInv
<1>3. CASE part = "nvm"
  <2>1. NvmInv'
    BY <1>3, OnePart, NvmKept DEF DeviceInv
  <2>2. QED
    BY <1>0, <1>3, <2>1 DEF DeviceInv
<1>4. CASE part = "rules"
  <2>1. FdInv'
    BY <1>4, OnePart, FdKept DEF DeviceInv
  <2>2. QED
    BY <1>0, <1>4, <2>1 DEF DeviceInv
<1>5. CASE part \notin {"iov", "vf", "nvm", "rules"}
  BY <1>0, <1>5 DEF DeviceInv
<1>6. QED
  BY <1>1, <1>2, <1>3, <1>4, <1>5

LEMMA DeviceKeeps == DeviceSpec => []DeviceInv
BY DeviceStarts, DeviceStep, PTL DEF DeviceSpec

\* __ixgbe_enable_sriov, ixgbe_disable_sriov, ixgbe_io_error_detected,
\* ixgbe_configure_virtualization, ixgbe_set_vf_multicasts,
\* ixgbe_check_vf_rate_limit: for any number of VFs, whichever allocation fails,
\* and in any order of the messages of the VFs, of what the administrator asks
\* and of what happens to the PF, num_vfs counts no VF without storage, the port
\* comes back, and the registers say what was set up.
THEOREM SetUpStands == DeviceSpec => []VfsKept
<1>1. ASSUME DeviceInv, part = "iov" PROVE Iov!VfsBacked /\ Iov!Reattached
  BY <1>1 DEF DeviceInv, Iov!IInv, Iov!Recovery, Iov!Reattached
<1>2. ASSUME DeviceInv, part = "vf" PROVE Vf!McastShared /\ Vf!VfCfgApplied /\ Vf!LegacyOff
  BY <1>2, Vf!VfSound DEF DeviceInv
<1>3. DeviceInv => VfsKept
  BY <1>1, <1>2 DEF VfsKept
<1>4. QED
  BY <1>3, DeviceKeeps, PTL

\* ixgbe_update_ethtool_fdir_entry, ixgbe_fdir_filter_restore,
\* ixgbe_flash_component: for any number of rules, of functions that share the
\* flash, of components and of blocks, the table holds the listed rules and a
\* bank that will be booted from holds an image that was written completely.
THEOREM TablesStand == DeviceSpec => []TablesTrue
<1>1. DeviceInv => TablesTrue
  BY DEF DeviceInv, TablesTrue, FdInv, NvmInv
<1>2. QED
  BY <1>1, DeviceKeeps, PTL
=============================================================================
