---------------------------- MODULE TxRingProofs ----------------------------
(***************************************************************************)
(* The transmit ring, for every size: its inductive invariant, the         *)
(* arithmetic of its slots, the actions of ixgbe_tx_map and those of       *)
(* ixgbe_clean_tx_irq, and the theorems.                                   *)
(***************************************************************************)
EXTENDS MCTxRing, TLAPS

\* Most steps are first-order; those that count or compare records name SMT.
USE ZenonT(30)

\* The inductive invariant.  Beyond what the runs check it says that the room
\* found by ixgbe_maybe_stop_tx is still there when the packet is published
\* (NAPI only adds room), what a packet being built looks like, and that NAPI
\* stays between next_to_clean and next_to_use.
Building ==
    /\ xpc # "idle" => xdata \in DataDescs
    /\ xpc \in {"map", "publish"} =>
         Dist(next_to_clean, next_to_use) + xdata + 4 <= Count
    /\ xpc = "publish" =>
         /\ mapped[next_to_use] /\ desc[XLast] = "eop"
         /\ \A j \in Slots : Dist(next_to_use, j) < XSize - 1
                               => desc[j] # "eop"

Cleaning ==
    npc = "clean" => Dist(next_to_clean, ni) <= Dist(next_to_clean, next_to_use)

IInv == TypeOK /\ TailGap /\ Building /\ Cleaning /\ PacketsTile
        /\ MappingsOwned

-----------------------------------------------------------------------------
(* Arithmetic on the circle of slots. *)

\* Distances are slots again, zero only between equal slots.
LEMMA DistType ==
    \A a, b \in Slots : /\ Dist(a, b) \in 0 .. Count - 1
                        /\ Dist(a, b) = 0 <=> a = b
BY TxAssumption, SMTT(40) DEF Slots, Dist

\* A slot is determined by its distance from another.
LEMMA DistInjective ==
    \A a, b, c \in Slots : Dist(a, b) = Dist(a, c) => b = c
BY TxAssumption, SMTT(40) DEF Slots, Dist

\* The walk with wrap-around stays in the ring ...
LEMMA AdvanceType ==
    \A a \in Slots : \A k \in 0 .. Count : Advance(a, k) \in Slots
BY TxAssumption, SMTT(40) DEF Slots, Advance

\* ... and adds to the distance until it has gone round.
LEMMA DistAdvance ==
    \A a, b \in Slots : \A k \in 0 .. Count - 1 :
        Dist(a, b) + k < Count => Dist(a, Advance(b, k)) = Dist(a, b) + k
BY TxAssumption, SMTT(40) DEF Slots, Dist, Advance

\* Distances seen from a slot b further on.
LEMMA DistShift ==
    \A a, b, c \in Slots :
        Dist(b, c) = IF Dist(a, b) <= Dist(a, c)
                     THEN Dist(a, c) - Dist(a, b)
                     ELSE Dist(a, c) - Dist(a, b) + Count
BY TxAssumption, SMTT(40) DEF Slots, Dist

\* ixgbe_desc_unused counts the slots not between next_to_clean and
\* next_to_use, less one.
LEMMA DescUnusedIs ==
    next_to_use \in Slots /\ next_to_clean \in Slots =>
        DescUnused = Count - 1 - Dist(next_to_clean, next_to_use)
BY TxAssumption, SMTT(40) DEF Slots, Dist, DescUnused

-----------------------------------------------------------------------------
(* The invariant is inductive. *)

LEMMA InitInv == Init => IInv
<1> SUFFICES ASSUME Init PROVE IInv
  OBVIOUS
<1>1. 0 \in Slots /\ Dist(0, 0) = 0 /\ CleanEnd = 0
  BY TxAssumption, SMTT(40) DEF Init, Slots, Dist, CleanEnd
<1>2. TypeOK
  <2>1. RingType /\ LocalType
    BY <1>1, TxAssumption, SMTT(40) DEF Init, RingType, LocalType, XPCs, NPCs
  <2>2. FlagType
    BY DEF Init, FlagType
  <2> QED
    BY <2>1, <2>2 DEF TypeOK
<1>3. TailGap /\ Building /\ Cleaning
  BY <1>1, TxAssumption, SMTT(40) DEF Init, TailGap, Building, Cleaning
<1>4. PacketsTile
  BY <1>1, TxAssumption, SMTT(40) DEF Init, PacketsTile, Boundary, Pos, NoDesc
<1>5. MappingsOwned
  BY DEF Init, MappingsOwned
<1> QED
  BY <1>2, <1>3, <1>4, <1>5 DEF IInv

\* A step that leaves the ring's indices, next_to_watch and the descriptors
\* alone keeps the packets in place.
LEMMA SamePackets ==
    ASSUME PacketsTile, CleanEnd' = CleanEnd,
           UNCHANGED <<next_to_use, tdh, tdt, watch, desc>>
    PROVE  PacketsTile'
BY DEF PacketsTile, PacketAt, Boundary, InFlight, Pos

\* ... and one that also leaves the mappings alone keeps their owners.
LEMMA SameMappings ==
    ASSUME MappingsOwned, CleanEnd' = CleanEnd,
           UNCHANGED <<next_to_use, watch, mapped>>,
           xpc = "publish" => UNCHANGED <<xpc, xdata, xctx>>
    PROVE  MappingsOwned'
BY DEF MappingsOwned, InFlight, Pos, Within, XSize

\* The slots of the packet being built are none of those in flight.
LEMMA BuiltIsFree ==
    ASSUME IInv, xpc \in {"map", "publish"}
    PROVE  /\ CleanEnd \in Slots
           /\ XSize \in 1 .. Count - 1
           /\ XLast \in Slots /\ Pos(XLast) = Pos(next_to_use) + XSize - 1
           /\ Pos(next_to_use) + XSize <= Count - 3
           /\ Dist(next_to_clean, next_to_use) + XSize <= Count - 3
           /\ \A j \in Slots : Dist(next_to_use, j) < XSize <=>
                  Pos(next_to_use) <= Pos(j) /\ Pos(j) < Pos(next_to_use) + XSize
<1> USE DEF IInv
<1>1. /\ CleanEnd \in Slots /\ next_to_use \in Slots /\ next_to_clean \in Slots
      /\ xdata \in Nat \ {0} /\ xctx \in 0 .. 1
  BY TxAssumption, SMTT(40) DEF CleanEnd, TypeOK, RingType, LocalType
<1>2. Pos(next_to_use) <= Dist(next_to_clean, next_to_use)
  BY <1>1, DistShift, DistType, SMTT(40) DEF Pos, CleanEnd, Cleaning
<1>3. /\ XSize \in 1 .. Count - 1
      /\ Dist(next_to_clean, next_to_use) + XSize <= Count - 3
  BY <1>1, DistType, TxAssumption, SMTT(40) DEF XSize, Building
<1>4. Pos(next_to_use) \in Nat /\ Pos(next_to_use) + XSize <= Count - 3
  BY <1>1, <1>2, <1>3, DistType, TxAssumption, SMTT(40) DEF Pos
<1>5. XLast \in Slots /\ Pos(XLast) = Pos(next_to_use) + XSize - 1
  <2> DEFINE k == XSize - 1
  <2>1. k \in 0 .. Count - 1 /\ k \in 0 .. Count /\ Dist(CleanEnd, next_to_use) + k < Count
    BY <1>3, <1>4, TxAssumption, SMTT(40) DEF Pos
  <2>2. Advance(next_to_use, k) \in Slots
    BY <1>1, <2>1, AdvanceType
  <2>3. Dist(CleanEnd, Advance(next_to_use, k)) = Dist(CleanEnd, next_to_use) + k
    BY <1>1, <2>1, DistAdvance
  <2> QED
    BY <1>3, <1>4, <2>2, <2>3 DEF XLast, Pos
<1>6. ASSUME NEW j \in Slots
      PROVE  Dist(next_to_use, j) < XSize <=>
               Pos(next_to_use) <= Pos(j) /\ Pos(j) < Pos(next_to_use) + XSize
  BY <1>1, <1>3, <1>4, DistShift, DistType, TxAssumption, SMTT(40) DEF Pos
<1> QED
  BY <1>1, <1>3, <1>4, <1>5, <1>6

-----------------------------------------------------------------------------
(* ixgbe_tx_map builds a packet, gives it up, or publishes it.             *)

\* ixgbe_tx_map writes no descriptor of a packet in flight, so the packets
\* stay in place: k slots from next_to_use on may hold anything.
LEMMA FreshDescs ==
    ASSUME IInv, xpc = "map", CleanEnd' = CleanEnd,
           UNCHANGED <<next_to_use, tdh, tdt, watch>>,
           \A j \in Slots : ~Within(j, next_to_use, XSize) => desc'[j] = desc[j]
    PROVE  PacketsTile'
<1> USE DEF IInv
<1>1. \A j \in Slots : Pos(j) \in 0 .. Count - 1
  BY DistType DEF Pos, CleanEnd, TypeOK, RingType, LocalType
<1>2. \A j \in Slots : Pos(j) < Pos(next_to_use) => desc'[j] = desc[j]
  BY BuiltIsFree, <1>1, TxAssumption, SMTT(40) DEF Within, TypeOK, RingType
<1>3. \A i \in Slots : watch[i] # NoDesc =>
         watch[i] \in Slots /\ Pos(watch[i]) < Pos(next_to_use)
  BY SMTT(40) DEF PacketsTile, PacketAt, InFlight, TypeOK, RingType
<1>4. \A i, j \in Slots :
         watch[i] # NoDesc /\ Pos(j) <= Pos(watch[i]) => desc'[j] = desc[j]
  BY <1>1, <1>2, <1>3, TxAssumption, SMTT(40) DEF TypeOK, RingType
<1> QED
  BY <1>1, <1>3, <1>4, TxAssumption, SMTT(40)
  DEF PacketsTile, PacketAt, Boundary, InFlight, Pos, TypeOK, RingType

LEMMA MapDescsInv ==
    ASSUME IInv, MapDescs
    PROVE  IInv'
<1> USE DEF IInv
<1>1. /\ UNCHANGED <<next_to_use, next_to_clean, tdh, tdt, watch, napi, hang,
                     xdata, xctx>>
      /\ CleanEnd' = CleanEnd /\ xpc = "map" /\ xpc' = "publish"
      /\ XSize' = XSize /\ XLast' = XLast
  BY DEF MapDescs, CleanEnd, XSize, XLast, napi
<1>2. TypeOK'
  <2>1. RingType' /\ LocalType'
    BY <1>1
    DEF MapDescs, TypeOK, RingType, LocalType, XPCs, FreshEop, XMapped,
                Within, napi
  <2>2. FlagType'
    BY DEF MapDescs, TypeOK, FlagType, hang
  <2> QED
    BY <2>1, <2>2 DEF TypeOK
<1>3. TailGap' /\ Cleaning'
  BY <1>1 DEF TailGap, Cleaning, napi
<1>4. Dist(next_to_use, XLast) = XSize - 1
  BY <1>1, BuiltIsFree, DistShift, DistType, TxAssumption, SMTT(40)
  DEF TypeOK, RingType, Pos
<1>5. Building'
  <2>1. mapped'[next_to_use] /\ desc'[XLast] = "eop"
    BY <1>1, BuiltIsFree
    DEF MapDescs, FreshEop, XMapped, TypeOK, RingType
  <2>2. \A j \in Slots : Dist(next_to_use, j) < XSize - 1 => desc'[j] = "data"
    BY <1>1, <1>4, BuiltIsFree, DistType, TxAssumption, SMTT(40)
    DEF MapDescs, Within, TypeOK, RingType
  <2>3. /\ xdata \in DataDescs
        /\ Dist(next_to_clean, next_to_use) + xdata + 4 <= Count
    BY <1>1 DEF Building
  <2> QED
    BY <1>1, <2>1, <2>2, <2>3 DEF Building
<1>6. PacketsTile'
  <2>1. \A j \in Slots : ~Within(j, next_to_use, XSize) => desc'[j] = desc[j]
    BY <1>1, <1>4, BuiltIsFree, TxAssumption, SMTT(40)
    DEF MapDescs, Within, TypeOK, RingType
  <2> QED
    BY <1>1, <2>1, FreshDescs
<1>7. MappingsOwned'
  <2>1. Within(next_to_use, next_to_use, XSize)
    BY <1>1, BuiltIsFree, DistType, SMTT(40) DEF Within, TypeOK, RingType
  <2>2. \A j \in Slots : mapped'[j] => mapped[j] \/ Within(j, next_to_use, XSize)
    BY <2>1 DEF MapDescs, XMapped
  <2>3. \A j \in Slots : mapped[j] => mapped'[j]
    BY DEF MapDescs
  <2> QED
    BY <1>1, <2>2, <2>3 DEF MappingsOwned, InFlight, Pos, Within
<1> QED
  BY <1>2, <1>3, <1>5, <1>6, <1>7

LEMMA MapErrorInv ==
    ASSUME IInv, NEW k \in 0 .. DescNeeded, MapError(k)
    PROVE  IInv'
<1> USE DEF IInv
<1>1. /\ UNCHANGED <<next_to_use, next_to_clean, tdh, tdt, watch, mapped, napi>>
      /\ CleanEnd' = CleanEnd /\ xpc = "map" /\ xpc' = "idle"
  BY DEF MapError, XmitReturn, CleanEnd, napi
<1>2. TypeOK'
  <2>1. RingType' /\ LocalType'
    BY <1>1, SMTT(40) DEF MapError, XmitReturn, TypeOK, RingType, LocalType, XPCs, napi
  <2>2. FlagType'
    BY DEF MapError, XmitReturn, TypeOK, FlagType, hang
  <2> QED
    BY <2>1, <2>2 DEF TypeOK
<1>3. TailGap' /\ Cleaning' /\ Building'
  BY <1>1 DEF TailGap, Cleaning, Building, napi
<1>4. PacketsTile'
  <2>1. \A j \in Slots : Within(j, next_to_use, k) => Within(j, next_to_use, XSize)
    BY <1>1, BuiltIsFree, DistType, TxAssumption, SMTT(40)
    DEF MapError, Within, TypeOK, RingType
  <2>2. \A j \in Slots : ~Within(j, next_to_use, XSize) => desc'[j] = desc[j]
    BY <2>1 DEF MapError
  <2> QED
    BY <1>1, <2>2, FreshDescs
<1>5. MappingsOwned'
  BY <1>1, SameMappings
<1> QED
  BY <1>2, <1>3, <1>4, <1>5

\* The new packet is the last of the tiling.
LEMMA PublishInv ==
    ASSUME IInv, Publish
    PROVE  IInv'
<1> USE DEF IInv
<1>1. /\ UNCHANGED <<next_to_clean, tdh, tdt, mapped, desc, napi, xdata, xctx>>
      /\ CleanEnd' = CleanEnd /\ xpc = "publish" /\ xpc' = "needed"
      /\ watch' = [watch EXCEPT ![next_to_use] = XLast]
      /\ next_to_use' = Advance(next_to_use, XSize)
  BY DEF Publish, CleanEnd, napi
<1>2. /\ CleanEnd \in Slots /\ next_to_use \in Slots /\ next_to_clean \in Slots
      /\ tdh \in Slots /\ tdt \in Slots /\ XLast \in Slots
      /\ watch \in [Slots -> Slots \cup {NoDesc}]
      /\ \A j \in Slots : Pos(j) \in 0 .. Count - 1
  BY <1>1, BuiltIsFree, DistType DEF TypeOK, RingType, Pos
<1>3. /\ next_to_use' \in Slots
      /\ Pos(next_to_use') = Pos(next_to_use) + XSize
      /\ Dist(next_to_clean, next_to_use') =
            Dist(next_to_clean, next_to_use) + XSize
      /\ next_to_use' = Advance(XLast, 1)
  <2>1. XSize \in 0 .. Count - 1 /\ XSize \in 0 .. Count /\ 1 \in 0 .. Count - 1
    BY <1>1, BuiltIsFree, TxAssumption, SMTT(40)
  <2>2. next_to_use' \in Slots
    BY <1>1, <1>2, <2>1, AdvanceType
  <2>3. Pos(next_to_use') = Pos(next_to_use) + XSize
    BY <1>1, <1>2, <2>1, BuiltIsFree, DistAdvance, TxAssumption, SMTT(40) DEF Pos
  <2>4. Dist(next_to_clean, next_to_use') =
            Dist(next_to_clean, next_to_use) + XSize
    BY <1>1, <1>2, <2>1, BuiltIsFree, DistAdvance, DistType, TxAssumption, SMTT(40)
  <2>5. next_to_use' = Advance(XLast, 1)
    BY <1>1, <1>2, <2>1, TxAssumption, SMTT(40) DEF XLast, Advance, Slots
  <2> QED
    BY <2>2, <2>3, <2>4, <2>5
<1>4. TypeOK'
  <2>1. RingType'
    BY <1>1, <1>2, <1>3 DEF TypeOK, RingType
  <2>2. LocalType'
    BY <1>1 DEF TypeOK, LocalType, XPCs, napi
  <2>3. FlagType'
    BY DEF Publish, TypeOK, FlagType, hang
  <2> QED
    BY <2>1, <2>2, <2>3 DEF TypeOK
<1>5. TailGap' /\ Building' /\ Cleaning'
  BY <1>1, <1>2, <1>3, BuiltIsFree, DistType, TxAssumption, SMTT(40)
  DEF TailGap, Building, Cleaning, TypeOK, LocalType, napi
<1>6. \A i \in Slots : watch[i] # NoDesc =>
         /\ watch[i] \in Slots /\ i # next_to_use /\ watch'[i] = watch[i]
         /\ Pos(i) <= Pos(watch[i]) /\ Pos(watch[i]) < Pos(next_to_use)
  BY <1>1, <1>2, SMTT(40) DEF PacketsTile, PacketAt, InFlight
<1>7. watch'[next_to_use] = XLast /\ XLast # NoDesc
  BY <1>1, <1>2, TxAssumption, SMTT(40) DEF NoDesc, Slots
<1>8. \A j \in Slots : Boundary(j) => Boundary(j)'
  BY <1>6, <1>7 DEF Boundary
<1>9. PacketsTile'
  <2>1. ASSUME NEW i \in Slots, watch'[i] # NoDesc, i = next_to_use
        PROVE  PacketAt(i)'
    <3>1. watch'[i] = XLast
      BY <1>7, <2>1
    <3>2. Pos(i) <= Pos(XLast) /\ Pos(XLast) < Pos(next_to_use')
      BY <1>1, <1>2, <1>3, <2>1, BuiltIsFree, TxAssumption, SMTT(40)
    <3>3. Pos(tdh) <= Pos(next_to_use)
      BY <1>2, SMTT(40) DEF PacketsTile
    <3>4. desc[XLast] = IF Pos(XLast) < Pos(tdh) THEN "done" ELSE "eop"
      BY <1>1, <1>2, <3>2, <3>3, <2>1, BuiltIsFree, SMTT(40) DEF Building
    <3>5. \A j \in Slots : Pos(i) <= Pos(j) /\ Pos(j) < Pos(XLast)
                              => desc[j] # "eop"
      BY <1>1, <1>2, <2>1, BuiltIsFree, DistShift, TxAssumption, SMTT(40)
      DEF Building, Pos
    <3>6. \A j \in Slots : Pos(i) < Pos(j) => watch'[j] = NoDesc
      BY <1>1, <1>2, <1>6, <2>1, SMTT(40)
    <3>7. Boundary(Advance(watch[i], 1))'
      BY <1>3, <3>1 DEF Boundary
    <3> QED
      BY <1>1, <3>1, <3>2, <3>4, <3>5, <3>6, <3>7
      DEF PacketAt, InFlight, Pos
  <2>2. ASSUME NEW i \in Slots, watch'[i] # NoDesc, i # next_to_use
        PROVE  PacketAt(i)'
    <3>1. watch'[i] = watch[i] /\ watch[i] # NoDesc /\ watch[i] \in Slots
      BY <1>1, <1>2, <2>2
    <3>2. PacketAt(i)
      BY <3>1 DEF PacketsTile
    <3>3. Pos(watch[i]) < Pos(next_to_use')
      BY <1>1, <1>2, <1>3, <1>6, <3>1, BuiltIsFree, TxAssumption, SMTT(40)
    <3>4. \A j \in Slots : Pos(j) <= Pos(watch[i]) => watch'[j] = watch[j]
      BY <1>1, <1>2, <1>6, <3>1, SMTT(40)
    <3>5. Boundary(Advance(watch[i], 1))'
      <4>1. Advance(watch[i], 1) \in Slots
        BY <3>1, AdvanceType, TxAssumption, SMTT(40)
      <4> QED
        BY <1>8, <3>1, <3>2, <4>1 DEF PacketAt, Boundary
    <3> QED
      BY <1>1, <3>1, <3>2, <3>3, <3>4, <3>5
      DEF PacketAt, InFlight, Pos
  <2>3. Boundary(CleanEnd)' /\ Boundary(tdh)' /\ Boundary(tdt)'
    BY <1>1, <1>2, <1>8 DEF PacketsTile, Boundary
  <2>4. Pos(tdh) <= Pos(tdt) /\ Pos(tdt) <= Pos(next_to_use')
    BY <1>1, <1>2, <1>3, BuiltIsFree, TxAssumption, SMTT(40) DEF PacketsTile
  <2> QED
    BY <1>1, <2>1, <2>2, <2>3, <2>4 DEF PacketsTile, Pos
<1>10. MappingsOwned'
  <2>1. ASSUME NEW i \in Slots, mapped[i]
        PROVE  Pos(i) < Pos(next_to_use')
    BY <1>1, <1>2, <1>3, <2>1, BuiltIsFree, TxAssumption, SMTT(40)
    DEF MappingsOwned, InFlight, Within
  <2>2. ASSUME NEW i \in Slots, watch'[i] # NoDesc
        PROVE  mapped[i]
    BY <1>1, <1>2, <2>2 DEF MappingsOwned, Building
  <2> QED
    BY <1>1, <2>1, <2>2 DEF MappingsOwned, InFlight, Pos
<1> QED
  BY <1>4, <1>5, <1>9, <1>10

\* The doorbell: the tail moves to next_to_use or stays.
LEMMA WriteTailInv ==
    ASSUME IInv, WriteTail
    PROVE  IInv'
<1> USE DEF IInv
<1>1. /\ UNCHANGED <<next_to_use, next_to_clean, tdh, watch, mapped, desc, napi>>
      /\ CleanEnd' = CleanEnd /\ tdt' \in {tdt, next_to_use}
      /\ xpc = "tail" /\ xpc' = "idle"
  BY DEF WriteTail, XmitReturn, CleanEnd, napi
<1>2. TypeOK'
  <2>1. RingType' /\ LocalType'
    BY <1>1, SMTT(40) DEF WriteTail, XmitReturn, TypeOK, RingType, LocalType, XPCs, napi
  <2>2. FlagType'
    BY DEF WriteTail, XmitReturn, TypeOK, FlagType, hang
  <2> QED
    BY <2>1, <2>2 DEF TypeOK
<1>3. TailGap' /\ Cleaning' /\ Building'
  BY <1>1 DEF TailGap, Cleaning, Building, napi
<1>4. PacketsTile'
  <2>1. Pos(tdh) <= Pos(tdt') /\ Pos(tdt') <= Pos(next_to_use)
    BY <1>1, DistType, SMTT(40)
    DEF PacketsTile, Pos, CleanEnd, TypeOK, RingType, LocalType
  <2> QED
    BY <1>1, <2>1 DEF PacketsTile, PacketAt, Boundary, InFlight, Pos
<1>5. MappingsOwned'
  BY <1>1, SameMappings
<1> QED
  BY <1>2, <1>3, <1>4, <1>5

-----------------------------------------------------------------------------
(* The NIC sends the packet at its head, and NAPI frees one.               *)

\* Two packets do not overlap.
LEMMA PacketsApart ==
    ASSUME IInv, NEW i \in Slots, NEW j \in Slots,
           watch[i] # NoDesc, watch[j] # NoDesc, Pos(i) < Pos(j)
    PROVE  Pos(watch[i]) < Pos(j) /\ Pos(watch[i]) < Pos(watch[j])
<1> USE DEF IInv
<1>1. /\ watch[i] \in Slots /\ watch[j] \in Slots
      /\ \A k \in Slots : Pos(k) \in 0 .. Count - 1
  BY DistType DEF TypeOK, RingType, LocalType, Pos, CleanEnd
<1>2. PacketAt(i) /\ PacketAt(j)
  BY DEF PacketsTile
<1> QED
  BY <1>1, <1>2, TxAssumption, SMTT(40) DEF PacketAt

\* The NIC finds the end of the packet at the head where next_to_watch says.
LEMMA HwEopIsWatch ==
    ASSUME IInv, tdh # tdt
    PROVE  /\ watch[tdh] \in Slots /\ HwEop(tdh) = watch[tdh]
           /\ Pos(tdh) < Pos(tdt) /\ watch[tdh] # NoDesc
<1> USE DEF IInv
<1>1. /\ CleanEnd \in Slots /\ tdh \in Slots /\ tdt \in Slots
      /\ next_to_use \in Slots
      /\ \A k \in Slots : Pos(k) \in 0 .. Count - 1
  BY DistType DEF TypeOK, RingType, LocalType, Pos, CleanEnd
<1>2. Pos(tdh) < Pos(tdt) /\ Pos(tdt) <= Pos(next_to_use)
  BY <1>1, DistInjective, SMTT(40) DEF PacketsTile, Pos
<1>3. watch[tdh] # NoDesc
  BY <1>1, <1>2, SMTT(40) DEF PacketsTile, Boundary
<1>4. watch[tdh] \in Slots /\ PacketAt(tdh)
  BY <1>1, <1>3 DEF PacketsTile, TypeOK, RingType
<1> DEFINE e == watch[tdh]
<1>5. desc[e] = "eop"
  BY <1>1, <1>4, SMTT(40) DEF PacketAt
<1>6. \A j \in Slots : Dist(tdh, j) < Dist(tdh, e) =>
         Pos(tdh) <= Pos(j) /\ Pos(j) < Pos(e)
  BY <1>1, <1>4, DistShift, TxAssumption, SMTT(40) DEF Pos, PacketAt
<1>7. \A j \in Slots : Dist(tdh, j) < Dist(tdh, e) => desc[j] # "eop"
  BY <1>4, <1>6 DEF PacketAt
<1>8. ASSUME NEW f \in Slots, desc[f] = "eop",
             \A j \in Slots : Dist(tdh, j) < Dist(tdh, f) => desc[j] # "eop"
      PROVE  f = e
  <2>1. Dist(tdh, f) = Dist(tdh, e)
    BY <1>1, <1>4, <1>5, <1>7, <1>8, DistType, SMTT(40)
  <2> QED
    BY <1>1, <1>4, <2>1, DistInjective
<1>9. HwEop(tdh) = e
  BY <1>4, <1>5, <1>7, <1>8 DEF HwEop
<1> QED
  BY <1>2, <1>3, <1>4, <1>9

LEMMA HwSendInv ==
    ASSUME IInv, HwSend
    PROVE  IInv'
<1> USE DEF IInv
<1> DEFINE e == watch[tdh]
<1>1. /\ UNCHANGED <<next_to_use, next_to_clean, tdt, watch, mapped, xmit, napi>>
      /\ CleanEnd' = CleanEnd /\ tdh # tdt
      /\ desc' = [desc EXCEPT ![e] = "done"] /\ tdh' = Advance(e, 1)
  BY HwEopIsWatch DEF HwSend, CleanEnd, napi
<1>2. /\ CleanEnd \in Slots /\ tdh \in Slots /\ tdt \in Slots
      /\ next_to_use \in Slots /\ e \in Slots /\ e # NoDesc
      /\ \A k \in Slots : Pos(k) \in 0 .. Count - 1
  BY <1>1, HwEopIsWatch, DistType DEF TypeOK, RingType, LocalType, Pos, CleanEnd
<1>3. PacketAt(tdh) /\ Pos(tdh) <= Pos(e) /\ Pos(e) < Pos(next_to_use)
  BY <1>2 DEF PacketsTile, PacketAt, InFlight
<1>4. tdh' \in Slots /\ Pos(tdh') = Pos(e) + 1
  <2>1. 1 \in 0 .. Count - 1 /\ 1 \in 0 .. Count /\ Dist(CleanEnd, e) + 1 < Count
    BY <1>2, <1>3, TxAssumption, SMTT(40) DEF Pos
  <2>2. tdh' \in Slots
    BY <1>1, <1>2, <2>1, AdvanceType
  <2>3. Dist(CleanEnd, tdh') = Dist(CleanEnd, e) + 1
    BY <1>1, <1>2, <2>1, DistAdvance
  <2> QED
    BY <2>2, <2>3 DEF Pos
<1>5. Pos(tdh') <= Pos(tdt)
  <2>1. Pos(tdh) < Pos(tdt) /\ Boundary(tdt) /\ Pos(tdt) <= Pos(next_to_use)
    BY <1>1, HwEopIsWatch DEF PacketsTile
  <2>2. CASE tdt = next_to_use
    BY <1>2, <1>3, <1>4, <2>2, TxAssumption, SMTT(40)
  <2>3. CASE watch[tdt] # NoDesc
    BY <1>2, <1>4, <2>1, <2>3, PacketsApart, TxAssumption, SMTT(40)
  <2> QED
    BY <2>1, <2>2, <2>3 DEF Boundary
<1>6. TypeOK'
  <2>1. RingType' /\ LocalType'
    BY <1>1, <1>2, <1>4 DEF TypeOK, RingType, LocalType, xmit, napi
  <2>2. FlagType'
    BY DEF HwSend, TypeOK, FlagType, hang, xmit
  <2> QED
    BY <2>1, <2>2 DEF TypeOK
<1>7. TailGap' /\ Cleaning'
  BY <1>1 DEF TailGap, Cleaning, napi
<1>8. Building'
  <2>1. /\ UNCHANGED <<xpc, xdata, xctx>> /\ XSize' = XSize /\ XLast' = XLast
    BY <1>1 DEF xmit, XSize, XLast
  <2>2. xpc = "publish" => XLast # e
    BY <1>1, <1>2, <1>3, BuiltIsFree, TxAssumption, SMTT(40)
  <2>3. xpc = "publish" => desc'[XLast] = desc[XLast]
    BY <1>1, <1>2, <2>2, BuiltIsFree DEF TypeOK, RingType
  <2>4. \A j \in Slots : desc[j] # "eop" => desc'[j] # "eop"
    BY <1>1, <1>2 DEF TypeOK, RingType
  <2> QED
    BY <1>1, <2>1, <2>3, <2>4 DEF Building
<1>9. PacketsTile'
  <2>1. ASSUME NEW i \in Slots, watch[i] # NoDesc
        PROVE  PacketAt(i)'
    <3>1. PacketAt(i) /\ watch[i] \in Slots
      BY <2>1 DEF PacketsTile, TypeOK, RingType
    <3>2. desc'[watch[i]] = IF Pos(watch[i]) < Pos(tdh') THEN "done" ELSE "eop"
      <4>1. CASE i = tdh
        BY <1>1, <1>2, <1>4, <4>1, TxAssumption, SMTT(40) DEF TypeOK, RingType
      <4>2. CASE Pos(i) < Pos(tdh)
        <5>1. Pos(watch[i]) < Pos(tdh)
          BY <1>2, <2>1, <4>2, PacketsApart
        <5>2. watch[i] # e /\ Pos(watch[i]) < Pos(tdh')
          BY <1>2, <1>3, <1>4, <3>1, <5>1, TxAssumption, SMTT(40)
        <5> QED
          BY <1>1, <1>2, <3>1, <5>1, <5>2 DEF PacketAt, TypeOK, RingType
      <4>3. CASE Pos(tdh) < Pos(i)
        <5>1. Pos(e) < Pos(watch[i])
          BY <1>2, <2>1, <4>3, PacketsApart
        <5>2. watch[i] # e /\ ~(Pos(watch[i]) < Pos(tdh'))
          BY <1>2, <1>3, <1>4, <3>1, <5>1, TxAssumption, SMTT(40)
        <5>3. ~(Pos(watch[i]) < Pos(tdh))
          BY <1>2, <1>3, <3>1, <5>1, TxAssumption, SMTT(40)
        <5> QED
          BY <1>1, <1>2, <3>1, <5>2, <5>3 DEF PacketAt, TypeOK, RingType
      <4>4. i = tdh \/ Pos(i) < Pos(tdh) \/ Pos(tdh) < Pos(i)
        BY <1>2, DistInjective, SMTT(40) DEF Pos
      <4> QED
        BY <4>1, <4>2, <4>3, <4>4
    <3>3. \A j \in Slots : desc[j] # "eop" => desc'[j] # "eop"
      BY <1>1, <1>2 DEF TypeOK, RingType
    <3> QED
      BY <1>1, <3>1, <3>2, <3>3 DEF PacketAt, InFlight, Boundary, Pos
  <2>2. Boundary(tdh)'
    BY <1>1, <1>3 DEF PacketAt, Boundary
  <2>3. Boundary(CleanEnd)' /\ Boundary(tdt)'
    BY <1>1 DEF PacketsTile, Boundary
  <2> QED
    BY <1>1, <1>5, <2>1, <2>2, <2>3 DEF PacketsTile, Pos
<1>10. MappingsOwned'
  BY <1>1, SameMappings DEF xmit
<1> QED
  BY <1>6, <1>7, <1>8, <1>9, <1>10

\* NAPI moves past its first packet: every position shrinks by the packet's
\* length n, and the slots behind NAPI are the last of the circle.
LEMMA CleanPacketInv ==
    ASSUME IInv, CleanPacket
    PROVE  IInv'
<1> USE DEF IInv
<1> DEFINE e == watch[ni]
           n == Pos(e) + 1
<1>1. /\ UNCHANGED <<next_to_use, next_to_clean, tdh, tdt, desc, xmit, npc>>
      /\ CleanEnd = ni /\ CleanEnd' = ni' /\ npc = "clean"
      /\ ni' = Advance(e, 1) /\ e # NoDesc /\ desc[e] = "done"
      /\ watch' = [watch EXCEPT ![ni] = NoDesc]
  BY DEF CleanPacket, CleanEnd, Completed
<1>2. /\ ni \in Slots /\ tdh \in Slots /\ tdt \in Slots /\ e \in Slots
      /\ next_to_use \in Slots /\ next_to_clean \in Slots
      /\ watch \in [Slots -> Slots \cup {NoDesc}]
      /\ \A k \in Slots : Pos(k) \in 0 .. Count - 1
      /\ Pos(ni) = 0
  BY <1>1, DistType DEF TypeOK, RingType, LocalType, Pos
<1>3. PacketAt(ni) /\ Pos(e) < Pos(tdh) /\ Pos(e) < Pos(next_to_use)
  BY <1>1, <1>2 DEF PacketsTile, PacketAt, InFlight
<1>4. /\ ni' \in Slots /\ Pos(ni') = n /\ n \in 1 .. Count - 1
      /\ n <= Pos(next_to_use)
  <2>1. 1 \in 0 .. Count - 1 /\ 1 \in 0 .. Count /\ Dist(ni, e) + 1 < Count
    BY <1>1, <1>2, <1>3, TxAssumption, SMTT(40) DEF Pos
  <2>2. ni' \in Slots
    BY <1>1, <1>2, <2>1, AdvanceType
  <2>3. Dist(ni, ni') = Dist(ni, e) + 1
    BY <1>1, <1>2, <2>1, DistAdvance, SMTT(40)
  <2> QED
    BY <1>1, <1>2, <1>3, <2>1, <2>2, <2>3, SMTT(40) DEF Pos
<1>5. \A j \in Slots : Pos(j)' = IF n <= Pos(j) THEN Pos(j) - n
                                               ELSE Pos(j) - n + Count
  <2> SUFFICES ASSUME NEW j \in Slots
               PROVE  Pos(j)' = IF n <= Pos(j) THEN Pos(j) - n
                                               ELSE Pos(j) - n + Count
    OBVIOUS
  <2>1. Pos(j)' = Dist(ni', j) /\ Pos(j) = Dist(ni, j) /\ Dist(ni, ni') = n
    BY <1>1, <1>4 DEF Pos
  <2> HIDE DEF n
  <2> QED
    BY <1>2, <1>4, <2>1, DistShift, SMTT(40)
<1> HIDE DEF n, e
<1>6. \A j \in Slots : Pos(j)' \in 0 .. Count - 1
  BY <1>2, <1>4, <1>5, TxAssumption, SMTT(40)
<1>7. TypeOK'
  <2>1. RingType'
    BY <1>1, <1>2, TxAssumption DEF CleanPacket, TypeOK, RingType, NoDesc
  <2>2. LocalType'
    BY <1>1, <1>4, TxAssumption, SMTT(40) DEF CleanPacket, TypeOK, LocalType, xmit
  <2>3. FlagType'
    BY DEF CleanPacket, TypeOK, FlagType, hang, xmit
  <2> QED
    BY <2>1, <2>2, <2>3 DEF TypeOK
<1>8. Cleaning'
  <2>1. Dist(ni, next_to_use) =
           Dist(next_to_clean, next_to_use) - Dist(next_to_clean, ni)
    BY <1>1, <1>2, DistShift DEF Cleaning
  <2>2. Dist(next_to_clean, ni) + n <= Dist(next_to_clean, next_to_use)
    BY <1>1, <1>2, <1>4, <2>1, DistType, SMTT(40) DEF Pos
  <2>3. Dist(ni, ni') = n
    BY <1>1, <1>4 DEF Pos
  <2>4. Dist(next_to_clean, ni') = Dist(next_to_clean, ni) + n
    <3>1. /\ Dist(next_to_clean, ni) \in 0 .. Count - 1
          /\ Dist(next_to_clean, ni') \in 0 .. Count - 1
          /\ Dist(next_to_clean, next_to_use) \in 0 .. Count - 1
      BY <1>2, <1>4, DistType
    <3>2. n = IF Dist(next_to_clean, ni) <= Dist(next_to_clean, ni')
              THEN Dist(next_to_clean, ni') - Dist(next_to_clean, ni)
              ELSE Dist(next_to_clean, ni') - Dist(next_to_clean, ni) + Count
      BY <1>2, <1>4, <2>3, DistShift
    <3> QED
      BY <1>4, <2>2, <3>1, <3>2, TxAssumption, SMTT(40)
  <2> QED
    BY <1>1, <2>2, <2>4 DEF Cleaning
<1>9. TailGap' /\ Building'
  <2>1. /\ UNCHANGED <<xpc, xdata, xctx>> /\ XSize' = XSize /\ XLast' = XLast
    BY <1>1 DEF xmit, XSize, XLast
  <2>2. ASSUME xpc = "publish" PROVE mapped'[next_to_use]
    <3>1. ~Within(next_to_use, ni, PacketSlots(ni))
      BY <1>1, <1>2, <1>3, TxAssumption, SMTT(40) DEF Within, PacketSlots, Pos, e
    <3> QED
      BY <1>2, <2>2, <3>1 DEF CleanPacket, Building
  <2> QED
    BY <1>1, <2>1, <2>2 DEF TailGap, Building
<1>10. \A j \in Slots : watch'[j] # NoDesc =>
          watch[j] # NoDesc /\ watch'[j] = watch[j] /\ watch[j] \in Slots
          /\ n <= Pos(j)
  <2>1. ASSUME NEW j \in Slots, watch'[j] # NoDesc
        PROVE  watch[j] # NoDesc /\ watch'[j] = watch[j] /\ j # ni
    BY <1>1, <1>2, <2>1
  <2>2. ASSUME NEW j \in Slots, watch[j] # NoDesc, j # ni
        PROVE  n <= Pos(j)
    <3>1. Pos(ni) < Pos(j)
      BY <1>1, <1>2, <2>2, DistType, SMTT(40) DEF Pos
    <3> QED
      BY <1>1, <1>2, <2>2, <3>1, PacketsApart, SMTT(40) DEF n, e
  <2> QED
    BY <1>2, <2>1, <2>2
<1>11. \A j \in Slots : Boundary(j) /\ n <= Pos(j) => Boundary(j)'
  BY <1>1, <1>2, <1>4, SMTT(40) DEF Boundary
<1>12. PacketsTile'
  <2>1. n <= Pos(tdh) /\ Pos(tdh) <= Pos(tdt) /\ Pos(tdt) <= Pos(next_to_use)
    BY <1>2, <1>3, SMTT(40) DEF PacketsTile, n
  <2>2. Boundary(CleanEnd)'
    <3>1. Boundary(ni')
      BY <1>1, <1>3 DEF PacketAt, e
    <3> QED
      BY <1>1, <1>2, <1>4, <3>1, SMTT(40) DEF Boundary
  <2>3. Boundary(tdh)' /\ Boundary(tdt)'
    BY <1>1, <1>2, <1>4, <1>11, <2>1, SMTT(40) DEF PacketsTile, Boundary
  <2>4. Pos(tdh)' <= Pos(tdt)' /\ Pos(tdt)' <= Pos(next_to_use)'
    BY <1>1, <1>2, <1>4, <1>5, <2>1, TxAssumption, SMTT(40) DEF Pos
  <2>5. ASSUME NEW i \in Slots, watch'[i] # NoDesc
        PROVE  PacketAt(i)'
    <3>1. /\ watch[i] # NoDesc /\ watch'[i] = watch[i] /\ watch[i] \in Slots
          /\ n <= Pos(i) /\ PacketAt(i)
      BY <1>10, <2>5 DEF PacketsTile
    <3>2. Pos(i) <= Pos(watch[i]) /\ Pos(watch[i]) < Pos(next_to_use)
      BY <3>1 DEF PacketAt, InFlight
    <3>3. \A j \in Slots :
             /\ Pos(i)' <= Pos(j)' /\ Pos(j)' < (Pos(watch[i]))' =>
                  Pos(i) <= Pos(j) /\ Pos(j) < Pos(watch[i])
             /\ Pos(i)' < Pos(j)' /\ Pos(j)' <= (Pos(watch[i]))' =>
                  Pos(i) < Pos(j) /\ Pos(j) <= Pos(watch[i])
      <4>1. (Pos(watch[i]))' = Pos(watch[i]) - n
        BY <1>2, <1>4, <1>5, <3>1, <3>2, SMTT(40) DEF Pos
      <4> QED
        BY <1>2, <1>4, <1>5, <3>1, <3>2, <4>1, TxAssumption, SMTT(40)
    <3>4. /\ Pos(i)' <= (Pos(watch[i]))'
          /\ (Pos(watch[i]))' < (Pos(next_to_use))'
          /\ (Pos(watch[i]))' < (Pos(tdh))' <=> Pos(watch[i]) < Pos(tdh)
      <4>1. /\ (Pos(watch[i]))' = Pos(watch[i]) - n
            /\ (Pos(next_to_use))' = Pos(next_to_use) - n
            /\ (Pos(tdh))' = Pos(tdh) - n
        BY <1>1, <1>2, <1>4, <1>5, <2>1, <3>1, <3>2, SMTT(40) DEF Pos
      <4> QED
        BY <1>2, <1>4, <1>5, <3>1, <3>2, <4>1, TxAssumption, SMTT(40)
    <3>5. \A j \in Slots : watch[j] = NoDesc => watch'[j] = NoDesc
      BY <1>1, <1>2
    <3>6. (Boundary(Advance(watch[i], 1)))'
      <4> DEFINE a == Advance(watch[i], 1)
      <4>1. a \in Slots /\ Dist(ni, a) = Dist(ni, watch[i]) + 1
        <5>1. 1 \in 0 .. Count - 1 /\ 1 \in 0 .. Count
              /\ Dist(ni, watch[i]) + 1 < Count
          BY <1>1, <1>2, <3>1, <3>2, TxAssumption, SMTT(40) DEF Pos
        <5> QED
          BY <1>2, <3>1, <5>1, AdvanceType, DistAdvance, SMTT(40)
      <4>2. n <= Pos(a)
        BY <1>1, <1>2, <1>4, <3>1, <3>2, <4>1, SMTT(40) DEF Pos
      <4>3. Boundary(a)
        BY <3>1 DEF PacketAt
      <4> HIDE DEF a
      <4>4. a = next_to_use' \/ watch'[a] # NoDesc
        BY <1>11, <4>1, <4>2, <4>3 DEF Boundary
      <4> QED
        BY <3>1, <4>4 DEF a, Boundary
    <3> QED
      BY <1>1, <3>1, <3>3, <3>4, <3>5, <3>6 DEF PacketAt, InFlight
  <2> QED
    BY <2>2, <2>3, <2>4, <2>5 DEF PacketsTile
<1>13. MappingsOwned'
  <2>1. \A j \in Slots : Within(j, ni, PacketSlots(ni)) <=> Pos(j) < n
    BY <1>1, <1>2 DEF Within, PacketSlots, Pos, n, e
  <2>2. \A j \in Slots : mapped'[j] <=> mapped[j] /\ ~(Pos(j) < n)
    BY <2>1 DEF CleanPacket
  <2>3. ASSUME NEW j \in Slots, mapped'[j], ~InFlight(j)'
        PROVE  xpc' = "publish" /\ (Within(j, next_to_use, XSize))'
    <3>1. mapped[j] /\ n <= Pos(j)
      BY <1>2, <1>4, <2>2, <2>3, SMTT(40)
    <3>2. ~InFlight(j)
      <4>1. (Pos(next_to_use))' = Pos(next_to_use) - n
        BY <1>1, <1>2, <1>4, <1>5 DEF Pos
      <4> QED
        BY <1>2, <1>4, <1>5, <2>3, <3>1, <4>1, SMTT(40) DEF InFlight
    <3> QED
      BY <1>1, <3>1, <3>2 DEF MappingsOwned, Within, XSize, xmit
  <2>4. ASSUME NEW j \in Slots, watch'[j] # NoDesc
        PROVE  mapped'[j] /\ InFlight(j)'
    <3>1. watch[j] # NoDesc /\ n <= Pos(j) /\ mapped[j] /\ InFlight(j)
      BY <1>10, <2>4 DEF MappingsOwned
    <3>2. (Pos(next_to_use))' = Pos(next_to_use) - n
      BY <1>1, <1>2, <1>4, <1>5 DEF Pos
    <3> QED
      BY <1>2, <1>4, <1>5, <2>2, <3>1, <3>2, SMTT(40) DEF InFlight
  <2> QED
    BY <2>3, <2>4 DEF MappingsOwned
<1> QED
  BY <1>7, <1>8, <1>9, <1>12, <1>13

-----------------------------------------------------------------------------
(* The actions that move no packet.                                        *)

\* The xmit steps that only test for room, stop or start the queue.
LEMMA XmitControlInv ==
    ASSUME IInv,
           \/ \E d \in DataDescs, c \in CtxDescs, m \in BOOLEAN :
                XmitEnter(d, c, m)
           \/ StopQueue \/ Recheck \/ CheckNeeded
    PROVE  IInv'
<1> USE DEF IInv
<1>1. UNCHANGED <<ring, napi>> /\ CleanEnd' = CleanEnd
  BY DEF XmitEnter, StopQueue, Recheck, CheckNeeded, CleanEnd, ring, napi
<1>2. TypeOK'
  <2>1. RingType'
    BY <1>1 DEF TypeOK, RingType, ring
  <2>2. LocalType'
    BY <1>1, TxAssumption, SMTT(40)
    DEF XmitEnter, StopQueue, Recheck, CheckNeeded, MaybeStop, XmitReturn,
        TypeOK, LocalType, XPCs, napi
  <2>3. FlagType'
    BY DEF XmitEnter, StopQueue, Recheck, CheckNeeded, MaybeStop, XmitReturn,
           TypeOK, FlagType, hang
  <2> QED
    BY <2>1, <2>2, <2>3 DEF TypeOK
<1>3. TailGap' /\ Cleaning'
  BY <1>1 DEF TailGap, Cleaning, ring, napi
<1>4. Building'
  BY <1>1, DescUnusedIs, DistType, TxAssumption, SMTT(40)
  DEF XmitEnter, StopQueue, Recheck, CheckNeeded, MaybeStop, XmitReturn,
      RoomAfterStop, Building, TypeOK, RingType, LocalType, ring
<1>5. PacketsTile'
  BY <1>1, SamePackets DEF ring
<1>6. MappingsOwned'
  BY <1>1, SameMappings
  DEF XmitEnter, StopQueue, Recheck, CheckNeeded, ring
<1> QED
  BY <1>2, <1>3, <1>4, <1>5, <1>6

\* The steps of NAPI that clean nothing; PublishClean moves next_to_clean up
\* to where NAPI already stands.
LEMMA NapiControlInv ==
    ASSUME IInv,
           PollStart \/ PublishClean \/ PollHang \/ PollWakeTest \/ PollWake
    PROVE  IInv'
<1> USE DEF IInv
<1>1. /\ UNCHANGED <<next_to_use, tdh, tdt, watch, mapped, desc, xmit>>
      /\ CleanEnd' = CleanEnd
  BY DEF PollStart, PublishClean, PollHang, PollWakeTest, PollWake, PollReturn,
         CleanEnd, ring
<1>2. next_to_clean' \in Slots /\ ni' \in Slots
  BY TxAssumption, SMTT(40)
  DEF PollStart, PublishClean, PollHang, PollWakeTest, PollWake, PollReturn,
      TypeOK, RingType, LocalType, Slots, ring
<1>3. TypeOK'
  <2>1. RingType'
    BY <1>1, <1>2 DEF TypeOK, RingType
  <2>2. LocalType'
    BY <1>1, <1>2, TxAssumption, SMTT(40)
    DEF PollStart, PublishClean, PollHang, PollWakeTest, PollWake, PollReturn,
        TypeOK, LocalType, NPCs, xmit
  <2>3. FlagType'
    BY DEF PollStart, PublishClean, PollHang, PollWakeTest, PollWake,
           PollReturn, CheckTxHang, ArmedAfterCheck, LooksHung, TypeOK,
           FlagType, hang, xmit
  <2> QED
    BY <2>1, <2>2, <2>3 DEF TypeOK
<1>4. Dist(next_to_clean', next_to_use') <= Dist(next_to_clean, next_to_use)
  BY <1>1, DistType, DistShift, TxAssumption, SMTT(40)
  DEF PollStart, PublishClean, PollHang, PollWakeTest, PollWake, Cleaning,
      TypeOK, RingType, LocalType, ring
<1>5. TailGap' /\ Building'
  BY <1>1, <1>2, <1>4, DistType, TxAssumption, SMTT(40)
  DEF TailGap, Building, TypeOK, RingType, LocalType, xmit, XLast, XSize
<1>6. Cleaning'
  BY <1>1, DistType, SMTT(40)
  DEF PollStart, PublishClean, PollHang, PollWakeTest, PollWake, PollReturn,
      Cleaning, TypeOK, RingType, ring
<1>7. PacketsTile'
  BY <1>1, SamePackets
<1>8. MappingsOwned'
  BY <1>1, SameMappings DEF xmit
<1> QED
  BY <1>3, <1>5, <1>6, <1>7, <1>8

\* The NIC getting stuck, the service task and the stack's watchdog.
LEMMA ServiceInv ==
    ASSUME IInv,
           \/ HwStick \/ CheckHangSubtask \/ UpdateXoff \/ TxTimeout
           \/ LinkDown \/ LinkUp \/ WatchdogFlushTx \/ UNCHANGED vars
    PROVE  IInv'
<1> USE DEF IInv
<1>1. UNCHANGED <<ring, xmit, napi>> /\ CleanEnd' = CleanEnd
  BY DEF HwStick, CheckHangSubtask, UpdateXoff, TxTimeout, LinkDown, LinkUp,
         WatchdogFlushTx, vars, CleanEnd, ring, napi
<1>2. TypeOK'
  <2>1. RingType' /\ LocalType'
    BY <1>1 DEF TypeOK, RingType, LocalType, ring, xmit, napi
  <2>2. FlagType'
    BY <1>1
    DEF HwStick, CheckHangSubtask, UpdateXoff, TxTimeout, LinkDown, LinkUp,
        WatchdogFlushTx, CheckTxHang, ArmedAfterCheck, LooksHung, IsHung, vars,
        TypeOK, FlagType, hang, xmit
  <2> QED
    BY <2>1, <2>2 DEF TypeOK
<1>3. TailGap' /\ Cleaning' /\ Building'
  BY <1>1 DEF TailGap, Cleaning, Building, XLast, XSize, ring, xmit, napi
<1>4. PacketsTile'
  BY <1>1, SamePackets DEF ring
<1>5. MappingsOwned'
  BY <1>1, SameMappings DEF ring, xmit
<1> QED
  BY <1>2, <1>3, <1>4, <1>5

\* ixgbe_clean_tx_ring and ixgbe_configure_tx_ring leave an empty ring.
LEMMA ReinitInv ==
    ASSUME IInv, Reinit
    PROVE  IInv'
<1> USE DEF IInv
<1>1. 0 \in Slots /\ Dist(0, 0) = 0 /\ CleanEnd' = 0
  BY TxAssumption, SMTT(40) DEF Reinit, Slots, Dist, CleanEnd, napi
<1>2. TypeOK'
  <2>1. RingType' /\ LocalType'
    BY <1>1 DEF Reinit, TypeOK, RingType, LocalType, xmit, napi
  <2>2. FlagType'
    BY DEF Reinit, TypeOK, FlagType, xmit
  <2> QED
    BY <2>1, <2>2 DEF TypeOK
<1>3. TailGap' /\ Building' /\ Cleaning'
  BY <1>1, TxAssumption, SMTT(40) DEF Reinit, TailGap, Building, Cleaning, xmit, napi
<1>4. PacketsTile'
  BY <1>1, TxAssumption, SMTT(40) DEF Reinit, PacketsTile, Boundary, Pos, NoDesc
<1>5. MappingsOwned'
  BY DEF Reinit, MappingsOwned
<1> QED
  BY <1>2, <1>3, <1>4, <1>5

-----------------------------------------------------------------------------
\* Every step keeps the inductive invariant.
LEMMA StepInv == IInv /\ [Next]_vars => IInv'
<1> SUFFICES ASSUME IInv, [Next]_vars PROVE IInv'
  OBVIOUS
<1>1. CASE Xmit
  BY <1>1, XmitControlInv, MapDescsInv, MapErrorInv, PublishInv, WriteTailInv
  DEF Xmit
<1>2. CASE Poll
  BY <1>2, NapiControlInv, CleanPacketInv DEF Poll
<1>3. CASE HwSend
  BY <1>3, HwSendInv
<1>4. CASE HwStick \/ Service
  BY <1>4, ServiceInv, ReinitInv DEF Service
<1>5. CASE UNCHANGED vars
  BY <1>5, ServiceInv
<1> QED
  BY <1>1, <1>2, <1>3, <1>4, <1>5 DEF Next

\* IInv holds in every reachable state.
THEOREM Inductive == Spec => []IInv
BY InitInv, StepInv, PTL DEF Spec

\* Indices, registers and next_to_watch stay inside the ring (the wrap-arounds
\* of ixgbe_tx_map and ixgbe_clean_tx_irq).
THEOREM TypeCorrect == Spec => []TypeOK
<1>1. IInv => TypeOK
  BY DEF IInv
<1> QED
  BY Inductive, <1>1, PTL

\* "2 desc gap to keep tail from touching head": for every ring size and every
\* packet within DESC_NEEDED the gap survives the race between the room check
\* of ixgbe_maybe_stop_tx and the cleaning of ixgbe_clean_tx_irq.
THEOREM TailGapKept == Spec => []TailGap
<1>1. IInv => TailGap
  BY DEF IInv
<1> QED
  BY Inductive, <1>1, PTL

\* The ring between NAPI and next_to_use is a sequence of whole packets.
THEOREM PacketsTiled == Spec => []PacketsTile
<1>1. IInv => PacketsTile
  BY DEF IInv
<1> QED
  BY Inductive, <1>1, PTL

\* ixgbe_clean_tx_irq frees a packet only after the NIC has sent it.
THEOREM NeverFreedEarly == Spec => []NoEarlyFree
<1>1. IInv => NoEarlyFree
  BY DEF IInv, NoEarlyFree, Completed, PacketsTile, PacketAt
<1> QED
  BY Inductive, <1>1, PTL

\* Every DMA mapping belongs to a packet in flight or being built, and every
\* packet in flight still has its mapping.
THEOREM MappingsAreOwned == Spec => []MappingsOwned
<1>1. IInv => MappingsOwned
  BY DEF IInv
<1> QED
  BY Inductive, <1>1, PTL

-----------------------------------------------------------------------------
(* Hang checks. *)

\* What the hang check has seen: while the ring is armed and has made no
\* progress, the packet that was pending at the last check still is.
HangInv ==
    /\ waited \in 0 .. 2
    /\ npc = "clean" /\ nclean = 0 => ni = next_to_clean
    /\ armed /\ ~progress => waited >= 1 /\ TxPending

\* The steps that touch what the hang check looks at, or its result.
LEMMA HangSteps ==
    ASSUME Next
    PROVE  \/ Publish \/ PublishClean \/ PollHang \/ TxTimeout \/ UpdateXoff \/ Reinit
           \/ UNCHANGED <<next_to_use, next_to_clean, armed, progress>>
  BY DEF Next, Xmit, Poll, Service, XmitEnter, StopQueue, Recheck, MapDescs,
         CheckNeeded, WriteTail, MapError, PollStart, CleanPacket, PollWakeTest,
         PollWake, HwSend, HwStick, CheckHangSubtask, LinkDown, LinkUp,
         WatchdogFlushTx, ring, hang

\* A step that neither takes the oldest packet away nor looks.
LEMMA StillWaiting ==
    ASSUME HangInv, HNext, next_to_clean' = next_to_clean,
           armed' /\ ~progress' => armed /\ ~progress, TxPending => TxPending'
    PROVE  armed' /\ ~progress' => waited' >= 1 /\ TxPending'
<1> SUFFICES ASSUME armed', ~progress' PROVE waited' >= 1 /\ TxPending'
  OBVIOUS
<1>1. TxPending /\ waited >= 1 /\ waited \in 0 .. 2
  BY DEF HangInv
<1>2. ~Moved
  BY <1>1 DEF Moved
<1>3. waited' >= 1
  BY <1>1, <1>2, SMTT(40) DEF HNext
<1>4. QED
  BY <1>1, <1>3

\* The check itself: a ring that looks hung has a packet in it.
LEMMA Looked ==
    ASSUME HangInv, HNext, detect, CheckTxHang, UNCHANGED <<next_to_use, next_to_clean>>
    PROVE  armed' /\ ~progress' => waited' >= 1 /\ TxPending'
<1> SUFFICES ASSUME armed' PROVE waited' >= 1 /\ TxPending'
  OBVIOUS
<1>1. TxPending /\ TxPending'
  BY DEF CheckTxHang, ArmedAfterCheck, LooksHung, TxPending
<1>2. ~Moved /\ HangChecked
  BY <1>1 DEF Moved, HangChecked, CheckTxHang
<1>3. waited' >= 1
  BY <1>2, SMTT(40) DEF HNext, HangInv
<1>4. QED
  BY <1>1, <1>3

\* The local variables of the poll.
LEMMA FirstTurn ==
    ASSUME IInv, HangInv, Next
    PROVE  npc' = "clean" /\ nclean' = 0 => ni' = next_to_clean'
<1>1. CASE PollStart
  BY <1>1 DEF PollStart, ring
<1>2. CASE CleanPacket
  <2>1. nclean' # 0
    BY <1>2, TxAssumption, SMTT(40) DEF CleanPacket, IInv, TypeOK, LocalType
  <2>2. QED
    BY <2>1
<1>3. npc' # "clean" \/ PollStart \/ CleanPacket \/ UNCHANGED <<npc, ni, nclean, next_to_clean>>
  BY DEF Next, Xmit, Poll, Service, XmitEnter, StopQueue, Recheck, MapDescs,
         CheckNeeded, WriteTail, MapError, Publish, PublishClean, PollHang,
         PollReturn, PollWakeTest, PollWake, HwSend, HwStick, CheckHangSubtask,
         UpdateXoff, TxTimeout, LinkDown, LinkUp, WatchdogFlushTx, Reinit, ring, napi
<1>4. QED
  BY <1>1, <1>2, <1>3 DEF HangInv

LEMMA HangKept ==
    ASSUME IInv, HangInv, [HNext]_hvars
    PROVE  HangInv'
<1>1. CASE UNCHANGED hvars
  BY <1>1 DEF HangInv, hvars, vars, ring, napi, hang, TxPending
<1>2. CASE HNext
  <2>1. waited' \in 0 .. 2
    BY <1>2, SMTT(40) DEF HNext, HangInv
  <2>2. npc' = "clean" /\ nclean' = 0 => ni' = next_to_clean'
    BY <1>2, FirstTurn DEF HNext
  <2>3. armed' /\ ~progress' => waited' >= 1 /\ TxPending'
    <3>1. CASE Publish
      <4>1. next_to_clean' = next_to_clean /\ armed' = armed /\ progress' = progress
            /\ next_to_use' = Advance(next_to_use, XSize) /\ xpc = "publish"
        BY <3>1 DEF Publish, hang
      <4>2. next_to_clean \in Slots /\ next_to_use \in Slots
        BY DEF IInv, TypeOK, RingType
      <4>3. XSize \in 1 .. Count - 1
            /\ Dist(next_to_clean, next_to_use) + XSize <= Count - 3
        BY <4>1, BuiltIsFree
      <4>4. Dist(next_to_clean, next_to_use') = Dist(next_to_clean, next_to_use) + XSize
        BY <4>1, <4>2, <4>3, DistAdvance, DistType, TxAssumption, SMTT(40)
      <4>5. TxPending'
        BY <4>1, <4>2, <4>3, <4>4, DistType, TxAssumption, SMTT(40) DEF TxPending
      <4>6. QED
        BY <1>2, <4>1, <4>5, StillWaiting
    <3>2. CASE PublishClean
      <4>1. CASE nclean > 0
        BY <3>2, <4>1 DEF PublishClean
      <4>2. CASE ~(nclean > 0)
        <5>1. nclean = 0
          BY <4>2, SMTT(40) DEF IInv, TypeOK, LocalType
        <5>2. next_to_clean' = next_to_clean
          BY <3>2, <5>1 DEF PublishClean, HangInv
        <5>3. TxPending' = TxPending
          BY <3>2, <5>2 DEF PublishClean, TxPending
        <5>4. armed' /\ ~progress' => armed /\ ~progress
          BY <3>2 DEF PublishClean
        <5>5. QED
          BY <1>2, <5>2, <5>3, <5>4, StillWaiting
      <4>3. QED
        BY <4>1, <4>2
    <3>3. CASE PollHang /\ detect
      BY <1>2, <3>3, Looked DEF PollHang, ring
    <3>4. CASE PollHang /\ ~detect
      BY <1>2, <3>4, StillWaiting DEF PollHang, ring, hang, TxPending
    <3>5. CASE TxTimeout
      BY <1>2, <3>5, Looked DEF TxTimeout, ring
    <3>6. CASE UpdateXoff \/ Reinit
      BY <3>6 DEF UpdateXoff, Reinit
    <3>7. CASE UNCHANGED <<next_to_use, next_to_clean, armed, progress>>
      BY <1>2, <3>7, StillWaiting DEF TxPending
    <3>8. QED
      BY <1>2, <3>1, <3>2, <3>3, <3>4, <3>5, <3>6, <3>7, HangSteps DEF HNext
  <2>4. QED
    BY <2>1, <2>2, <2>3 DEF HangInv
<1>3. QED
  BY <1>1, <1>2

\* A step that reports a hang is a check that finds the ring armed.
LEMMA HangReported ==
    ASSUME HangInv, [HNext]_hvars, HangChecked, reset_requested', ~reset_requested
    PROVE  waited >= 1
<1>1. HNext
  BY DEF HangChecked, hvars, vars, hang
<1>2. PollHang \/ TxTimeout
  BY <1>1
  DEF HNext, HangChecked, Next, Xmit, Poll, Service, XmitEnter, StopQueue, Recheck,
      MapDescs, CheckNeeded, WriteTail, MapError, Publish, PollStart, CleanPacket,
      PublishClean, PollWakeTest, PollWake, HwSend, HwStick, CheckHangSubtask,
      UpdateXoff, LinkDown, LinkUp, WatchdogFlushTx, Reinit, ring, hang
<1>3. IsHung
  BY <1>2 DEF PollHang, TxTimeout
<1>4. QED
  BY <1>3 DEF IsHung, LooksHung, HangInv

LEMMA HInv == HSpec => [](IInv /\ HangInv)
<1>1. HInit => IInv /\ HangInv
  BY InitInv, SMTT(40) DEF HInit, HangInv, Init
<1>2. IInv /\ HangInv /\ [HNext]_hvars => (IInv /\ HangInv)'
  BY StepInv, HangKept DEF HNext, hvars
<1>3. QED
  BY <1>1, <1>2, PTL DEF HSpec

\* "make sure it is true for two checks in a row": a hang is reported only when
\* the oldest packet already was in the ring, uncleaned, at an earlier check,
\* for every ring size and whatever is sent, cleaned or paused meanwhile.
THEOREM HangsAreSeenTwice == HSpec => HangSeenTwice
<1>1. HangInv /\ [HNext]_hvars =>
        [(HangChecked /\ reset_requested' /\ ~reset_requested) => waited >= 1]_hvars
  BY HangReported
<1>2. QED
  BY <1>1, HInv, PTL DEF HSpec, HangSeenTwice

-----------------------------------------------------------------------------
(* Doorbells. *)

\* Where the tail register stands in every step of an xmit call: packets that
\* wait for a doorbell leave room for one more, so that the next call does not
\* find the ring full before it can ring.
Told == tdt = next_to_use \/ late_wake
Room == DescUnused >= DescNeeded

RungInv ==
    /\ late_wake \in BOOLEAN
    /\ xpc \in {"idle", "map", "publish"} => Told \/ Room
    /\ xpc \in {"stop", "recheck"} => Told
    /\ xpc = "recheck2" => Told \/ stopped
    /\ xpc = "tail" => Told \/ stopped \/ Room
    /\ xpc = "map" /\ stopped => ~carrier \/ reset_requested
    /\ StoppedIsRung

\* NAPI only makes room.
LEMMA RoomStays ==
    ASSUME IInv, Next, UNCHANGED next_to_use, ~Reinit, Room
    PROVE  Room'
<1>1. next_to_clean \in Slots /\ next_to_use \in Slots /\ ni \in Slots
  BY DEF IInv, TypeOK, RingType, LocalType
<1>2. CASE PublishClean
  <2>1. next_to_clean' = ni /\ npc = "clean"
    BY <1>2 DEF PublishClean
  <2>2. Dist(next_to_clean, ni) <= Dist(next_to_clean, next_to_use)
    BY <2>1 DEF IInv, Cleaning
  <2>3. Dist(ni, next_to_use) <= Dist(next_to_clean, next_to_use)
    BY <1>1, <2>2, DistShift, DistType, TxAssumption, SMTT(40)
  <2>4. DescUnused = Count - 1 - Dist(next_to_clean, next_to_use)
    BY <1>1, DescUnusedIs
  <2>5. DescUnused' = Count - 1 - Dist(ni, next_to_use)
    BY <1>1, <2>1, TxAssumption, SMTT(40) DEF DescUnused, Dist, Slots
  <2>6. QED
    BY <1>1, <2>3, <2>4, <2>5, DistType, TxAssumption, SMTT(40) DEF Room
<1>3. PublishClean \/ UNCHANGED next_to_clean
  BY HangSteps DEF Publish, PollHang, TxTimeout, UpdateXoff, ring
<1>4. CASE UNCHANGED next_to_clean
  BY <1>4 DEF Room, DescUnused
<1>5. QED
  BY <1>2, <1>3, <1>4

\* Once told, always told, until another packet is published.
LEMMA ToldStays ==
    ASSUME HNext, RungInv, Told, UNCHANGED next_to_use, tdt' \in {tdt, next_to_use}
    PROVE  Told'
  BY DEF HNext, RungInv, Told

\* A queue that is woken in the middle of a call counts as told.
LEMMA WokenIsTold ==
    ASSUME HNext, RungInv, stopped, ~stopped', UNCHANGED xpc, xpc # "idle"
    PROVE  Told'
  BY DEF HNext, Told

LEMMA RungKept ==
    ASSUME IInv, RungInv, [HNext]_hvars
    PROVE  RungInv'
<1>1. CASE UNCHANGED hvars
  BY <1>1 DEF RungInv, StoppedIsRung, Told, Room, DescUnused, hvars, vars, ring, xmit
<1>2. CASE HNext
  <2> USE <1>2
  <2>0. late_wake' \in BOOLEAN /\ Next
    BY DEF HNext, RungInv
  <2>1. CASE \E d \in DataDescs, c \in CtxDescs, m \in BOOLEAN : XmitEnter(d, c, m)
    <3>1. PICK d \in DataDescs, c \in CtxDescs, m \in BOOLEAN : XmitEnter(d, c, m)
      BY <2>1
    <3>2. UNCHANGED <<next_to_use, next_to_clean, tdt, stopped>> /\ xpc = "idle" /\ ~stopped
      BY <3>1 DEF XmitEnter, ring
    <3>3. Room => DescUnused >= d + 3
      BY TxAssumption, SMTT(40) DEF Room, DescUnused, IInv, TypeOK, RingType, Slots
    <3>4. (Told => Told') /\ (Room => Room')
      BY <3>2, ToldStays DEF Room, DescUnused
    <3>5. xpc' = IF DescUnused >= d + 3 THEN "map" ELSE "stop"
      BY <3>1 DEF XmitEnter, MaybeStop
    <3>6. QED
      BY <2>0, <3>2, <3>3, <3>4, <3>5 DEF RungInv, StoppedIsRung
  <2>2. CASE StopQueue
    <3>1. /\ UNCHANGED <<next_to_use, next_to_clean, tdt>> /\ stopped' = TRUE
          /\ \/ xpc = "stop" /\ xpc' = "recheck"
             \/ xpc = "stop2" /\ xpc' = "recheck2"
      BY <2>2 DEF StopQueue, ring
    <3>2. Told => Told'
      BY <3>1, ToldStays
    <3>3. QED
      BY <2>0, <3>1, <3>2 DEF RungInv, StoppedIsRung
  <2>3. CASE Recheck
    <3>1. UNCHANGED <<next_to_use, next_to_clean, tdt, carrier, reset_requested>>
      BY <2>3 DEF Recheck, ring
    <3>2. Told => Told'
      BY <3>1, ToldStays
    <3>3. CASE xpc = "recheck"
      <4>1. xpc' = "idle" \/ (xpc' = "map" /\ ~stopped')
        BY <2>3, <3>3 DEF Recheck, XmitReturn
      <4>2. Told'
        BY <3>2, <3>3 DEF RungInv
      <4>3. StoppedIsRung'
        BY <4>2 DEF StoppedIsRung, Told
      <4>4. QED
        BY <2>0, <4>1, <4>2, <4>3 DEF RungInv
    <3>4. CASE xpc = "recheck2"
      <4>1. xpc' = "tail" /\ (stopped' = (stopped /\ ~Room))
        BY <2>3, <3>4 DEF Recheck, RoomAfterStop, Room
      <4>2. Room' = Room
        BY <3>1 DEF Room, DescUnused
      <4>3. Told' \/ stopped' \/ Room'
        BY <3>2, <3>4, <4>1, <4>2 DEF RungInv
      <4>4. QED
        BY <2>0, <4>1, <4>3 DEF RungInv, StoppedIsRung
    <3>5. QED
      BY <2>3, <3>3, <3>4 DEF Recheck
  <2>4. CASE MapDescs
    <3>1. UNCHANGED <<next_to_use, next_to_clean, tdt>> /\ xpc = "map" /\ xpc' = "publish"
      BY <2>4 DEF MapDescs
    <3>2. (Told => Told') /\ (Room => Room')
      BY <3>1, ToldStays DEF Room, DescUnused
    <3>3. QED
      BY <2>0, <3>1, <3>2 DEF RungInv, StoppedIsRung
  <2>5. CASE \E k \in 0 .. DescNeeded : MapError(k)
    <3>1. /\ UNCHANGED <<next_to_use, next_to_clean, tdt, stopped, carrier, reset_requested>>
          /\ xpc = "map" /\ xpc' = "idle"
      BY <2>5 DEF MapError, XmitReturn
    <3>2. (Told => Told') /\ (Room => Room')
      BY <3>1, ToldStays DEF Room, DescUnused
    <3>3. StoppedIsRung'
      BY <3>1 DEF RungInv, StoppedIsRung
    <3>4. QED
      BY <2>0, <3>1, <3>2, <3>3 DEF RungInv
  <2>6. CASE Publish
    BY <2>0, <2>6 DEF Publish, RungInv, StoppedIsRung
  <2>7. CASE CheckNeeded
    <3>1. UNCHANGED <<next_to_use, next_to_clean, tdt>>
          /\ xpc' = IF DescUnused >= DescNeeded THEN "tail" ELSE "stop2"
      BY <2>7 DEF CheckNeeded, MaybeStop, ring
    <3>2. Room' = Room
      BY <3>1 DEF Room, DescUnused
    <3>3. QED
      BY <2>0, <3>1, <3>2 DEF RungInv, StoppedIsRung, Room
  <2>8. CASE WriteTail
    <3>1. /\ UNCHANGED <<next_to_use, next_to_clean, stopped>> /\ xpc = "tail" /\ xpc' = "idle"
          /\ tdt' = IF RingDoorbell THEN next_to_use ELSE tdt
      BY <2>8 DEF WriteTail, XmitReturn
    <3>2. (Told => Told') /\ (Room => Room')
      BY <3>1, ToldStays DEF Room, DescUnused
    <3>3. CASE stopped
      <4>1. tdt' = next_to_use'
        BY <3>1, <3>3 DEF RingDoorbell
      <4>2. QED
        BY <2>0, <3>1, <4>1 DEF RungInv, StoppedIsRung, Told
    <3>4. CASE ~stopped
      BY <2>0, <3>1, <3>2, <3>4 DEF RungInv, StoppedIsRung
    <3>5. QED
      BY <3>3, <3>4
  <2>9. CASE Reinit
    BY <2>0, <2>9 DEF Reinit, RungInv, StoppedIsRung, Told, xmit
  <2>10. CASE (Poll \/ HwSend \/ HwStick \/ Service) /\ ~Reinit
    <3>1. UNCHANGED <<next_to_use, tdt, xpc>> /\ ~Reinit
      BY <2>10 DEF Poll, Service, PollStart, CleanPacket, PublishClean, PollHang,
                   PollWakeTest, PollWake, HwSend, HwStick, CheckHangSubtask,
                   UpdateXoff, TxTimeout, LinkDown, LinkUp, WatchdogFlushTx, ring, xmit
    <3>2. (Told => Told') /\ (Room => Room')
      BY <2>0, <3>1, ToldStays, RoomStays
    <3>3. /\ stopped' => stopped \/ ~carrier' \/ reset_requested'
          /\ stopped' /\ ~carrier => ~carrier'
          /\ stopped' /\ reset_requested => reset_requested'
      <4>1. \/ UNCHANGED <<stopped, carrier, reset_requested>>
            \/ stopped' = TRUE /\ reset_requested' = TRUE /\ carrier' = carrier
            \/ stopped' = FALSE
            \/ TxTimeout \/ LinkDown \/ WatchdogFlushTx
        BY <2>10 DEF Poll, PollStart, CleanPacket, PublishClean, PollHang, PollWakeTest,
                     PollWake, HwSend, HwStick, Service, CheckHangSubtask, UpdateXoff, LinkUp
      <4>2. CASE TxTimeout
        <5>1. stopped' = stopped /\ carrier' = carrier /\ (reset_requested => reset_requested')
          BY <4>2 DEF TxTimeout
        <5>2. QED
          BY <5>1
      <4>3. CASE LinkDown
        BY <4>3 DEF LinkDown
      <4>4. CASE WatchdogFlushTx
        BY <4>4 DEF WatchdogFlushTx
      <4>5. CASE stopped' = FALSE
        BY <4>5
      <4>6. CASE stopped' = TRUE /\ reset_requested' = TRUE /\ carrier' = carrier
        BY <4>6
      <4>7. CASE UNCHANGED <<stopped, carrier, reset_requested>>
        BY <4>7
      <4>8. QED
        BY <4>1, <4>2, <4>3, <4>4, <4>5, <4>6, <4>7
    <3>4. stopped /\ ~stopped' /\ xpc # "idle" => Told'
      BY <3>1, WokenIsTold
    <3>5. StoppedIsRung'
      <4> SUFFICES ASSUME xpc' = "idle", stopped', carrier', ~reset_requested', ~late_wake'
                   PROVE  tdt' = next_to_use'
        BY DEF StoppedIsRung
      <4>1. xpc = "idle" /\ stopped /\ carrier /\ ~reset_requested
        BY <3>1, <3>3
      <4>2. Told
        BY <4>1 DEF RungInv, StoppedIsRung, Told
      <4>3. QED
        BY <3>2, <4>2 DEF Told
    <3>6. xpc' = "map" /\ stopped' => ~carrier' \/ reset_requested'
      BY <3>1, <3>3 DEF RungInv
    <3>7. QED
      BY <2>0, <3>1, <3>2, <3>4, <3>5, <3>6 DEF RungInv
  <2>11. QED
    BY <2>0, <2>1, <2>2, <2>3, <2>4, <2>5, <2>6, <2>7, <2>8, <2>9, <2>10
    DEF Next, Xmit
<1>3. QED
  BY <1>1, <1>2

\* A queue at rest that the ring stopped has told the NIC of every packet
\* (netif_xmit_stopped in ixgbe_tx_map), for every ring size and packet that
\* DESC_NEEDED covers, unless it was woken in the middle of an xmit call or is
\* about to be reset.
THEOREM StoppedIsAlwaysRung == HSpec => []StoppedIsRung
<1>1. HInit => RungInv
  BY DEF HInit, Init, RungInv, Told, StoppedIsRung
<1>2. IInv /\ RungInv /\ [HNext]_hvars => RungInv'
  BY RungKept
<1>3. RungInv => StoppedIsRung
  BY DEF RungInv
<1>4. QED
  BY <1>1, <1>2, <1>3, HInv, PTL DEF HSpec

=============================================================================
