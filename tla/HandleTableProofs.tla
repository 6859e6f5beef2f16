------------------------- MODULE HandleTableProofs --------------------------
(***************************************************************************)
(* HandleTable, for every width of ids and sizes, every growth and every   *)
(* sequence of operations: its invariants, and that it implements          *)
(* HandleStore.                                                            *)
(***************************************************************************)
EXTENDS HandleTable, FiniteSetTheorems, TLAPS

Inv == TypeOK /\ WithinAllocation /\ LiveIdsUnique /\ DestroyedOnce

-----------------------------------------------------------------------------
(* Arithmetic.                                                             *)

(* A product of natural numbers is one.                                    *)
LEMMA ProductType ==
  ASSUME NEW a \in Nat, NEW b \in Nat
  PROVE  a * b \in Nat
OBVIOUS

(* The product of naturals is monotonic: an array of n slots fits when n   *)
(* is at most SIZE_MAX / sizeof(slot).                                     *)
LEMMA DivFits ==
  ASSUME NEW n \in Nat, n <= SizeMax \div SlotSize
  PROVE  n * SlotSize <= SizeMax /\ n \in 0 .. SizeMax
<1> DEFINE q == SizeMax \div SlotSize
<1>1. q \in Nat /\ SizeMax = SlotSize * q + (SizeMax % SlotSize)
      /\ SizeMax % SlotSize \in Nat
  BY TableAssumption
<1>2. SlotSize \in Nat /\ SlotSize >= 1 /\ SizeMax \in Nat
  BY TableAssumption
<1>3. n * SlotSize <= q * SlotSize
  <2> HIDE DEF q
  <2> QED BY <1>1, <1>2
<1>4. q * SlotSize <= SizeMax
  <2> HIDE DEF q
  <2> QED BY <1>1, <1>2
<1>5. n <= n * SlotSize
  BY <1>2
<1>6. QED
  <2> HIDE DEF q
  <2> QED BY <1>1, <1>2, <1>3, <1>4, <1>5

LEMMA DoubledType ==
  ASSUME NEW n \in Nat
  PROVE  Doubled(n) \in Nat
BY TableAssumption DEF Doubled

LEMMA IncrementType ==
  ASSUME NEW id \in 0 .. MaxId
  PROVE  Increment(id) = IF id = MaxId THEN 0 ELSE id + 1
BY TableAssumption DEF Increment
-----------------------------------------------------------------------------
(* Which slots hold an id.                                                 *)
LEMMA LiveSlotsAtMostOne ==
  ASSUME Inv, NEW id \in Ids, NEW i \in LiveSlots(id), NEW j \in LiveSlots(id)
  PROVE  i = j
BY DEF Inv, LiveIdsUnique, LiveSlots, Holds, Live

(* Nothing holds an id that is still to be issued.                         *)
LEMMA UnissuedIsAbsent ==
  ASSUME Inv, NEW id \in Ids, id \notin Issued
  PROVE  LiveSlots(id) = {}
BY DEF Inv, LiveIdsUnique, LiveSlots, Holds, Live

LEMMA NextIsUnissued ==
  ASSUME TypeOK, nextId # 0
  PROVE  nextId \in Ids /\ nextId \notin Issued
BY DEF TypeOK, Issued, Ids

(* Issuing takes exactly the next id.                                      *)
LEMMA IssueIssues ==
  ASSUME TypeOK, nextId # 0, Issue
  PROVE  /\ Issued' = Issued \cup {nextId}
         /\ nextId' \in 0 .. MaxId
         /\ nextId' = IF nextId = MaxId THEN 0 ELSE nextId + 1
<1>1. nextId' = IF nextId = MaxId THEN 0 ELSE nextId + 1
  BY IncrementType DEF TypeOK, Issue
<1>2. CASE nextId = MaxId
  BY <1>1, <1>2, TableAssumption DEF TypeOK, Issued, Ids
<1>3. CASE nextId # MaxId
  BY <1>1, <1>3, TableAssumption DEF TypeOK, Issued, Ids
<1>4. QED
  BY <1>2, <1>3

(* The two inserts put the new object under the next id into one slot that *)
(* nothing live was in, and leave every other live slot alone.             *)
LEMMA InsertedSlots ==
  ASSUME Inv, NEW v \in Objects, nextId # 0,
         \/ \E i \in 1 .. Len(slots) :
              ~Live(i) /\ slots' = [slots EXCEPT ![i] = Fresh(v)]
         \/ slots' = Append(slots, Fresh(v))
  PROVE  /\ slots' \in Seq(Slot)
         /\ Len(slots') \in {Len(slots), Len(slots) + 1}
         /\ \E k \in 1 .. Len(slots') :
              /\ slots'[k] = Fresh(v)
              /\ k \in 1 .. Len(slots) => ~Live(k)
              /\ \A j \in 1 .. Len(slots') :
                   j # k => j \in 1 .. Len(slots) /\ slots'[j] = slots[j]
              /\ \A j \in 1 .. Len(slots) : j \in 1 .. Len(slots')
<1>1. Fresh(v) \in Slot /\ slots \in Seq(Slot)
  BY NextIsUnissued DEF Inv, TypeOK, Fresh, Slot
<1>2. ASSUME NEW i \in 1 .. Len(slots), ~Live(i),
             slots' = [slots EXCEPT ![i] = Fresh(v)]
      PROVE  /\ slots' \in Seq(Slot) /\ Len(slots') = Len(slots)
             /\ slots'[i] = Fresh(v)
             /\ \A j \in 1 .. Len(slots) : j # i => slots'[j] = slots[j]
  <2> HIDE DEF Fresh
  <2> QED BY <1>1, <1>2
<1>3. ASSUME slots' = Append(slots, Fresh(v))
      PROVE  /\ slots' \in Seq(Slot) /\ Len(slots') = Len(slots) + 1
             /\ slots'[Len(slots) + 1] = Fresh(v)
             /\ \A j \in 1 .. Len(slots) : slots'[j] = slots[j]
  BY <1>1, <1>3
<1>4. Len(slots) \in Nat
  BY <1>1
<1>5. CASE slots' = Append(slots, Fresh(v))
  <2> DEFINE k == Len(slots) + 1
  <2>1. /\ slots' \in Seq(Slot) /\ Len(slots') = k /\ slots'[k] = Fresh(v)
        /\ \A j \in 1 .. Len(slots) : slots'[j] = slots[j]
    BY <1>3, <1>5
  <2>2. k \in 1 .. Len(slots') /\ k \notin 1 .. Len(slots)
    BY <1>4, <2>1
  <2>3. \A j \in 1 .. Len(slots') : j # k => j \in 1 .. Len(slots)
    BY <1>4, <2>1
  <2>4. \A j \in 1 .. Len(slots) : j \in 1 .. Len(slots')
    BY <1>4, <2>1
  <2>5. QED
    BY <2>1, <2>2, <2>3, <2>4
<1>6. CASE \E i \in 1 .. Len(slots) :
             ~Live(i) /\ slots' = [slots EXCEPT ![i] = Fresh(v)]
  BY <1>2, <1>6
<1>7. QED
  BY <1>5, <1>6

(* What the two inserts have in common.                                    *)
Inserts(v) ==
  /\ nextId # 0
  /\ Issue
  /\ \/ \E i \in 1 .. Len(slots) :
          ~Live(i) /\ slots' = [slots EXCEPT ![i] = Fresh(v)]
     \/ slots' = Append(slots, Fresh(v))

LEMMA InsertedLive ==
  ASSUME Inv, NEW v \in Objects, Inserts(v)
  PROVE  \E k \in 1 .. Len(slots') :
           /\ slots'[k] = Fresh(v)
           /\ \A id \in Ids : LiveSlots(id)' =
                IF id = nextId THEN {k} ELSE LiveSlots(id)
           /\ \A j \in 1 .. Len(slots') : j # k => slots'[j] = slots[j]
<1>1. PICK k \in 1 .. Len(slots') :
        /\ slots'[k] = Fresh(v)
        /\ k \in 1 .. Len(slots) => ~Live(k)
        /\ \A j \in 1 .. Len(slots') :
             j # k => j \in 1 .. Len(slots) /\ slots'[j] = slots[j]
        /\ \A j \in 1 .. Len(slots) : j \in 1 .. Len(slots')
  BY InsertedSlots DEF Inserts
<1>2. Fresh(v).id = nextId /\ Fresh(v).live
  BY DEF Fresh
<1>3. nextId \in Ids /\ LiveSlots(nextId) = {}
  BY NextIsUnissued, UnissuedIsAbsent DEF Inv, Inserts
<1>4. ASSUME NEW id \in Ids
      PROVE  LiveSlots(id)' = IF id = nextId THEN {k} ELSE LiveSlots(id)
  <2>1. LiveSlots(id)' =
          {j \in 1 .. Len(slots') : slots'[j].live /\ slots'[j].id = id}
    BY DEF LiveSlots, Holds
  <2>2. \A j \in 1 .. Len(slots') \ {k} :
          (slots'[j].live /\ slots'[j].id = id) <=> j \in LiveSlots(id)
    BY <1>1 DEF LiveSlots, Holds
  <2>3. k \notin LiveSlots(id)
    BY <1>1 DEF LiveSlots, Holds, Live
  <2>4. CASE id = nextId
    BY <1>1, <1>2, <1>3, <2>1, <2>2, <2>4
  <2>5. CASE id # nextId
    <3>1. LiveSlots(id)' = {j \in 1 .. Len(slots') \ {k} : j \in LiveSlots(id)}
      BY <1>1, <1>2, <2>1, <2>2, <2>5
    <3>2. \A j \in LiveSlots(id) : j \in 1 .. Len(slots') \ {k}
      BY <1>1, <2>3 DEF LiveSlots
    <3>3. QED
      BY <2>5, <3>1, <3>2
  <2>6. QED
    BY <2>4, <2>5
<1>5. QED
  BY <1>1, <1>4

(* LiveIdsUnique, said with LiveSlots.                                     *)
UniqueHolders ==
  \A id \in Ids : /\ \A i, j \in LiveSlots(id) : i = j
                  /\ LiveSlots(id) # {} => id \in Issued

LEMMA UniqueHoldersIff ==
  slots \in Seq(Slot) => (LiveIdsUnique <=> UniqueHolders)
<1> SUFFICES ASSUME slots \in Seq(Slot)
             PROVE  LiveIdsUnique <=> UniqueHolders
  OBVIOUS
<1>1. \A i \in 1 .. Len(slots) :
        slots[i].id \in Ids /\ (Live(i) => i \in LiveSlots(slots[i].id))
  <2> SUFFICES ASSUME NEW i \in 1 .. Len(slots)
               PROVE  /\ slots[i].id \in Ids
                      /\ Live(i) => i \in LiveSlots(slots[i].id)
    OBVIOUS
  <2>1. slots[i] \in Slot
    OBVIOUS
  <2>2. QED
    BY <2>1 DEF Slot, LiveSlots, Holds, Live
<1>2. \A id \in Ids : \A i \in LiveSlots(id) :
        i \in 1 .. Len(slots) /\ Live(i) /\ slots[i].id = id
  BY DEF LiveSlots, Holds, Live
<1>3. LiveIdsUnique => UniqueHolders
  BY <1>2 DEF LiveIdsUnique, UniqueHolders
<1>4. UniqueHolders => LiveIdsUnique
  <2> SUFFICES ASSUME UniqueHolders PROVE LiveIdsUnique
    OBVIOUS
  <2>1. ASSUME NEW i \in 1 .. Len(slots), NEW j \in 1 .. Len(slots),
               Live(i), Live(j), slots[i].id = slots[j].id
        PROVE  i = j
    BY <1>1, <2>1 DEF UniqueHolders
  <2>2. ASSUME NEW i \in 1 .. Len(slots), Live(i)
        PROVE  slots[i].id \in Issued
    BY <1>1, <2>2 DEF UniqueHolders
  <2>3. QED
    BY <2>1, <2>2 DEF LiveIdsUnique
<1>5. QED
  BY <1>3, <1>4

LEMMA UniqueHoldersIffNext ==
  slots' \in Seq(Slot) => (LiveIdsUnique' <=> UniqueHolders')
<1>1. (slots \in Seq(Slot) => (LiveIdsUnique <=> UniqueHolders))'
  BY UniqueHoldersIff, PTL
<1>2. Seq(Slot)' = Seq(Slot)
  BY DEF Slot, Ids
<1>3. QED
  BY <1>1, <1>2

LEMMA InsertInv ==
  ASSUME Inv, NEW v \in Objects, Inserts(v), WithinAllocation',
         capacity' \in 0 .. SizeMax, allocated' \in 0 .. SizeMax
  PROVE  Inv'
<1>1. slots' \in Seq(Slot)
  BY InsertedSlots DEF Inserts
<1>2. /\ Issued' = Issued \cup {nextId} /\ nextId' \in 0 .. MaxId
      /\ nextId \in Ids /\ nextId \notin Issued
  BY IssueIssues, NextIsUnissued DEF Inv, Inserts
<1>3. destroyed' = destroyed /\ closed' = closed
  BY DEF Inserts, Issue
<1>4. TypeOK'
  BY <1>1, <1>2, <1>3 DEF Inv, TypeOK
<1>5. PICK k \in 1 .. Len(slots') :
        \A id \in Ids : LiveSlots(id)' =
          IF id = nextId THEN {k} ELSE LiveSlots(id)
  BY InsertedLive
<1>6. LiveIdsUnique'
  <2>1. UniqueHolders
    BY UniqueHoldersIff DEF Inv, TypeOK
  <2>2. UniqueHolders'
    BY <1>2, <1>5, <2>1 DEF UniqueHolders
  <2>3. QED
    BY <1>1, <2>2, UniqueHoldersIffNext
<1>7. DestroyedOnce'
  BY <1>2, <1>3, <1>5 DEF Inv, DestroyedOnce
<1>8. QED
  BY <1>4, <1>6, <1>7 DEF Inv

(* Removing an id leaves it without a slot and changes no other id.        *)
LEMMA RemovedLive ==
  ASSUME Inv, NEW id \in RequestIds, NEW i \in 1 .. Len(slots), Remove(id, i)
  PROVE  /\ id \in Ids /\ i \in LiveSlots(id)
         /\ slots' \in Seq(Slot) /\ Len(slots') = Len(slots)
         /\ \A other \in Ids : LiveSlots(other)' =
              IF other = id THEN {} ELSE LiveSlots(other)
<1>1. slots \in Seq(Slot) /\ slots[i] \in Slot
  BY DEF Inv, TypeOK
<1>2. Holds(i, id) /\ slots' = [slots EXCEPT ![i].live = FALSE]
  BY DEF Remove, First
<1>3. id \in Ids /\ i \in LiveSlots(id)
  BY <1>1, <1>2 DEF Holds, Slot, LiveSlots
<1>4. [slots[i] EXCEPT !.live = FALSE] \in Slot
  BY <1>1 DEF Slot
<1>5. slots' \in Seq(Slot) /\ Len(slots') = Len(slots)
  BY <1>1, <1>2, <1>4
<1>6. /\ ~slots'[i].live
      /\ \A j \in 1 .. Len(slots) : j # i => slots'[j] = slots[j]
  BY <1>1, <1>2 DEF Slot
<1>7. ASSUME NEW other \in Ids
      PROVE  LiveSlots(other)' = LiveSlots(other) \ {i}
  BY <1>5, <1>6 DEF LiveSlots, Holds
<1>8. LiveSlots(id) = {i}
  BY <1>3, LiveSlotsAtMostOne
<1>9. \A other \in Ids : other # id => i \notin LiveSlots(other)
  BY <1>3 DEF LiveSlots, Holds
<1>10. QED
  BY <1>3, <1>5, <1>7, <1>8, <1>9

LEMMA RemoveInv ==
  ASSUME Inv, NEW id \in RequestIds, NEW i \in 1 .. Len(slots), Remove(id, i)
  PROVE  Inv'
<1>1. /\ id \in Ids /\ i \in LiveSlots(id)
      /\ slots' \in Seq(Slot) /\ Len(slots') = Len(slots)
      /\ \A other \in Ids : LiveSlots(other)' =
           IF other = id THEN {} ELSE LiveSlots(other)
  BY RemovedLive
<1>2. /\ destroyed' = [destroyed EXCEPT ![id] = @ + 1]
      /\ capacity' = capacity /\ allocated' = allocated
      /\ nextId' = nextId /\ closed' = closed
  BY DEF Remove
<1>3. TypeOK' /\ WithinAllocation'
  BY <1>1, <1>2 DEF Inv, TypeOK, WithinAllocation
<1>4. Issued' = Issued
  BY <1>2 DEF Issued
<1>5. UniqueHolders
  BY UniqueHoldersIff DEF Inv, TypeOK
<1>6. UniqueHolders'
  <2> SUFFICES ASSUME NEW other \in Ids
               PROVE  /\ \A j, k \in LiveSlots(other)' : j = k
                      /\ LiveSlots(other)' # {} => other \in Issued'
    BY DEF UniqueHolders
  <2>1. CASE other = id
    BY <1>1, <2>1
  <2>2. CASE other # id
    <3>1. LiveSlots(other)' = LiveSlots(other)
      BY <1>1, <2>2
    <3>2. QED
      BY <1>4, <1>5, <3>1 DEF UniqueHolders
  <2>3. QED
    BY <2>1, <2>2
<1>7. LiveIdsUnique'
  BY <1>1, <1>6, UniqueHoldersIffNext
<1>8. id \in Issued /\ destroyed[id] = 0
  BY <1>1, <1>5 DEF UniqueHolders, Inv, DestroyedOnce
<1>9. DestroyedOnce'
  BY <1>1, <1>2, <1>4, <1>8 DEF Inv, DestroyedOnce, TypeOK
<1>10. QED
  BY <1>3, <1>7, <1>9 DEF Inv

LEMMA LiveCardinality ==
  ASSUME Inv, NEW id \in Ids
  PROVE  Cardinality(LiveSlots(id)) = IF LiveSlots(id) = {} THEN 0 ELSE 1
<1>1. CASE LiveSlots(id) = {}
  BY <1>1, FS_EmptySet
<1>2. CASE LiveSlots(id) # {}
  <2>1. PICK i \in LiveSlots(id) : TRUE
    BY <1>2
  <2>2. \A j \in LiveSlots(id) : j = i
    BY LiveSlotsAtMostOne
  <2>3. LiveSlots(id) = {i}
    BY <2>1, <2>2
  <2>4. QED
    BY <1>2, <2>3, FS_Singleton
<1>3. QED
  BY <1>1, <1>2

(* At exit each live object goes through its destructor, once.             *)
LEMMA RemoveAllInv ==
  ASSUME Inv, RemoveAll
  PROVE  Inv'
<1>1. /\ slots' = <<>> /\ capacity' = 0 /\ allocated' = 0
      /\ nextId' = nextId /\ closed' = TRUE
      /\ destroyed' =
           [id \in Ids |-> destroyed[id] + Cardinality(LiveSlots(id))]
  BY DEF RemoveAll
<1>2. \A id \in Ids :
        Cardinality(LiveSlots(id)) = IF LiveSlots(id) = {} THEN 0 ELSE 1
  BY LiveCardinality
<1>3. slots' \in Seq(Slot) /\ \A id \in Ids : LiveSlots(id)' = {}
  BY <1>1 DEF LiveSlots
<1>4. TypeOK' /\ WithinAllocation'
  BY <1>1, <1>2, <1>3, TableAssumption DEF Inv, TypeOK, WithinAllocation
<1>5. LiveIdsUnique'
  BY <1>3, UniqueHoldersIffNext DEF UniqueHolders
<1>6. Issued' = Issued
  BY <1>1 DEF Issued
<1>7. \A id \in Ids : LiveSlots(id) # {} => id \in Issued
  BY UniqueHoldersIff DEF Inv, TypeOK, UniqueHolders
<1>8. DestroyedOnce'
  BY <1>1, <1>2, <1>3, <1>6, <1>7 DEF Inv, DestroyedOnce
<1>9. QED
  BY <1>4, <1>5, <1>8 DEF Inv
-----------------------------------------------------------------------------
LEMMA QuietInv ==
  ASSUME Inv, UNCHANGED <<table, destroyed, closed>>
  PROVE  Inv'
BY DEF table, Inv, TypeOK, WithinAllocation, LiveIdsUnique, DestroyedOnce, Issued,
       LiveSlots, Holds, Live

LEMMA AppendInserts ==
  ASSUME NEW v \in Objects, InsertAppend(v)
  PROVE  Inserts(v)
BY DEF InsertAppend, CanIssue, Inserts

LEMMA ReuseInserts ==
  ASSUME NEW v \in Objects, NEW i \in 1 .. Len(slots), InsertReuse(v, i)
  PROVE  Inserts(v)
<1>1. /\ nextId # 0 /\ Issue /\ ~Live(i)
      /\ slots' = [slots EXCEPT ![i] = Fresh(v)]
  BY DEF InsertReuse, CanIssue, FirstDead
<1>2. QED
  BY <1>1 DEF Inserts

(* The array has room for one more slot, or grows to have it.              *)
LEMMA AppendInv ==
  ASSUME Inv, NEW v \in Objects, InsertAppend(v)
  PROVE  Inv'
<1>1. Inserts(v)
  BY AppendInserts
<1>2. Len(slots) \in Nat /\ Len(slots') = Len(slots) + 1
  BY DEF Inv, TypeOK, InsertAppend
<1>3. CASE HasRoom
  <2>1. /\ Len(slots) # capacity /\ capacity' = capacity
        /\ allocated' = allocated
    BY <1>3 DEF HasRoom
  <2>2. QED
    BY <1>1, <1>2, <2>1, InsertInv DEF Inv, TypeOK, WithinAllocation
<1>4. CASE Grow
  <2>0. /\ Len(slots) = capacity
        /\ CanGrow(Doubled(capacity)) /\ capacity' = Doubled(capacity)
        /\ allocated' = (capacity' * SlotSize) % (SizeMax + 1)
    BY <1>4 DEF Grow
  <2>1. capacity' \in Nat /\ capacity' <= SizeMax \div SlotSize
    BY <2>0, DoubledType DEF CanGrow, Inv, TypeOK
  <2>2. capacity' * SlotSize <= SizeMax /\ capacity' \in 0 .. SizeMax
    BY <2>1, DivFits
  <2>3. capacity' > capacity
    BY <2>0, <2>1, TableAssumption DEF CanGrow, Doubled, Inv, TypeOK
  <2>4. allocated' = capacity' * SlotSize /\ allocated' \in 0 .. SizeMax
    <3> DEFINE bytes == capacity' * SlotSize
    <3>1. SlotSize \in Nat /\ SizeMax \in Nat
      BY TableAssumption
    <3>2. bytes \in Nat
      BY <2>1, <3>1, ProductType
    <3>3. bytes <= SizeMax
      BY <2>2
    <3>4. allocated' = bytes % (SizeMax + 1)
      BY <2>0
    <3> HIDE DEF bytes
    <3>5. allocated' = bytes /\ allocated' \in 0 .. SizeMax
      BY <3>1, <3>2, <3>3, <3>4
    <3>6. QED
      BY <3>5 DEF bytes
  <2>5. Len(slots') <= capacity'
    BY <1>2, <2>0, <2>1, <2>3 DEF Inv, TypeOK
  <2>6. WithinAllocation'
    <3> DEFINE bytes == capacity' * SlotSize
    <3>1. allocated' = bytes /\ allocated' \in Nat
      BY <2>4
    <3> HIDE DEF bytes
    <3>2. bytes <= allocated'
      BY <3>1
    <3>3. QED
      BY <2>5, <3>2 DEF WithinAllocation, bytes
  <2>7. QED
    BY <1>1, <2>2, <2>4, <2>6, InsertInv
<1>5. QED
  BY <1>3, <1>4 DEF InsertAppend

LEMMA ReuseInv ==
  ASSUME Inv, NEW v \in Objects, NEW i \in 1 .. Len(slots), InsertReuse(v, i)
  PROVE  Inv'
<1>1. Inserts(v)
  BY ReuseInserts
<1>2. /\ Len(slots') = Len(slots) /\ capacity' = capacity
      /\ allocated' = allocated
  <2>1. /\ slots' = [slots EXCEPT ![i] = Fresh(v)] /\ capacity' = capacity
        /\ allocated' = allocated /\ slots \in Seq(Slot)
    BY DEF Inv, TypeOK, InsertReuse
  <2>2. QED
    BY <2>1
<1>3. /\ WithinAllocation' /\ capacity' \in 0 .. SizeMax
      /\ allocated' \in 0 .. SizeMax
  BY <1>2 DEF Inv, TypeOK, WithinAllocation
<1>4. QED
  BY <1>1, <1>3, InsertInv

LEMMA InitInv == Init => Inv
<1> SUFFICES ASSUME Init PROVE Inv
  OBVIOUS
<1>1. TypeOK /\ WithinAllocation
  <2>1. TypeOK
    <3>1. 1 \in 0 .. MaxId /\ 0 \in 0 .. SizeMax
      BY TableAssumption
    <3>2. <<>> \in Seq(Slot) /\ [id \in Ids |-> 0] \in [Ids -> Nat]
      OBVIOUS
    <3>3. QED
      BY <3>1, <3>2 DEF Init, TypeOK
  <2>2. 0 * SlotSize = 0 /\ 0 <= SizeMax
    BY TableAssumption
  <2>3. WithinAllocation
    BY <2>2 DEF Init, WithinAllocation
  <2>4. QED
    BY <2>1, <2>3
<1>2. LiveIdsUnique /\ \A id \in Ids : LiveSlots(id) = {} /\ id \notin Issued
  BY DEF Init, LiveIdsUnique, LiveSlots, Issued
<1>3. DestroyedOnce
  BY <1>2 DEF Init, DestroyedOnce
<1>4. QED
  BY <1>1, <1>2, <1>3 DEF Inv

LEMMA NextInv ==
  ASSUME Inv, [Next]_vars
  PROVE  Inv'
<1>1. CASE InsertNull \/ InsertExhausted \/ InsertTooLarge \/ InsertNoMemory
  BY <1>1, QuietInv
     DEF InsertNull, InsertExhausted, InsertTooLarge, InsertNoMemory,
         RefuseInsert
<1>2. CASE \E v \in Objects :
             InsertAppend(v) \/ \E i \in 1 .. Len(slots) : InsertReuse(v, i)
  BY <1>2, AppendInv, ReuseInv
<1>3. CASE \E id \in RequestIds : Lookup(id) \/ RemoveUnknown(id)
  BY <1>3, QuietInv DEF Lookup, RemoveUnknown
<1>4. CASE \E id \in RequestIds : \E i \in 1 .. Len(slots) : Remove(id, i)
  BY <1>4, RemoveInv
<1>5. CASE RemoveAll
  BY <1>5, RemoveAllInv
<1>6. CASE Exited \/ UNCHANGED vars
  BY <1>6, QuietInv DEF Exited, vars, table
<1>7. QED
  BY <1>1, <1>2, <1>3, <1>4, <1>5, <1>6 DEF Next

THEOREM Invariance == Spec => []Inv
BY InitInv, NextInv, PTL DEF Spec

(* The slots, sizes and counters keep their types and widths: no live slot *)
(* ever has the id 0 that means failure.                                   *)
THEOREM TypeCorrect == Spec => []TypeOK
<1>1. Inv => TypeOK
  BY DEF Inv
<1>2. QED
  BY <1>1, Invariance, PTL

(* No insert writes past the array, at any size and any width of size_t.   *)
THEOREM MemorySafe == Spec => []WithinAllocation
<1>1. Inv => WithinAllocation
  BY DEF Inv
<1>2. QED
  BY <1>1, Invariance, PTL

(* An id names at most one live slot.                                      *)
THEOREM IdsAreUnique == Spec => []LiveIdsUnique
<1>1. Inv => LiveIdsUnique
  BY DEF Inv
<1>2. QED
  BY <1>1, Invariance, PTL

(* Every object issued an id is destroyed exactly once, by its removal or  *)
(* at exit.                                                                *)
THEOREM DestroyedExactlyOnce == Spec => []DestroyedOnce
<1>1. Inv => DestroyedOnce
  BY DEF Inv
<1>2. QED
  BY <1>1, Invariance, PTL
-----------------------------------------------------------------------------
(* The array implements the store: what Store!Spec sees of each operation. *)
StoreBar == [id \in Ids |-> Resolved(id)]

NextBar == IF nextId = 0 THEN MaxId + 1 ELSE nextId

(* In a table where ids are unique, an id with a slot resolves to it.      *)
LEMMA ResolvedIs ==
  ASSUME Inv, NEW id \in Ids, NEW i \in LiveSlots(id)
  PROVE  Resolved(id) = slots[i].value /\ Resolved(id) \in Objects
<1>1. (CHOOSE j \in LiveSlots(id) : TRUE) = i
  BY LiveSlotsAtMostOne
<1>2. slots[i] \in Slot
  BY DEF LiveSlots, Inv, TypeOK
<1>3. QED
  BY <1>1, <1>2 DEF Resolved, Slot

LEMMA ResolvedIsNull ==
  ASSUME Inv, NEW id \in Ids
  PROVE  Resolved(id) = Null <=> LiveSlots(id) = {}
BY ResolvedIs, TableAssumption DEF Resolved

(* Where an id's slots stay as they are, it resolves to the same object.   *)
LEMMA ResolvedStays ==
  ASSUME Inv, Inv', NEW id \in Ids, LiveSlots(id)' = LiveSlots(id),
         \A i \in LiveSlots(id) : slots'[i].value = slots[i].value
  PROVE  Resolved(id)' = Resolved(id)
<1>1. CASE LiveSlots(id) = {}
  BY <1>1 DEF Resolved
<1>2. CASE LiveSlots(id) # {}
  <2>1. PICK i \in LiveSlots(id) : \A j \in LiveSlots(id) : j = i
    BY <1>2, LiveSlotsAtMostOne
  <2>2. (CHOOSE j \in LiveSlots(id) : TRUE) = i
    BY <2>1
  <2>3. QED
    BY <1>2, <2>1, <2>2 DEF Resolved
<1>3. QED
  BY <1>1, <1>2

(* Inserting binds the next id to the object and no other id to another.   *)
LEMMA InsertedResolves ==
  ASSUME Inv, Inv', NEW v \in Objects, Inserts(v), NEW id \in Ids
  PROVE  Resolved(id)' = IF id = nextId THEN v ELSE Resolved(id)
<1>1. PICK k \in 1 .. Len(slots') :
        /\ slots'[k] = Fresh(v)
        /\ \A other \in Ids : LiveSlots(other)' =
             IF other = nextId THEN {k} ELSE LiveSlots(other)
        /\ \A j \in 1 .. Len(slots') : j # k => slots'[j] = slots[j]
  BY InsertedLive
<1>2. CASE id = nextId
  <2>1. LiveSlots(id)' = {k}
    BY <1>1, <1>2
  <2>2. slots'[k].value = v
    BY <1>1 DEF Fresh
  <2>3. Resolved(id)' = IF LiveSlots(id)' = {} THEN Null
                        ELSE slots'[CHOOSE i \in LiveSlots(id)' : TRUE].value
    BY DEF Resolved
  <2>4. (CHOOSE i \in {k} : TRUE) = k
    OBVIOUS
  <2>5. QED
    BY <1>2, <2>1, <2>2, <2>3, <2>4
<1>3. CASE id # nextId
  <2>1. LiveSlots(id)' = LiveSlots(id)
    BY <1>1, <1>3
  <2>2. k \notin LiveSlots(id)'
    <3>1. slots'[k].id = nextId
      BY <1>1 DEF Fresh
    <3>2. QED
      BY <1>3, <3>1 DEF LiveSlots, Holds
  <2>3. \A i \in LiveSlots(id)' : i \in 1 .. Len(slots')
    BY DEF LiveSlots
  <2>4. \A i \in LiveSlots(id) : slots'[i].value = slots[i].value
    BY <1>1, <2>1, <2>2, <2>3
  <2>5. QED
    BY <1>3, <2>1, <2>4, ResolvedStays
<1>4. QED
  BY <1>2, <1>3

LEMMA InsertRetains ==
  ASSUME Inv, Inv', NEW v \in Objects, Inserts(v), ~closed
  PROVE  Store!Retain(v)
<1>1. nextId \in Ids /\ NextBar = nextId
  BY NextIsUnissued DEF Inv, Inserts, NextBar
<1>2. NextBar' = nextId + 1
  BY <1>1, IssueIssues, TableAssumption
     DEF NextBar, Inserts, Inv, TypeOK
<1>3. StoreBar' = [StoreBar EXCEPT ![nextId] = v]
  BY <1>1, InsertedResolves DEF StoreBar
<1>4. /\ answer' = Store!Inserted(nextId)
      /\ destroyed' = destroyed /\ closed' = closed
  BY DEF Inserts, Issue, Inserted, Store!Inserted
<1>5. QED
  BY <1>1, <1>2, <1>3, <1>4 DEF Store!Retain, Store!Ids, Ids, StoreBar, NextBar

LEMMA RemoveDiscards ==
  ASSUME Inv, Inv', NEW id \in RequestIds, NEW i \in 1 .. Len(slots),
         Remove(id, i)
  PROVE  Store!Discard(id)
<1>1. /\ id \in Ids /\ i \in LiveSlots(id)
      /\ slots' \in Seq(Slot) /\ Len(slots') = Len(slots)
      /\ \A other \in Ids : LiveSlots(other)' =
           IF other = id THEN {} ELSE LiveSlots(other)
  BY RemovedLive
<1>2. Resolved(id) # Null
  BY <1>1, ResolvedIsNull
<1>3. \A j \in 1 .. Len(slots) : slots'[j].value = slots[j].value
  <2>1. slots' = [slots EXCEPT ![i].live = FALSE] /\ slots \in Seq(Slot)
    BY DEF Remove, Inv, TypeOK
  <2>2. QED
    BY <2>1 DEF Slot
<1>4. ASSUME NEW other \in Ids
      PROVE  Resolved(other)' = IF other = id THEN Null ELSE Resolved(other)
  <2>1. CASE other = id
    BY <1>1, <2>1 DEF Resolved
  <2>2. CASE other # id
    <3>1. LiveSlots(other)' = LiveSlots(other)
      BY <1>1, <2>2
    <3>2. \A j \in LiveSlots(other) : slots'[j].value = slots[j].value
      BY <1>3 DEF LiveSlots
    <3>3. QED
      BY <2>2, <3>1, <3>2, ResolvedStays
  <2>3. QED
    BY <2>1, <2>2
<1>5. StoreBar' = [StoreBar EXCEPT ![id] = Null]
  BY <1>1, <1>4 DEF StoreBar
<1>6. /\ destroyed' = [destroyed EXCEPT ![id] = @ + 1]
      /\ answer' = Store!Removed(id, 1)
      /\ NextBar' = NextBar /\ closed' = closed /\ ~closed
  BY DEF Remove, Removed, Store!Removed, NextBar
<1>7. StoreBar[id] # Null
  BY <1>1, <1>2 DEF StoreBar
<1>8. QED
  BY <1>1, <1>5, <1>6, <1>7
     DEF Store!Discard, Store!Ids, Ids, StoreBar, NextBar

LEMMA LookupFinds ==
  ASSUME Inv, Inv', NEW id \in RequestIds, Lookup(id)
  PROVE  Store!Find(id)
<1>1. UNCHANGED <<slots, nextId, destroyed, closed>> /\ ~closed
  BY DEF Lookup, table
<1>2. StoreBar' = StoreBar /\ NextBar' = NextBar
  BY <1>1 DEF StoreBar, NextBar, Resolved, LiveSlots, Holds
<1>3. answer' = Found(id, IF id \in Ids THEN StoreBar[id] ELSE Null)
  <2>1. CASE \E i \in 1 .. Len(slots) :
               First(i, id) /\ answer' = Found(id, slots[i].value)
    <3>1. PICK i \in 1 .. Len(slots) :
            First(i, id) /\ answer' = Found(id, slots[i].value)
      BY <2>1
    <3>2. slots[i] \in Slot
      BY DEF Inv, TypeOK
    <3>3. id \in Ids /\ i \in LiveSlots(id)
      BY <3>1, <3>2 DEF First, Holds, LiveSlots, Slot
    <3>4. Resolved(id) = slots[i].value
      BY <3>3, ResolvedIs
    <3>5. QED
      BY <3>1, <3>3, <3>4 DEF StoreBar
  <2>2. CASE Absent(id) /\ answer' = Found(id, Null)
    <3>1. LiveSlots(id) = {}
      BY <2>2 DEF Absent, LiveSlots
    <3>2. Resolved(id) = Null
      BY <3>1 DEF Resolved
    <3>3. QED
      BY <2>2, <3>2 DEF StoreBar
  <2>3. QED
    BY <2>1, <2>2 DEF Lookup
<1>4. QED
  BY <1>1, <1>2, <1>3
     DEF Store!Find, Store!Found, Found, Store!Ids, Ids, StoreBar, NextBar

LEMMA RemoveUnknownDiscardsNothing ==
  ASSUME Inv, Inv', NEW id \in RequestIds, RemoveUnknown(id)
  PROVE  Store!DiscardUnknown(id)
<1>1. /\ UNCHANGED <<slots, nextId, destroyed, closed>> /\ ~closed
      /\ answer' = Removed(id, 0)
  BY DEF RemoveUnknown, table
<1>2. StoreBar' = StoreBar /\ NextBar' = NextBar
  BY <1>1 DEF StoreBar, NextBar, Resolved, LiveSlots, Holds
<1>3. LiveSlots(id) = {}
  BY DEF RemoveUnknown, Absent, LiveSlots
<1>4. id \in Ids => StoreBar[id] = Null
  BY <1>3 DEF StoreBar, Resolved
<1>5. QED
  BY <1>1, <1>2, <1>4
     DEF Store!DiscardUnknown, Store!Removed, Removed, Store!Ids, Ids,
         StoreBar, NextBar

LEMMA RefusalRefuses ==
  ASSUME RefuseInsert
  PROVE  Store!Refuse
<1>1. StoreBar' = StoreBar /\ NextBar' = NextBar
  BY DEF RefuseInsert, table, StoreBar, NextBar, Resolved, LiveSlots, Holds
<1>2. QED
  BY <1>1 DEF RefuseInsert, Store!Refuse, Store!Inserted, Inserted, StoreBar,
              NextBar

LEMMA RemoveAllCloses ==
  ASSUME Inv, Inv', RemoveAll
  PROVE  Store!Close
<1>1. \A id \in Ids : LiveSlots(id)' = {}
  BY DEF RemoveAll, LiveSlots
<1>2. StoreBar' = [id \in Ids |-> Null]
  BY <1>1 DEF StoreBar, Resolved
<1>3. \A id \in Ids : StoreBar[id] = Null <=> LiveSlots(id) = {}
  BY ResolvedIsNull DEF StoreBar
<1>4. destroyed' = [id \in Ids |->
        IF StoreBar[id] # Null THEN destroyed[id] + 1 ELSE destroyed[id]]
  BY <1>3, LiveCardinality DEF RemoveAll, Inv, TypeOK
<1>5. /\ ~closed /\ closed' = TRUE /\ NextBar' = NextBar /\ answer' = answer
  BY DEF RemoveAll, NextBar
<1>6. QED
  BY <1>2, <1>4, <1>5 DEF Store!Close, Store!Ids, Ids, StoreBar, NextBar

LEMMA InitImplements == Init => Store!Init
<1> SUFFICES ASSUME Init PROVE Store!Init
  OBVIOUS
<1>1. StoreBar = [id \in Ids |-> Null]
  BY DEF Init, StoreBar, Resolved, LiveSlots
<1>2. NextBar = 1
  BY DEF Init, NextBar
<1>3. QED
  BY <1>1, <1>2 DEF Init, Store!Init, Store!Ids, Ids, Store!Inserted, Inserted,
                    StoreBar, NextBar

LEMMA NextImplements ==
  ASSUME Inv, Inv', [Next]_vars
  PROVE  [Store!Next]_(Store!storeVars)
<1>1. CASE InsertNull \/ InsertExhausted \/ InsertTooLarge \/ InsertNoMemory
  BY <1>1, RefusalRefuses
     DEF InsertNull, InsertExhausted, InsertTooLarge, InsertNoMemory,
         RefuseInsert, Store!Next
<1>2. CASE \E v \in Objects :
             InsertAppend(v) \/ \E i \in 1 .. Len(slots) : InsertReuse(v, i)
  <2>1. PICK v \in Objects :
             InsertAppend(v) \/ \E i \in 1 .. Len(slots) : InsertReuse(v, i)
    BY <1>2
  <2>2. Inserts(v) /\ ~closed
    BY <2>1, AppendInserts, ReuseInserts DEF InsertAppend, InsertReuse
  <2>3. QED
    BY <2>2, InsertRetains DEF Store!Next
<1>3. CASE \E id \in RequestIds : Lookup(id) \/ RemoveUnknown(id)
  BY <1>3, LookupFinds, RemoveUnknownDiscardsNothing
     DEF Store!Next, Store!RequestIds, RequestIds
<1>4. CASE \E id \in RequestIds : \E i \in 1 .. Len(slots) : Remove(id, i)
  BY <1>4, RemoveDiscards DEF Store!Next, Store!RequestIds, RequestIds
<1>5. CASE RemoveAll
  BY <1>5, RemoveAllCloses DEF Store!Next
<1>6. CASE Exited \/ UNCHANGED vars
  <2>1. UNCHANGED vars
    BY <1>6 DEF Exited
  <2>2. StoreBar' = StoreBar /\ NextBar' = NextBar
    BY <2>1 DEF vars, table, StoreBar, NextBar, Resolved, LiveSlots, Holds
  <2>3. QED
    BY <2>1, <2>2 DEF vars, table, Store!storeVars, StoreBar, NextBar
<1>7. QED
  BY <1>1, <1>2, <1>3, <1>4, <1>5, <1>6 DEF Next

(* The array of slots, with its reuse, growth and failures, implements the *)
(* store: every behaviour of the table is one of HandleStore.              *)
THEOREM TableImplementsStore == Spec => ImplementsStore
<1>1. Inv /\ Inv' /\ [Next]_vars => [Store!Next]_(Store!storeVars)
  BY NextImplements
<1>2. QED
  BY <1>1, InitImplements, Invariance, PTL DEF Spec, ImplementsStore, Store!Spec
=============================================================================
