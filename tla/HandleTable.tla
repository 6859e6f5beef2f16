---------------------------- MODULE HandleTable -----------------------------
(***************************************************************************)
(* The generated C table of one opaque type: an array of slots that grows  *)
(* by doubling, dead slots that are filled again, and a counter of ids     *)
(* that ends at zero.  It implements HandleStore.                          *)
(*                                                                         *)
(* The C array has `capacity` slots of which the first `length` have been  *)
(* written; `slots` is that prefix, so length is Len(slots).               *)
(***************************************************************************)
EXTENDS Naturals, Sequences, FiniteSets

CONSTANTS
  Objects,          \* pointers the legacy constructors return
  Null,             \* NULL
  MaxId,            \* UINT64_MAX, scaled down
  SizeMax,          \* SIZE_MAX, scaled down
  SlotSize,         \* sizeof(handle_slot)
  InitialCapacity   \* 8, scaled down

ASSUME TableAssumption ==
  /\ Null \notin Objects
  /\ MaxId \in Nat \ {0}
  /\ SizeMax \in Nat \ {0}
  /\ SlotSize \in Nat \ {0}
  /\ InitialCapacity \in Nat \ {0}
  /\ InitialCapacity * SlotSize <= SizeMax

VARIABLES
  slots,      \* handle_slots[0 .. handle_length - 1]
  capacity,   \* handle_capacity
  allocated,  \* bytes of the block handle_slots points to
  nextId,     \* handle_next_id
  destroyed,  \* ghost: id -> how often the destructor got its object
  closed,     \* main is past release_all_handles
  answer      \* what the last operation returned

table == <<slots, capacity, allocated, nextId>>
vars == <<table, destroyed, closed, answer>>

Ids == 1 .. MaxId
Slot == [id : Ids, value : Objects, live : BOOLEAN]

Inserted(id) == [op |-> "insert", arg |-> 0, id |-> id]
Found(id, v) == [op |-> "lookup", arg |-> id, value |-> v]
Removed(id, n) == [op |-> "remove", arg |-> id, id |-> n]

Init ==
  /\ slots = <<>>
  /\ capacity = 0 /\ allocated = 0
  /\ nextId = 1
  /\ destroyed = [id \in Ids |-> 0]
  /\ closed = FALSE
  /\ answer = Inserted(0)
-----------------------------------------------------------------------------
Live(i) == slots[i].live
Holds(i, id) == slots[i].live /\ slots[i].id = id

(* uint64_t and size_t arithmetic.                                         *)
Increment(id) == (id + 1) % (MaxId + 1)
Doubled(n) == IF n = 0 THEN InitialCapacity ELSE (2 * n) % (SizeMax + 1)

(* next < capacity || next > SIZE_MAX / sizeof(slot) refuses.              *)
CanGrow(n) == n >= capacity /\ n <= SizeMax \div SlotSize

(* handle_insert: no value, no id left, an array that cannot get larger,   *)
(* or realloc returning NULL, which leaves the old block.                  *)
RefuseInsert ==
  /\ ~closed
  /\ answer' = Inserted(0)
  /\ UNCHANGED <<table, destroyed, closed>>

InsertNull == RefuseInsert

InsertExhausted == nextId = 0 /\ RefuseInsert

AllLive == \A i \in 1 .. Len(slots) : Live(i)

Full == nextId # 0 /\ AllLive /\ Len(slots) = capacity

InsertTooLarge == Full /\ ~CanGrow(Doubled(capacity)) /\ RefuseInsert

InsertNoMemory_Grown ==   \* mutant: the capacity is stored before realloc
  /\ Full /\ CanGrow(Doubled(capacity))
  /\ ~closed
  /\ answer' = Inserted(0)
  /\ capacity' = Doubled(capacity)
  /\ UNCHANGED <<slots, allocated, nextId, destroyed, closed>>

InsertNoMemory == Full /\ CanGrow(Doubled(capacity)) /\ RefuseInsert

Fresh(v) == [id |-> nextId, value |-> v, live |-> TRUE]

Issue ==
  /\ nextId' = Increment(nextId)
  /\ answer' = Inserted(nextId)
  /\ UNCHANGED <<destroyed, closed>>

CanIssue_Always == TRUE   \* mutant: the wrapped counter is used

CanIssue == nextId # 0

FirstDead_Any(i) == i \in 1 .. Len(slots)   \* mutant: live not looked at

FirstDead(i) ==
  /\ i \in 1 .. Len(slots)
  /\ ~Live(i)
  /\ \A j \in 1 .. i - 1 : Live(j)

(* The first dead slot is filled again.                                    *)
InsertReuse(v, i) ==
  /\ ~closed
  /\ CanIssue
  /\ FirstDead(i)
  /\ slots' = [slots EXCEPT ![i] = Fresh(v)]
  /\ Issue
  /\ UNCHANGED <<capacity, allocated>>

(* realloc of next * sizeof(slot) bytes, unless there is room.             *)
HasRoom == Len(slots) # capacity /\ UNCHANGED <<capacity, allocated>>

Grow ==
  /\ Len(slots) = capacity
  /\ CanGrow(Doubled(capacity))
  /\ capacity' = Doubled(capacity)
  /\ allocated' = (Doubled(capacity) * SlotSize) % (SizeMax + 1)

InsertAppend(v) ==
  /\ ~closed
  /\ CanIssue
  /\ AllLive
  /\ HasRoom \/ Grow
  /\ slots' = Append(slots, Fresh(v))
  /\ Issue
-----------------------------------------------------------------------------
(* handle_lookup.                                                          *)
First(i, id) ==
  /\ i \in 1 .. Len(slots)
  /\ Holds(i, id)
  /\ \A j \in 1 .. i - 1 : ~Holds(j, id)

Absent(id) == \A i \in 1 .. Len(slots) : ~Holds(i, id)

Lookup(id) ==
  /\ ~closed
  /\ \/ \E i \in 1 .. Len(slots) :
          First(i, id) /\ answer' = Found(id, slots[i].value)
     \/ Absent(id) /\ answer' = Found(id, Null)
  /\ UNCHANGED <<table, destroyed, closed>>

Remove_StaysLive(id, i) ==   \* mutant: live is not cleared
  /\ ~closed
  /\ First(i, id)
  /\ destroyed' = [destroyed EXCEPT ![id] = @ + 1]
  /\ answer' = Removed(id, 1)
  /\ UNCHANGED <<table, closed>>

(* handle_remove: the destructor, then live = false.                       *)
Remove(id, i) ==
  /\ ~closed
  /\ First(i, id)
  /\ destroyed' = [destroyed EXCEPT ![id] = @ + 1]
  /\ slots' = [slots EXCEPT ![i].live = FALSE]
  /\ answer' = Removed(id, 1)
  /\ UNCHANGED <<capacity, allocated, nextId, closed>>

RemoveUnknown(id) ==
  /\ ~closed
  /\ Absent(id)
  /\ answer' = Removed(id, 0)
  /\ UNCHANGED <<table, destroyed, closed>>

LiveSlots(id) == {i \in 1 .. Len(slots) : Holds(i, id)}

(* handle_remove_all, from release_all_handles at the end of main.         *)
RemoveAll ==
  /\ ~closed
  /\ destroyed' = [id \in Ids |->
       destroyed[id] + Cardinality(LiveSlots(id))]
  /\ slots' = <<>>
  /\ capacity' = 0 /\ allocated' = 0
  /\ closed' = TRUE
  /\ UNCHANGED <<nextId, answer>>

Exited == closed /\ UNCHANGED vars

RequestIds == 0 .. MaxId

Next ==
  \/ InsertNull \/ InsertExhausted \/ InsertTooLarge \/ InsertNoMemory
  \/ \E v \in Objects :
       InsertAppend(v) \/ \E i \in 1 .. Len(slots) : InsertReuse(v, i)
  \/ \E id \in RequestIds :
       Lookup(id) \/ RemoveUnknown(id)
         \/ \E i \in 1 .. Len(slots) : Remove(id, i)
  \/ RemoveAll
  \/ Exited

Spec == Init /\ [][Next]_vars
-----------------------------------------------------------------------------
TypeOK ==
  /\ slots \in Seq(Slot)
  /\ capacity \in 0 .. SizeMax /\ allocated \in 0 .. SizeMax
  /\ nextId \in 0 .. MaxId
  /\ destroyed \in [Ids -> Nat]
  /\ closed \in BOOLEAN

(* Every slot the code reads or writes lies in the block realloc gave it,  *)
(* although the doubling and the product may wrap, and realloc may fail    *)
(* between the choice of a new capacity and the use of it.                 *)
WithinAllocation ==
  /\ Len(slots) <= capacity
  /\ capacity * SlotSize <= allocated

(* The ids handed out so far; the counter at zero means all of them.       *)
Issued == IF nextId = 0 THEN Ids ELSE 1 .. nextId - 1

(* Lookup and remove stop at the first match: that is the right one only   *)
(* because no two live slots share an id, and no live slot has an id that  *)
(* is still to be issued.                                                  *)
LiveIdsUnique ==
  /\ \A i, j \in 1 .. Len(slots) :
       Live(i) /\ Live(j) /\ slots[i].id = slots[j].id => i = j
  /\ \A i \in 1 .. Len(slots) : Live(i) => slots[i].id \in Issued

(* The books balance: an issued id is either live or its object has been   *)
(* through the destructor exactly once, up to and including exit; an id    *)
(* that was never issued has destroyed nothing.                            *)
DestroyedOnce ==
  \A id \in Ids :
    destroyed[id] =
      IF id \in Issued /\ LiveSlots(id) = {} THEN 1 ELSE 0

(* The array implements the store: what a lookup of an id finds now.       *)
Resolved(id) ==
  IF LiveSlots(id) = {} THEN Null
  ELSE slots[CHOOSE i \in LiveSlots(id) : TRUE].value

Store == INSTANCE HandleStore WITH
  store <- [id \in Ids |-> Resolved(id)],
  next  <- IF nextId = 0 THEN MaxId + 1 ELSE nextId

(* Whatever slots are reused, appended or moved by realloc, callers see    *)
(* HandleStore: ids in order and never twice, an id resolving to its own   *)
(* object until it is removed and to nothing afterwards.                   *)
ImplementsStore == Store!Spec
=============================================================================
