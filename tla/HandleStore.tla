---------------------------- MODULE HandleStore -----------------------------
(***************************************************************************)
(* What the helper's table of opaque handles promises to the rest of the   *)
(* helper and, across the pipe, to the Rust program: ids are issued once,  *)
(* in order; an id names its object until it is discarded, and nothing     *)
(* afterwards; every object goes through its destructor exactly once.      *)
(* HandleTable is the array of slots that implements it.                   *)
(***************************************************************************)
EXTENDS Naturals

CONSTANTS
  Objects,  \* pointers the legacy constructors return
  Null,     \* NULL
  MaxId     \* the largest id: 2^64 - 1, scaled down

VARIABLES
  store,      \* id -> the object it names, or Null
  next,       \* the next id; MaxId + 1 when there is none left
  destroyed,  \* id -> how often the destructor got its object
  closed,     \* the helper has released everything and exits
  answer      \* what the last operation returned

storeVars == <<store, next, destroyed, closed, answer>>

Ids == 1 .. MaxId

(* Ids a request may carry; 0 and every id not issued name nothing.        *)
RequestIds == 0 .. MaxId

Inserted(id) == [op |-> "insert", arg |-> 0, id |-> id]
Found(id, v) == [op |-> "lookup", arg |-> id, value |-> v]
Removed(id, n) == [op |-> "remove", arg |-> id, id |-> n]

Init ==
  /\ store = [id \in Ids |-> Null]
  /\ next = 1
  /\ destroyed = [id \in Ids |-> 0]
  /\ closed = FALSE
  /\ answer = Inserted(0)

Retain(v) ==
  /\ ~closed
  /\ next \in Ids
  /\ store' = [store EXCEPT ![next] = v]
  /\ next' = next + 1
  /\ answer' = Inserted(next)
  /\ UNCHANGED <<destroyed, closed>>

(* No object, no id or no memory is left for it.                           *)
Refuse ==
  /\ ~closed
  /\ answer' = Inserted(0)
  /\ UNCHANGED <<store, next, destroyed, closed>>

Find(id) ==
  /\ ~closed
  /\ answer' = Found(id, IF id \in Ids THEN store[id] ELSE Null)
  /\ UNCHANGED <<store, next, destroyed, closed>>

Discard(id) ==
  /\ ~closed
  /\ id \in Ids
  /\ store[id] # Null
  /\ store' = [store EXCEPT ![id] = Null]
  /\ destroyed' = [destroyed EXCEPT ![id] = @ + 1]
  /\ answer' = Removed(id, 1)
  /\ UNCHANGED <<next, closed>>

DiscardUnknown(id) ==
  /\ ~closed
  /\ id \in Ids => store[id] = Null
  /\ answer' = Removed(id, 0)
  /\ UNCHANGED <<store, next, destroyed, closed>>

Close ==
  /\ ~closed
  /\ destroyed' = [id \in Ids |->
       IF store[id] # Null THEN destroyed[id] + 1 ELSE destroyed[id]]
  /\ store' = [id \in Ids |-> Null]
  /\ closed' = TRUE
  /\ UNCHANGED <<next, answer>>

Next ==
  \/ \E v \in Objects : Retain(v)
  \/ Refuse
  \/ \E id \in RequestIds : Find(id) \/ Discard(id) \/ DiscardUnknown(id)
  \/ Close

Spec == Init /\ [][Next]_storeVars
=============================================================================
