------------------------------- MODULE Buffer -------------------------------
(***************************************************************************)
(* The response buffer of the helper: buffer_reserve, buffer_append and    *)
(* buffer_error, in the arithmetic of size_t, one turn of the doubling     *)
(* loop a step.  dispatch appends until something does not fit, then calls *)
(* buffer_error and sends what it left; main starts with an empty buffer.  *)
(***************************************************************************)
EXTENDS Naturals

CONSTANTS
  SizeMax,   \* SIZE_MAX
  MaxFrame,  \* MAX_FRAME_BYTES
  Initial,   \* 64: the first capacity
  Messages   \* lengths of the texts of buffer_error

(* A schema has a max_frame_bytes of 1024 or more, and it is a u32.        *)
ASSUME BufferAssumption ==
  /\ SizeMax \in Nat /\ MaxFrame \in Nat /\ Initial \in Nat \ {0}
  /\ Initial <= MaxFrame /\ MaxFrame <= SizeMax
  /\ Messages \subseteq 0 .. MaxFrame

VARIABLES
  len, capacity,  \* Buffer
  pc,             \* where buffer_append is
  want,           \* its length, buffer_reserve's additional
  local,          \* buffer_reserve's capacity
  erring,         \* it appends the message of an error
  refused         \* ghost: the limit refused what was to be appended

vars == <<len, capacity, pc, want, local, erring, refused>>
-----------------------------------------------------------------------------
(* size_t: a sum, or twice a number, wraps around at most once.            *)
Wrap(n) == IF n <= SizeMax THEN n ELSE n - (SizeMax + 1)

Init ==
  /\ len = 0 /\ capacity = 0
  /\ pc = "idle" /\ want = 0 /\ local = 0
  /\ erring = FALSE /\ refused = FALSE

(* buffer_append: as many bytes as a legacy string may claim to have.      *)
Append(n) ==
  /\ pc = "idle"
  /\ pc' = "reserve" /\ want' = n /\ refused' = FALSE
  /\ UNCHANGED <<len, capacity, local, erring>>

TooLong_Wraps ==   \* mutant: the sum is compared
  Wrap(len + want) > MaxFrame

TooLong_OneTest ==   \* mutant: the difference is not known to be one
  len > Wrap(MaxFrame + SizeMax + 1 - want)

TooLong_OffByOne ==   \* mutant: a frame of exactly the limit
  want >= MaxFrame \/ len >= MaxFrame - want

TooLong == want > MaxFrame \/ len > MaxFrame - want

Refuse ==
  /\ pc = "reserve" /\ TooLong
  /\ pc' = "failed" /\ refused' = TRUE
  /\ UNCHANGED <<len, capacity, want, local, erring>>

Needed == Wrap(len + want)

Enough ==
  /\ pc = "reserve" /\ ~TooLong /\ Needed <= capacity
  /\ pc' = "copy"
  /\ UNCHANGED <<len, capacity, want, local, erring, refused>>

Grow ==
  /\ pc = "reserve" /\ ~TooLong /\ Needed > capacity
  /\ pc' = "grow"
  /\ local' = IF capacity = 0 THEN Initial ELSE capacity
  /\ UNCHANGED <<len, capacity, want, erring, refused>>

AtLimit_Never == FALSE   \* mutant: doubled without looking at the limit

AtLimit == local > MaxFrame \div 2

Double ==
  /\ pc = "grow" /\ local < Needed /\ ~AtLimit
  /\ local' = Wrap(local * 2)
  /\ UNCHANGED <<len, capacity, pc, want, erring, refused>>

Limit ==
  /\ pc = "grow" /\ local < Needed /\ AtLimit
  /\ pc' = "realloc" /\ local' = MaxFrame
  /\ UNCHANGED <<len, capacity, want, erring, refused>>

Grown ==
  /\ pc = "grow" /\ local >= Needed
  /\ pc' = "realloc"
  /\ UNCHANGED <<len, capacity, want, local, erring, refused>>

Realloc ==
  /\ pc = "realloc"
  /\ pc' = "copy" /\ capacity' = local
  /\ UNCHANGED <<len, want, local, erring, refused>>

ReallocFails ==
  /\ pc = "realloc"
  /\ pc' = "failed"
  /\ UNCHANGED <<len, capacity, want, local, erring, refused>>

(* memcpy; a message is the last thing that is appended.                   *)
Copy ==
  /\ pc = "copy"
  /\ pc' = IF erring THEN "send" ELSE "idle"
  /\ len' = Wrap(len + want)
  /\ UNCHANGED <<capacity, want, local, erring, refused>>

(* buffer_error keeps the memory and forgets the bytes.                    *)
Error_Keeps(m) ==   \* mutant: the length is not reset
  /\ \/ pc = "failed" /\ ~erring
     \/ pc = "idle"
  /\ pc' = "reserve" /\ want' = m /\ erring' = TRUE /\ refused' = FALSE
  /\ UNCHANGED <<len, capacity, local>>

Error(m) ==
  /\ \/ pc = "failed" /\ ~erring
     \/ pc = "idle"
  /\ len' = 0
  /\ pc' = "reserve" /\ want' = m /\ erring' = TRUE /\ refused' = FALSE
  /\ UNCHANGED <<capacity, local>>

(* A message that found no memory is left out.                             *)
ErrorFails ==
  /\ pc = "failed" /\ erring
  /\ pc' = "send"
  /\ UNCHANGED <<len, capacity, want, local, erring, refused>>

(* main sends the response and frees the buffer; the next one is empty.    *)
Send ==
  /\ pc \in {"idle", "send"}
  /\ pc' = "idle" /\ len' = 0 /\ capacity' = 0
  /\ want' = 0 /\ local' = 0 /\ erring' = FALSE /\ refused' = FALSE

Reserve == Refuse \/ Enough \/ Grow \/ Double \/ Limit \/ Grown
           \/ Realloc \/ ReallocFails

Next ==
  \/ \E n \in 0 .. SizeMax : Append(n)
  \/ Reserve \/ Copy
  \/ \E m \in Messages : Error(m)
  \/ ErrorFails \/ Send

Spec == Init /\ [][Next]_vars

(* Code that runs on; whether and what dispatch appends is its own affair. *)
FairSpec == Spec /\ WF_vars(Reserve \/ Copy)
-----------------------------------------------------------------------------
TypeOK ==
  /\ len \in 0 .. MaxFrame /\ capacity \in 0 .. MaxFrame
  /\ pc \in {"idle", "reserve", "grow", "realloc", "copy", "failed", "send"}
  /\ want \in 0 .. SizeMax /\ local \in 0 .. MaxFrame
  /\ erring \in BOOLEAN /\ refused \in BOOLEAN

(* memcpy stays inside the memory there is, whatever length a legacy       *)
(* function claims: no sum wraps on the way, and the doubling, which stops *)
(* at the limit, never stops short.                                        *)
CopyFits ==
  /\ len <= capacity
  /\ pc = "copy" => len + want <= capacity

(* The limit refuses what does not fit into a frame and nothing else, at   *)
(* exactly the limit and near SIZE_MAX too; the text of an error, for      *)
(* which the bytes before it make room, is never refused by it.            *)
RefusesOnlyTooLong ==
  /\ refused <=> pc = "failed" /\ len + want > MaxFrame
  /\ refused => ~erring

(* An append ends: the doubling reaches what is needed or the limit.       *)
AppendEnds == pc = "reserve" ~> pc \in {"idle", "failed", "send"}
=============================================================================
