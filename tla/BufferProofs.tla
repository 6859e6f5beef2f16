---------------------------- MODULE BufferProofs ----------------------------
(***************************************************************************)
(* The response buffer for every frame limit, width of size_t and first    *)
(* capacity.                                                               *)
(***************************************************************************)
EXTENDS Buffer, TLAPS
-----------------------------------------------------------------------------
(* Past the first test no sum wraps, and what is needed is within a frame. *)
NeedInv ==
  /\ pc \in {"grow", "realloc", "copy"} => len + want <= MaxFrame
  /\ pc = "realloc" => len + want <= local
  /\ pc \in {"grow", "realloc"} => local > 0 /\ capacity <= local

(* The message of an error is appended to nothing.                         *)
ErrorInv ==
  /\ pc = "idle" => ~erring
  /\ erring /\ pc # "send" => len = 0 /\ want <= MaxFrame

IInv == TypeOK /\ CopyFits /\ RefusesOnlyTooLong /\ NeedInv /\ ErrorInv
-----------------------------------------------------------------------------
(* Every step of an append, and every turn of the doubling, keeps it.      *)
LEMMA StepKeepsIInv ==
  ASSUME IInv, [Next]_vars
  PROVE  IInv'
<1> USE BufferAssumption
    DEF IInv, TypeOK, CopyFits, RefusesOnlyTooLong, NeedInv, ErrorInv
<1>1. CASE UNCHANGED vars
  BY <1>1 DEF vars
<1>2. ASSUME NEW n \in 0 .. SizeMax, Append(n)
      PROVE  IInv'
  <2>1. TypeOK'
    BY <1>2 DEF Append
  <2>2. CopyFits'
    BY <1>2 DEF Append
  <2>3. RefusesOnlyTooLong'
    BY <1>2 DEF Append
  <2>4. NeedInv'
    BY <1>2 DEF Append
  <2>5. ErrorInv'
    BY <1>2 DEF Append
  <2> QED BY <2>1, <2>2, <2>3, <2>4, <2>5
<1>3. ASSUME NEW m \in Messages, Error(m)
      PROVE  IInv'
  <2>1. TypeOK'
    <3>1. m \in 0 .. MaxFrame /\ m \in 0 .. SizeMax /\ 0 \in 0 .. MaxFrame
      OBVIOUS
    <3>2. /\ len' = 0 /\ pc' = "reserve" /\ want' = m
          /\ erring' = TRUE /\ refused' = FALSE
          /\ UNCHANGED <<capacity, local>>
      BY <1>3, Zenon DEF Error
    <3> QED BY <3>1, <3>2, Zenon DEF TypeOK
  <2>2. CopyFits'
    BY <1>3 DEF Error
  <2>3. RefusesOnlyTooLong'
    BY <1>3 DEF Error
  <2>4. NeedInv'
    BY <1>3 DEF Error
  <2>5. ErrorInv'
    BY <1>3 DEF Error
  <2> QED BY <2>1, <2>2, <2>3, <2>4, <2>5
<1>4. CASE Refuse
  BY <1>4 DEF Refuse, TooLong, AtLimit, Needed, Wrap
<1>5. CASE Enough
  BY <1>5 DEF Enough, TooLong, AtLimit, Needed, Wrap
<1>6. CASE Grow
  BY <1>6 DEF Grow, TooLong, AtLimit, Needed, Wrap
<1>7. CASE Double
  BY <1>7 DEF Double, TooLong, AtLimit, Needed, Wrap
<1>8. CASE Limit
  BY <1>8 DEF Limit, TooLong, AtLimit, Needed, Wrap
<1>9. CASE Grown
  BY <1>9 DEF Grown, TooLong, AtLimit, Needed, Wrap
<1>10. CASE Realloc
  BY <1>10 DEF Realloc, TooLong, AtLimit, Needed, Wrap
<1>11. CASE ReallocFails
  BY <1>11 DEF ReallocFails, TooLong, AtLimit, Needed, Wrap
<1>12. CASE Copy
  BY <1>12 DEF Copy, TooLong, AtLimit, Needed, Wrap
<1>13. CASE ErrorFails
  BY <1>13 DEF ErrorFails, TooLong, AtLimit, Needed, Wrap
<1>14. CASE Send
  <2>1. TypeOK'
    <3>1. /\ len' = 0 /\ capacity' = 0 /\ want' = 0 /\ local' = 0
          /\ pc' = "idle" /\ erring' = FALSE /\ refused' = FALSE
      BY <1>14, Zenon DEF Send
    <3>2. 0 \in 0 .. MaxFrame /\ 0 \in 0 .. SizeMax
      OBVIOUS
    <3> QED BY <3>1, <3>2, Zenon DEF TypeOK
  <2>2. CopyFits'
    BY <1>14 DEF Send
  <2>3. RefusesOnlyTooLong'
    BY <1>14 DEF Send
  <2>4. NeedInv'
    BY <1>14 DEF Send
  <2>5. ErrorInv'
    BY <1>14 DEF Send
  <2> QED BY <2>1, <2>2, <2>3, <2>4, <2>5
<1> QED BY <1>1, <1>2, <1>3, <1>4, <1>5, <1>6, <1>7, <1>8, <1>9, <1>10, <1>11,
       <1>12, <1>13, <1>14
       DEF Next, Reserve

(* An empty buffer.                                                        *)
LEMMA InitHasIInv == Init => IInv
<1> SUFFICES ASSUME Init PROVE IInv
  OBVIOUS
<1>1. /\ len = 0 /\ capacity = 0 /\ want = 0 /\ local = 0
      /\ pc = "idle" /\ erring = FALSE /\ refused = FALSE
  BY Zenon DEF Init
<1>2. 0 \in 0 .. MaxFrame /\ 0 \in 0 .. SizeMax
  BY BufferAssumption
<1>3. TypeOK
  BY <1>1, <1>2, Zenon DEF TypeOK
<1>4. CopyFits /\ NeedInv /\ ErrorInv
  BY <1>1, BufferAssumption DEF CopyFits, NeedInv, ErrorInv
<1>5. RefusesOnlyTooLong
  BY <1>1 DEF RefusesOnlyTooLong
<1> QED BY <1>3, <1>4, <1>5 DEF IInv

(* The invariant of the response buffer.                                   *)
THEOREM IInvIsInductive == Spec => []IInv
<1>1. IInv /\ [Next]_vars => IInv'
  BY StepKeepsIInv
<1> QED BY <1>1, InitHasIInv, PTL DEF Spec

(* Length and capacity stay within a frame.                                *)
THEOREM TypeCorrect == Spec => []TypeOK
<1>1. IInv => TypeOK
  BY DEF IInv
<1> QED BY <1>1, IInvIsInductive, PTL

(* buffer_append writes inside the memory that buffer_reserve left it.     *)
THEOREM AppendsFit == Spec => []CopyFits
<1>1. IInv => CopyFits
  BY DEF IInv
<1> QED BY <1>1, IInvIsInductive, PTL

(* buffer_reserve refuses by the limit what is too long, and only that.    *)
THEOREM LimitIsExact == Spec => []RefusesOnlyTooLong
<1>1. IInv => RefusesOnlyTooLong
  BY DEF IInv
<1> QED BY <1>1, IInvIsInductive, PTL
=============================================================================
