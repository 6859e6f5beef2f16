---------------------------- MODULE BridgeProofs ----------------------------
(***************************************************************************)
(* What Bridge guarantees for every number of threads, addresses, objects, *)
(* calls and restarts, every header length and every amount of stray       *)
(* output, in three parts that rest on each other:                         *)
(*                                                                         *)
(*   1. its types, that pointer equality is identity, that retiring a      *)
(*      broken connection never loses a live helper, that a Connection a   *)
(*      call has reported dead is not handed out again, and that the       *)
(*      response a call takes off the pipe is its own;                     *)
(*   2. that a handle stays good as long as its helper lives;              *)
(*   3. that nothing leaks in a live helper.                               *)
(***************************************************************************)
EXTENDS Bridge, SequenceTheorems, FiniteSetTheorems, TLAPS

(* The inductive invariant.  An address no Arc points to is free, which is *)
(* what makes a new Connection's address safe to take; a thread that is    *)
(* about to retire a Connection has seen its helper dead.                  *)
FreeIsUnreferenced ==
  \A a \in Addrs : conn[a].gen = 0 => ~Referenced(a)

InsideHasConnection ==
  \A t \in Threads : thread[t].pc # "idle" => thread[t].at \in Addrs

RetiresDead ==
  \A t \in Threads :
    thread[t].pc = "retire" => ~conn[thread[t].at].running

Inv ==
  /\ TypeOK
  /\ InsideHasConnection
  /\ FreeIsUnreferenced
  /\ ArcIdentity
  /\ RetiresDead
  /\ LiveHelperIsCurrent
-----------------------------------------------------------------------------
(* Typing lemmas.                                                          *)
LEMMA FreeType == Free \in Connection
BY BridgeAssumption DEF Free, Connection

LEMMA NoResponseType == NoResponse \in Response
BY DEF NoResponse, Response, Ops

LEMMA IdleType == Idle \in Thread
BY NoResponseType DEF Idle, Thread, PCs, Ops

(* What is left of the pipe is a sequence of cells again.                  *)
LEMMA RestType ==
  ASSUME NEW S, NEW s \in Seq(S), NEW n \in Nat
  PROVE  Rest(s, n) \in Seq(S)
BY DEF Rest

LEMMA FrameType ==
  ASSUME NEW r \in Response
  PROVE  Frame(r) \in Seq(Cell)
BY BridgeAssumption DEF Frame, BodyLen, Cell

LEMMA NoisesType ==
  ASSUME NEW n \in Nat
  PROVE  Noises(n) \in Seq(Cell)
BY NoResponseType DEF Noises, Noise, Cell

LEMMA LockedType ==
  ASSUME NEW r \in Connection, NEW t \in Threads, NEW n \in 1 .. MaxRequestId
  PROVE  [r EXCEPT !.lock = t, !.nextRequestId = n] \in Connection
BY DEF Connection

LEMMA RequestedType ==
  ASSUME NEW r \in Connection, NEW q \in Request
  PROVE  [r EXCEPT !.stdin = Append(@, q)] \in Connection
<1>1. Append(r.stdin, q) \in Seq(Request)
  BY DEF Connection
<1>2. QED
  BY <1>1, Zenon DEF Connection

LEMMA FlushedType ==
  ASSUME NEW r \in Connection, NEW s \in Seq(Cell), NEW u \in Seq(Cell)
  PROVE  [r EXCEPT !.stdout = s, !.stdio = u] \in Connection
BY Zenon DEF Connection

(* A dead helper takes its input, its unflushed output and its objects     *)
(* with it.                                                                *)
LEMMA CrashedType ==
  ASSUME NEW r \in Connection
  PROVE  [r EXCEPT !.running = FALSE, !.stdin = <<>>, !.stdio = <<>>,
                   !.objects = {}] \in Connection
<1>1. /\ <<>> \in Seq(Request) /\ <<>> \in Seq(Cell)
      /\ {} \in SUBSET [id : Nat, token : Nat]
  OBVIOUS
<1>2. QED
  BY <1>1, Zenon DEF Connection

LEMMA UnlockedType ==
  ASSUME TypeOK, NEW t \in Threads
  PROVE  Unlocked(t) \in [Addrs -> Connection]
BY DEF TypeOK, Unlocked, Connection

LEMMA TakenType ==
  ASSUME NEW c \in [Addrs -> Connection], NEW a \in Addrs, NEW n \in Nat
  PROVE  Taken(c, a, n) \in [Addrs -> Connection]
BY RestType DEF Taken, Connection

LEMMA ReturnType ==
  ASSUME TypeOK, NEW t \in Threads, NEW c \in [Addrs -> Connection],
         Return(t, c)
  PROVE  /\ conn' \in [Addrs -> Connection]
         /\ thread' \in [Threads -> Thread]
BY FreeType, IdleType DEF TypeOK, Return, DropUnreferenced

LEMMA ReportsType ==
  ASSUME TypeOK, NEW t \in Threads, NEW why \in {"dead", "corrupt"},
         Reports(t, why)
  PROVE  reported' \subseteq Report
BY DEF TypeOK, Reports, Report, Thread

LEMMA EnterType ==
  ASSUME TypeOK, NEW t \in Threads, NEW op \in Ops,
         NEW h \in Handle \cup {NoHandle}, NEW a \in Addrs, NEW g \in Nat,
         Enter(t, op, h, a, g), calls < MaxCalls
  PROVE  /\ thread' \in [Threads -> Thread]
         /\ calls' \in 0 .. MaxCalls
<1> DEFINE th == [pc |-> "encode", op |-> op, at |-> a, gen |-> g, arg |-> h,
                  rid |-> 0, token |-> calls + 1, reply |-> NoResponse]
<1>1. calls + 1 \in Nat /\ calls' \in 0 .. MaxCalls
  BY BridgeAssumption DEF TypeOK, Enter
<1>2. th \in Thread
  <2>1. "encode" \in PCs
    BY DEF PCs
  <2>2. QED
    BY <1>1, <2>1, NoResponseType DEF Thread
<1>3. thread' = [thread EXCEPT ![t] = th]
  BY DEF Enter
<1>4. QED
  <2> HIDE DEF th
  <2> QED BY <1>1, <1>2, <1>3 DEF TypeOK

LEMMA BreakType ==
  ASSUME TypeOK, NEW t \in Threads, NEW c \in [Addrs -> Connection],
         Break(t, c)
  PROVE  TypeOK'
<1>1. CASE thread[t].op = "drop"
  <2>1. Return(t, c) /\ Reports(t, "dead") /\ UNCHANGED <<current, handles>>
    BY <1>1 DEF Break
  <2>2. reported' \subseteq Report
    BY <2>1, ReportsType
  <2>3. conn' \in [Addrs -> Connection] /\ thread' \in [Threads -> Thread]
    BY <2>1, ReturnType
  <2>4. spawned' = spawned /\ calls' = calls
    BY <2>1 DEF Return
  <2>5. QED
    BY <2>1, <2>2, <2>3, <2>4 DEF TypeOK
<1>2. CASE thread[t].op # "drop"
  <2>1. /\ thread' = [thread EXCEPT ![t].pc = "retire"] /\ conn' = c
        /\ UNCHANGED <<current, handles, spawned, calls, reported>>
    BY <1>2 DEF Break
  <2>2. thread' \in [Threads -> Thread]
    BY <2>1 DEF TypeOK, Thread, PCs
  <2>3. QED
    BY <2>1, <2>2 DEF TypeOK
<1>3. QED
  BY <1>1, <1>2

LEMMA RespondType ==
  ASSUME TypeOK, NEW a \in Addrs, NEW ok \in BOOLEAN, NEW id \in Nat,
         NEW n \in Nat, NEW objects \in SUBSET [id : Nat, token : Nat],
         NEW next \in Nat, conn[a].stdin # <<>>,
         Respond(a, ok, id, n, objects, next)
  PROVE  TypeOK'
<1> DEFINE q == Head(conn[a].stdin)
           r == [rid |-> q.rid, op |-> q.op, ok |-> ok, id |-> id,
                 token |-> q.token]
           frame == Noises(n) \o Frame(r)
<1>1. conn[a] \in Connection
  BY DEF TypeOK
<1>2. q \in Request /\ Tail(conn[a].stdin) \in Seq(Request)
  BY <1>1 DEF Connection
<1>3. r \in Response
  BY <1>2 DEF Request, Response
<1>4. frame \in Seq(Cell)
  BY <1>3, FrameType, NoisesType
<1>5. conn' = [conn EXCEPT ![a].stdin = Tail(@), ![a].stdio = frame,
                           ![a].objects = objects, ![a].nextHandleId = next]
  BY DEF Respond
<1>6. conn' \in [Addrs -> Connection]
  <2> HIDE DEF frame
  <2> QED BY <1>1, <1>2, <1>4, <1>5 DEF TypeOK, Connection
<1>7. QED
  BY <1>6 DEF TypeOK, Respond, HelperStep
-----------------------------------------------------------------------------
(* Type correctness, action by action.                                     *)
LEMMA InitType == Init => TypeOK
BY FreeType, IdleType, BridgeAssumption DEF Init, TypeOK, Report

LEMMA StartsType ==
  ASSUME TypeOK, NEW t \in Threads, Starts(t)
  PROVE  TypeOK'
<1>1. PICK op \in {"new", "use"}, h \in handles \cup {NoHandle} :
        \/ Connect(t, op, h)
        \/ \E a \in Addrs : Spawn(t, op, h, a)
        \/ SpawnFails(t, op, h)
  BY DEF Starts
<1>2. op \in Ops /\ h \in Handle \cup {NoHandle}
  BY DEF Ops, TypeOK
<1>3. CASE Connect(t, op, h)
  <2>1. current \in Addrs /\ conn[current].gen \in Nat
    BY <1>3 DEF Connect, TypeOK, Connection
  <2>2. QED
    BY <1>2, <1>3, <2>1, EnterType DEF Connect, CallWith, Keeps, TypeOK
<1>4. CASE \E a \in Addrs : Spawn(t, op, h, a)
  <2>1. PICK a \in Addrs : Spawn(t, op, h, a)
    BY <1>4
  <2>2. spawned' \in 0 .. MaxSpawns /\ spawned + 1 \in Nat
    BY <2>1, BridgeAssumption DEF Spawn, TypeOK
  <2>3. conn' \in [Addrs -> Connection]
    BY <2>1, <2>2, FreeType DEF Spawn, TypeOK, Connection
  <2>4. QED
    BY <1>2, <2>1, <2>2, <2>3, EnterType DEF Spawn, CallWith, TypeOK
<1>5. CASE SpawnFails(t, op, h)
  BY <1>5, BridgeAssumption DEF SpawnFails, CallWith, Keeps, TypeOK
<1>6. QED
  BY <1>1, <1>3, <1>4, <1>5

LEMMA ReleaseType ==
  ASSUME TypeOK, NEW t \in Threads, NEW h \in handles, Release(t, h)
  PROVE  TypeOK'
<1>1. h \in Handle /\ h.at \in Addrs /\ h.gen \in Nat /\ "drop" \in Ops
  BY DEF TypeOK, Handle, Ops
<1>2. QED
  BY <1>1, EnterType DEF Release, TypeOK

LEMMA InCallType ==
  ASSUME TypeOK, InsideHasConnection, NEW t \in Threads,
         Oversize(t) \/ Continues(t)
  PROVE  TypeOK'
<1> DEFINE a == thread[t].at
<1>0. /\ thread[t] \in Thread
      /\ conn \in [Addrs -> Connection]
  BY DEF TypeOK
<1>1. CASE Oversize(t) \/ WrongConnection(t) \/ Exhausted(t)
  BY <1>0, <1>1, ReturnType
     DEF Oversize, WrongConnection, Exhausted, Return, Keeps, TypeOK
<1>2. CASE Lock(t)
  <2>1. a \in Addrs
    BY <1>2 DEF Lock, Encoded, InsideHasConnection
  <2>2. conn' \in [Addrs -> Connection]
    <3> DEFINE n == conn[a].nextRequestId + 1
    <3>1. n \in 1 .. MaxRequestId
      BY <1>0, <1>2, <2>1, BridgeAssumption DEF Lock, Connection
    <3>2. [conn[a] EXCEPT !.lock = t, !.nextRequestId = n] \in Connection
      BY <1>0, <2>1, <3>1, LockedType
    <3>3. QED
      BY <1>0, <1>2, <2>1, <3>2 DEF Lock
  <2>3. thread' \in [Threads -> Thread]
    <3>1. conn[a].nextRequestId \in Nat
      BY <1>0, <2>1, BridgeAssumption DEF Connection
    <3>2. QED
      BY <1>0, <1>2, <3>1 DEF Lock, TypeOK, Thread, PCs
  <2>4. QED
    BY <1>2, <2>2, <2>3 DEF Lock, Keeps, TypeOK
<1>3. CASE Write(t)
  <2>1. a \in Addrs
    BY <1>3 DEF Write, InsideHasConnection
  <2> DEFINE q == [rid |-> thread[t].rid, op |-> thread[t].op,
                   id |-> thread[t].arg.id, token |-> thread[t].token,
                   target |-> thread[t].arg.token]
  <2>2. q \in Request
    BY <1>0 DEF Thread, Handle, NoHandle, Request
  <2>3. conn' = [conn EXCEPT ![a].stdin = Append(@, q)]
    BY <1>3 DEF Write
  <2>4. conn' \in [Addrs -> Connection]
    <3> HIDE DEF q
    <3>1. [conn[a] EXCEPT !.stdin = Append(@, q)] \in Connection
      BY <1>0, <2>1, <2>2, RequestedType
    <3>2. QED
      BY <1>0, <2>1, <2>3, <3>1
  <2>5. thread' \in [Threads -> Thread]
    BY <1>0, <1>3 DEF Write, TypeOK, Thread, PCs
  <2>6. QED
    BY <1>3, <2>4, <2>5 DEF Write, Keeps, TypeOK
<1>4. CASE WriteFails(t)
  BY <1>4, UnlockedType, BreakType DEF WriteFails
<1>5. CASE ReadHeader(t)
  <2>1. a \in Addrs
    BY <1>5 DEF ReadHeader, InsideHasConnection
  <2>2. conn' \in [Addrs -> Connection]
    BY <1>0, <1>5, <2>1, TakenType, BridgeAssumption DEF ReadHeader
  <2>3. conn[a].stdout[1].of \in Response
    <3>1. conn[a].stdout \in Seq(Cell)
      BY <1>0, <2>1 DEF Connection
    <3>2. Len(conn[a].stdout) >= 1
      BY <1>5, <3>1, BridgeAssumption DEF ReadHeader
    <3>3. conn[a].stdout[1] \in Cell
      BY <3>1, <3>2
    <3>4. QED
      BY <3>3 DEF Cell
  <2>4. thread' \in [Threads -> Thread]
    BY <1>0, <1>5, <2>3 DEF ReadHeader, TypeOK, Thread, PCs
  <2>5. QED
    BY <1>5, <2>2, <2>4 DEF ReadHeader, Keeps, TypeOK
<1>6. CASE BadHeader(t)
  <2>1. a \in Addrs
    BY <1>6 DEF BadHeader, InsideHasConnection
  <2>2. Taken(Unlocked(t), a, HeaderLen) \in [Addrs -> Connection]
    BY <2>1, UnlockedType, TakenType, BridgeAssumption
  <2>3. QED
    BY <1>6, <2>2, ReturnType, ReportsType DEF BadHeader, Return, TypeOK
<1>7. CASE ReadEof(t)
  <2>1. a \in Addrs
    BY <1>7 DEF ReadEof, InsideHasConnection
  <2>2. Taken(Unlocked(t), a, Len(conn[a].stdout)) \in [Addrs -> Connection]
    <3>1. Len(conn[a].stdout) \in Nat
      BY <1>0, <2>1 DEF Connection
    <3>2. QED
      BY <2>1, <3>1, UnlockedType, TakenType
  <2>3. QED
    BY <1>7, <2>2, BreakType DEF ReadEof
<1>8. CASE ReadBody(t)
  <2>1. a \in Addrs
    BY <1>8 DEF ReadBody, InsideHasConnection
  <2>2. BodyLen(thread[t].reply) \in Nat
    BY DEF BodyLen
  <2>3. Taken(Unlocked(t), a, BodyLen(thread[t].reply))
          \in [Addrs -> Connection]
    BY <2>1, <2>2, UnlockedType, TakenType
  <2>4. handles' \subseteq Handle
    BY <1>0, <1>8, <2>1 DEF ReadBody, TypeOK, Thread, Response, Handle
  <2>5. QED
    BY <1>8, <2>3, <2>4, ReturnType DEF ReadBody, Return, TypeOK
<1>9. CASE Retire(t)
  <2>1. reported' \subseteq Report
    BY <1>9, ReportsType DEF Retire
  <2>2. QED
    BY <1>0, <1>9, <2>1, ReturnType DEF Retire, Return, TypeOK
<1>10. QED
  BY <1>1, <1>2, <1>3, <1>4, <1>5, <1>6, <1>7, <1>8, <1>9 DEF Continues

LEMMA HelperType ==
  ASSUME TypeOK, NEW a \in Addrs, Serves(a) \/ Crash(a)
  PROVE  TypeOK'
<1>0. conn[a] \in Connection /\ conn \in [Addrs -> Connection]
  BY DEF TypeOK
<1>1. CASE \E ok \in BOOLEAN, n \in 0 .. MaxNoise : Answers(a, ok, n)
  <2>1. PICK ok \in BOOLEAN, n \in 0 .. MaxNoise : Answers(a, ok, n)
    BY <1>1
  <2>2. n \in Nat
    BY BridgeAssumption
  <2>3. CASE ServeNew(a, ok, n)
    <3>1. Head(conn[a].stdin) \in Request /\ conn[a].stdin # <<>>
      BY <1>0, <2>3 DEF ServeNew, Ready, Connection
    <3>2. conn[a].objects \cup
            {[id |-> conn[a].nextHandleId,
              token |-> Head(conn[a].stdin).token]}
              \in SUBSET [id : Nat, token : Nat]
      BY <1>0, <3>1 DEF Connection, Request
    <3>3. /\ conn[a].nextHandleId \in Nat
          /\ conn[a].nextHandleId + 1 \in Nat
          /\ (IF ok THEN conn[a].nextHandleId ELSE 0) \in Nat
      BY <1>0 DEF Connection
    <3>4. QED
      BY <2>2, <2>3, <3>1, <3>2, <3>3, RespondType DEF ServeNew
  <2>4. CASE ServeNull(a, n)
    BY <1>0, <2>2, <2>4, RespondType DEF ServeNull, Ready, Connection
  <2>5. CASE ServeUse(a, ok, n)
    BY <1>0, <2>2, <2>5, RespondType DEF ServeUse, Ready, Connection
  <2>6. CASE ServeDrop(a, n)
    BY <1>0, <2>2, <2>6, RespondType DEF ServeDrop, Ready, Connection
  <2>7. QED
    BY <2>1, <2>3, <2>4, <2>5, <2>6 DEF Answers
<1>2. CASE \E k \in 1 .. Len(conn[a].stdio) : Flush(a, k)
  <2>1. PICK k \in 1 .. Len(conn[a].stdio) : Flush(a, k)
    BY <1>2
  <2>2. /\ conn[a].stdio \in Seq(Cell) /\ conn[a].stdout \in Seq(Cell)
        /\ k \in Nat
    BY <1>0, <2>1 DEF Connection
  <2>3. SubSeq(conn[a].stdio, 1, k) \in Seq(Cell)
    BY <2>1, <2>2
  <2>4. conn[a].stdout \o SubSeq(conn[a].stdio, 1, k) \in Seq(Cell)
    BY <2>2, <2>3
  <2>5. Rest(conn[a].stdio, k) \in Seq(Cell)
    BY <2>2, RestType
  <2>6. conn' \in [Addrs -> Connection]
    BY <1>0, <2>1, <2>4, <2>5, FlushedType DEF Flush
  <2>7. QED
    BY <2>1, <2>6 DEF Flush, HelperStep, TypeOK
<1>3. CASE Crash(a)
  <2>1. conn' \in [Addrs -> Connection]
    BY <1>0, <1>3, CrashedType DEF Crash
  <2>2. QED
    BY <1>3, <2>1 DEF Crash, HelperStep, TypeOK
<1>4. QED
  BY <1>1, <1>2, <1>3 DEF Serves
-----------------------------------------------------------------------------
(* Every step is of one of three kinds: it leaves all Arcs where they are, *)
(* it ends a call, or it enters one.  One lemma shows for each kind that   *)
(* the rest of the inductive invariant survives.                           *)

(* conn and thread change, but no Arc and no identity does, and no helper  *)
(* starts.                                                                 *)
ArcsStay ==
  /\ current' = current /\ handles' = handles
  /\ \A a \in Addrs : /\ conn'[a].gen = conn[a].gen
                      /\ conn'[a].running => conn[a].running
  /\ \A t \in Threads :
       /\ thread'[t].at = thread[t].at /\ thread'[t].gen = thread[t].gen
       /\ thread'[t].pc # "idle" => thread[t].pc # "idle"
       /\ thread'[t].pc = "retire" =>
            thread[t].pc = "retire" \/ ~conn'[thread[t].at].running

LEMMA ArcsStayInv ==
  ASSUME Inv, TypeOK', ArcsStay
  PROVE  Inv'
<1>1. \A a \in Addrs : Referenced(a)' => Referenced(a)
  BY DEF Referenced, ArcsStay
<1>2. FreeIsUnreferenced'
  BY <1>1 DEF Inv, FreeIsUnreferenced, ArcsStay
<1>3. InsideHasConnection'
  BY DEF Inv, InsideHasConnection, ArcsStay
<1>4. ArcIdentity'
  <2>1. \A h \in handles' : conn'[h.at].gen = h.gen
    BY DEF Inv, ArcIdentity, ArcsStay, TypeOK, Handle
  <2>2. \A t \in Threads :
          thread'[t].at # None => conn'[thread'[t].at].gen = thread'[t].gen
    BY DEF Inv, ArcIdentity, ArcsStay, TypeOK, Thread
  <2>3. QED
    BY <2>1, <2>2 DEF ArcIdentity
<1>5. RetiresDead'
  <2> SUFFICES ASSUME NEW t \in Threads, thread'[t].pc = "retire"
               PROVE  ~conn'[thread'[t].at].running
    BY DEF RetiresDead
  <2>1. thread[t].at \in Addrs
    BY DEF Inv, InsideHasConnection, ArcsStay
  <2>2. QED
    BY <2>1 DEF Inv, RetiresDead, ArcsStay
<1>6. LiveHelperIsCurrent'
  BY DEF Inv, LiveHelperIsCurrent, ArcsStay
<1>7. QED
  BY <1>2, <1>3, <1>4, <1>5, <1>6 DEF Inv

(* A call ends.  Its Arc goes or moves into a handle, the Bridge may have  *)
(* lost a Connection whose helper is dead, and the addresses that nothing  *)
(* points to any more are free again.                                      *)
LEMMA ReturnInv ==
  ASSUME Inv, TypeOK', NEW t \in Threads, thread[t].pc # "idle",
         NEW c \in [Addrs -> Connection], Return(t, c),
         \A a \in Addrs : /\ c[a].gen = conn[a].gen
                          /\ c[a].running = conn[a].running,
         \/ current' = current
         \/ current' = None /\ ~conn[current].running,
         \A h \in handles' :
           \/ h \in handles
           \/ h.at = thread[t].at /\ h.gen = thread[t].gen
  PROVE  Inv'
<1>0. thread[t].at \in Addrs
  BY DEF Inv, InsideHasConnection
<1>1. /\ thread' = [thread EXCEPT ![t] = Idle]
      /\ \A a \in Addrs : conn'[a] = IF Referenced(a)' THEN c[a] ELSE Free
  BY DEF Return, DropUnreferenced
<1>2. /\ thread'[t] = Idle
      /\ \A u \in Threads \ {t} : thread'[u] = thread[u]
  BY <1>1 DEF Inv, TypeOK
<1>3. Idle.pc = "idle" /\ Idle.at = None
  BY DEF Idle
<1>4. \A a \in Addrs : Referenced(a)' => Referenced(a)
  <2> SUFFICES ASSUME NEW a \in Addrs, Referenced(a)' PROVE Referenced(a)
    OBVIOUS
  <2>1. CASE current' = a
    BY <2>1, BridgeAssumption DEF Referenced
  <2>2. CASE \E u \in Threads : thread'[u].at = a
    BY <2>2, <1>2, <1>3, BridgeAssumption DEF Referenced
  <2>3. CASE \E h \in handles' : h.at = a
    BY <2>3 DEF Referenced
  <2>4. QED
    BY <2>1, <2>2, <2>3 DEF Referenced
<1>5. \A a \in Addrs : conn[a].gen = 0 => ~Referenced(a)
  BY DEF Inv, FreeIsUnreferenced
<1>6. \A a \in Addrs : conn'[a].running => conn[a].running
  BY <1>1 DEF Free
<1>7. \A a \in Addrs : Referenced(a)' => conn'[a].gen = conn[a].gen
  BY <1>1
<1>8. FreeIsUnreferenced'
  BY <1>4, <1>5, <1>7 DEF FreeIsUnreferenced
<1>9. InsideHasConnection'
  BY <1>2, <1>3 DEF Inv, InsideHasConnection
<1>10. ArcIdentity'
  <2>1. ASSUME NEW h \in handles' PROVE conn'[h.at].gen = h.gen
    <3>1. h.at \in Addrs /\ Referenced(h.at)'
      BY DEF TypeOK, Handle, Referenced
    <3>2. conn[h.at].gen = h.gen
      BY <1>0, BridgeAssumption DEF Inv, ArcIdentity
    <3>3. QED
      BY <1>7, <3>1, <3>2
  <2>2. ASSUME NEW u \in Threads, thread'[u].at # None
        PROVE  conn'[thread'[u].at].gen = thread'[u].gen
    <3>1. u # t /\ thread'[u] = thread[u]
      BY <1>2, <1>3, <2>2
    <3>2. thread[u].at \in Addrs
      BY <3>1, <2>2 DEF Inv, TypeOK, Thread
    <3>3. Referenced(thread[u].at)'
      BY <3>1 DEF Referenced
    <3>4. QED
      BY <1>7, <2>2, <3>1, <3>2, <3>3 DEF Inv, ArcIdentity
  <2>3. QED
    BY <2>1, <2>2 DEF ArcIdentity
<1>11. RetiresDead'
  <2> SUFFICES ASSUME NEW u \in Threads, thread'[u].pc = "retire"
               PROVE  ~conn'[thread'[u].at].running
    BY DEF RetiresDead
  <2>1. thread'[u] = thread[u]
    BY <1>2, <1>3
  <2>2. thread[u].at \in Addrs
    BY <2>1 DEF Inv, InsideHasConnection
  <2>3. QED
    BY <1>6, <2>1, <2>2 DEF Inv, RetiresDead
<1>12. LiveHelperIsCurrent'
  BY <1>6 DEF Inv, LiveHelperIsCurrent
<1>13. QED
  BY <1>8, <1>9, <1>10, <1>11, <1>12 DEF Inv

(* A call is entered with an Arc to a Connection that something else holds *)
(* too, and conn and the Bridge stay as they are.                          *)
LEMMA EnterInv ==
  ASSUME Inv, TypeOK', NEW t \in Threads, NEW op, NEW h, NEW a \in Addrs,
         Enter(t, op, h, a, conn[a].gen), Referenced(a),
         conn' = conn, current' = current, handles' \subseteq handles
  PROVE  Inv'
<1>1. /\ thread'[t].pc = "encode" /\ thread'[t].at = a
      /\ thread'[t].gen = conn[a].gen
      /\ \A u \in Threads \ {t} : thread'[u] = thread[u]
  BY DEF Inv, TypeOK, Enter
<1>2. \A b \in Addrs : Referenced(b)' => Referenced(b)
  BY <1>1 DEF Referenced
<1>3. FreeIsUnreferenced'
  BY <1>2 DEF Inv, FreeIsUnreferenced
<1>4. InsideHasConnection'
  BY <1>1 DEF Inv, InsideHasConnection
<1>5. ArcIdentity'
  BY <1>1 DEF Inv, ArcIdentity
<1>6. RetiresDead'
  BY <1>1 DEF Inv, RetiresDead
<1>7. LiveHelperIsCurrent'
  BY DEF Inv, LiveHelperIsCurrent
<1>8. QED
  BY <1>3, <1>4, <1>5, <1>6, <1>7 DEF Inv

LEMMA StartsInv ==
  ASSUME Inv, NEW t \in Threads, Starts(t)
  PROVE  Inv'
<1>0. TypeOK /\ TypeOK'
  BY StartsType DEF Inv
<1>1. PICK op \in {"new", "use"}, h \in handles \cup {NoHandle} :
        \/ Connect(t, op, h)
        \/ \E a \in Addrs : Spawn(t, op, h, a)
        \/ SpawnFails(t, op, h)
  BY DEF Starts
<1>2. CASE Connect(t, op, h)
  <2>1. current \in Addrs /\ Referenced(current)
    BY <1>0, <1>2 DEF Connect, TypeOK, Referenced
  <2>2. QED
    BY <1>0, <1>2, <2>1, EnterInv DEF Connect, Keeps
<1>3. CASE \E a \in Addrs : Spawn(t, op, h, a)
  <2>1. PICK a \in Addrs : Spawn(t, op, h, a)
    BY <1>3
  <2>2. /\ current = None /\ current' = a
        /\ conn[a].gen = 0 /\ conn'[a].gen = spawned + 1
        /\ \A b \in Addrs \ {a} : conn'[b] = conn[b]
        /\ thread'[t].pc = "encode" /\ thread'[t].at = a
        /\ thread'[t].gen = spawned + 1
        /\ \A u \in Threads \ {t} : thread'[u] = thread[u]
        /\ handles' = handles
    BY <1>0, <2>1, FreeType DEF Spawn, Enter, TypeOK, Connection
  <2>3. spawned + 1 # 0
    BY <1>0 DEF TypeOK
  <2>4. ~Referenced(a)
    BY <2>2 DEF Inv, FreeIsUnreferenced
  <2>5. \A b \in Addrs \ {a} : Referenced(b)' => Referenced(b)
    BY <2>2 DEF Referenced
  <2>6. FreeIsUnreferenced'
    BY <2>2, <2>3, <2>5 DEF Inv, FreeIsUnreferenced
  <2>7. InsideHasConnection'
    BY <2>2 DEF Inv, InsideHasConnection
  <2>8. ArcIdentity'
    <3>1. \A k \in handles : k.at # a /\ k.at \in Addrs
      BY <1>0, <2>4 DEF Referenced, TypeOK, Handle
    <3>2. \A u \in Threads \ {t} : thread[u].at # a
      BY <2>4 DEF Referenced
    <3>3. \A u \in Threads : thread[u].at \in Addrs \cup {None}
      BY <1>0 DEF TypeOK, Thread
    <3>4. QED
      BY <2>2, <3>1, <3>2, <3>3 DEF Inv, ArcIdentity
  <2>9. RetiresDead'
    <3> SUFFICES ASSUME NEW u \in Threads, thread'[u].pc = "retire"
                 PROVE  ~conn'[thread'[u].at].running
      BY DEF RetiresDead
    <3>1. u # t /\ thread'[u] = thread[u]
      BY <2>2
    <3>2. thread[u].at \in Addrs \ {a}
      BY <2>4, <3>1 DEF Inv, InsideHasConnection, Referenced
    <3>3. QED
      BY <2>2, <3>1, <3>2 DEF Inv, RetiresDead
  <2>10. LiveHelperIsCurrent'
    BY <2>2, BridgeAssumption DEF Inv, LiveHelperIsCurrent
  <2>11. QED
    BY <1>0, <2>6, <2>7, <2>8, <2>9, <2>10 DEF Inv
<1>4. CASE SpawnFails(t, op, h)
  BY <1>0, <1>4, ArcsStayInv DEF SpawnFails, Keeps, ArcsStay
<1>5. QED
  BY <1>1, <1>2, <1>3, <1>4

LEMMA ReleaseInv ==
  ASSUME Inv, NEW t \in Threads, NEW h \in handles, Release(t, h)
  PROVE  Inv'
<1>1. TypeOK'
  BY ReleaseType DEF Inv
<1>2. h.at \in Addrs /\ Referenced(h.at)
  BY DEF Inv, TypeOK, Handle, Referenced
<1>3. Enter(t, "drop", h, h.at, conn[h.at].gen)
  BY DEF Inv, ArcIdentity, Release
<1>4. QED
  BY <1>1, <1>2, <1>3, EnterInv DEF Release

LEMMA BreakInv ==
  ASSUME Inv, TypeOK', NEW t \in Threads, thread[t].pc # "idle",
         NEW c \in [Addrs -> Connection], Break(t, c),
         ~conn[thread[t].at].running,
         \A a \in Addrs : /\ c[a].gen = conn[a].gen
                          /\ c[a].running = conn[a].running
  PROVE  Inv'
<1>1. CASE thread[t].op = "drop"
  BY <1>1, ReturnInv DEF Break
<1>2. CASE thread[t].op # "drop"
  <2>1. thread[t].at \in Addrs
    BY DEF Inv, InsideHasConnection
  <2>2. /\ thread' = [thread EXCEPT ![t].pc = "retire"] /\ conn' = c
        /\ current' = current /\ handles' = handles
    BY <1>2 DEF Break
  <2>3. ArcsStay
    BY <2>1, <2>2 DEF ArcsStay, Inv, TypeOK, Thread
  <2>4. QED
    BY <2>3, ArcsStayInv
<1>3. QED
  BY <1>1, <1>2

(* Unlocking and reading change neither who a Connection is nor whether    *)
(* its helper runs.                                                        *)
LEMMA TakenKeeps ==
  ASSUME TypeOK, NEW t \in Threads, NEW n \in Nat, thread[t].at \in Addrs
  PROVE  LET c == Taken(Unlocked(t), thread[t].at, n) IN
         /\ c \in [Addrs -> Connection]
         /\ \A a \in Addrs : /\ c[a].gen = conn[a].gen
                             /\ c[a].running = conn[a].running
<1>1. Unlocked(t) \in [Addrs -> Connection]
  BY UnlockedType
<1>2. \A a \in Addrs : /\ Unlocked(t)[a].gen = conn[a].gen
                       /\ Unlocked(t)[a].running = conn[a].running
  BY DEF Unlocked, TypeOK, Connection
<1>3. Taken(Unlocked(t), thread[t].at, n) \in [Addrs -> Connection]
  BY <1>1, TakenType
<1>4. \A a \in Addrs :
        /\ Taken(Unlocked(t), thread[t].at, n)[a].gen = Unlocked(t)[a].gen
        /\ Taken(Unlocked(t), thread[t].at, n)[a].running
             = Unlocked(t)[a].running
  BY <1>1 DEF Taken, Connection
<1>5. QED
  BY <1>2, <1>3, <1>4

LEMMA InCallInv ==
  ASSUME Inv, NEW t \in Threads, Oversize(t) \/ Continues(t)
  PROVE  Inv'
<1> DEFINE a == thread[t].at
<1>0. /\ TypeOK /\ TypeOK'
      /\ conn \in [Addrs -> Connection]
      /\ thread \in [Threads -> Thread]
  BY InCallType DEF Inv, TypeOK
<1>1. CASE Oversize(t) \/ WrongConnection(t) \/ Exhausted(t)
  <2>1. /\ thread[t].pc # "idle" /\ Return(t, conn)
        /\ current' = current /\ handles' = handles
    BY <1>1 DEF Oversize, WrongConnection, Exhausted, Encoded, Keeps
  <2>2. QED
    BY <1>0, <2>1, ReturnInv
<1>2. CASE Lock(t) \/ Write(t) \/ ReadHeader(t)
  <2>1. a \in Addrs /\ thread[t].pc # "idle"
    BY <1>2 DEF Lock, Encoded, Write, ReadHeader, Inv, InsideHasConnection
  <2>2. /\ current' = current /\ handles' = handles
    BY <1>2 DEF Lock, Write, ReadHeader, Keeps
  <2>3. \A b \in Addrs : /\ conn'[b].gen = conn[b].gen
                         /\ conn'[b].running = conn[b].running
    <3>1. CASE Lock(t)
      BY <1>0, <2>1, <3>1 DEF Lock, Connection
    <3>2. CASE Write(t)
      BY <1>0, <2>1, <3>2 DEF Write, Connection
    <3>3. CASE ReadHeader(t)
      BY <1>0, <2>1, <3>3 DEF ReadHeader, Taken, Connection
    <3>4. QED
      BY <1>2, <3>1, <3>2, <3>3
  <2>4. \A u \in Threads :
          /\ thread'[u].at = thread[u].at /\ thread'[u].gen = thread[u].gen
          /\ u # t => thread'[u] = thread[u]
          /\ u = t => thread'[u].pc # "retire"
    <3>1. CASE Lock(t)
      BY <1>0, <3>1 DEF Lock, Thread
    <3>2. CASE Write(t)
      BY <1>0, <3>2 DEF Write, Thread
    <3>3. CASE ReadHeader(t)
      BY <1>0, <3>3 DEF ReadHeader, Thread
    <3>4. QED
      BY <1>2, <3>1, <3>2, <3>3
  <2>5. ArcsStay
    BY <2>1, <2>2, <2>3, <2>4 DEF ArcsStay
  <2>6. QED
    BY <1>0, <2>5, ArcsStayInv
<1>3. CASE WriteFails(t)
  <2>1. a \in Addrs /\ thread[t].pc # "idle"
    BY <1>3 DEF WriteFails, Inv, InsideHasConnection
  <2>2. \A b \in Addrs : /\ Unlocked(t)[b].gen = conn[b].gen
                         /\ Unlocked(t)[b].running = conn[b].running
    BY <1>0, <2>1 DEF Unlocked, Connection
  <2>3. QED
    BY <1>0, <1>3, <2>1, <2>2, UnlockedType, BreakInv DEF WriteFails
<1>4. CASE BadHeader(t)
  <2>1. a \in Addrs /\ thread[t].pc # "idle"
    BY <1>4 DEF BadHeader, Inv, InsideHasConnection
  <2>2. /\ Return(t, Taken(Unlocked(t), a, HeaderLen))
        /\ current' = current /\ handles' = handles
    BY <1>4 DEF BadHeader
  <2>3. HeaderLen \in Nat
    BY BridgeAssumption
  <2>4. QED
    BY <1>0, <2>1, <2>2, <2>3, TakenKeeps, ReturnInv
<1>5. CASE ReadEof(t)
  <2>1. a \in Addrs /\ thread[t].pc # "idle" /\ ~conn[a].running
    BY <1>5 DEF ReadEof, Inv, InsideHasConnection
  <2>2. Len(conn[a].stdout) \in Nat
    BY <1>0, <2>1 DEF Connection
  <2>3. Break(t, Taken(Unlocked(t), a, Len(conn[a].stdout)))
    BY <1>5 DEF ReadEof
  <2>4. QED
    BY <1>0, <2>1, <2>2, <2>3, TakenKeeps, BreakInv
<1>6. CASE ReadBody(t)
  <2>1. a \in Addrs /\ thread[t].pc # "idle"
    BY <1>6 DEF ReadBody, Inv, InsideHasConnection
  <2>2. BodyLen(thread[t].reply) \in Nat
    BY DEF BodyLen
  <2>3. /\ Return(t, Taken(Unlocked(t), a, BodyLen(thread[t].reply)))
        /\ current' = current
    BY <1>6 DEF ReadBody
  <2>4. \A h \in handles' :
          h \in handles \/ (h.at = a /\ h.gen = thread[t].gen)
    <3> DEFINE new == [at |-> a, gen |-> thread[t].gen,
                       id |-> thread[t].reply.id, token |-> thread[t].token]
    <3>1. handles' \subseteq handles \cup {new}
      BY <1>6 DEF ReadBody
    <3>2. QED
      BY <3>1
  <2>5. QED
    BY <1>0, <2>1, <2>2, <2>3, <2>4, TakenKeeps, ReturnInv
<1>7. CASE Retire(t)
  <2>1. /\ Return(t, conn) /\ handles' = handles /\ thread[t].pc # "idle"
        /\ current' = IF current = a THEN None ELSE current
    BY <1>7 DEF Retire
  <2>2. ~conn[a].running
    BY <1>7 DEF Retire, Inv, RetiresDead
  <2>3. QED
    BY <1>0, <2>1, <2>2, ReturnInv
<1>8. QED
  BY <1>1, <1>2, <1>3, <1>4, <1>5, <1>6, <1>7 DEF Continues

LEMMA RespondKeeps ==
  ASSUME TypeOK, NEW a \in Addrs, NEW ok, NEW id, NEW n, NEW objects, NEW next,
         Respond(a, ok, id, n, objects, next)
  PROVE  \A b \in Addrs : /\ conn'[b].gen = conn[b].gen
                          /\ conn'[b].running = conn[b].running
<1> DEFINE frame == Noises(n) \o Frame(
             [rid |-> Head(conn[a].stdin).rid, op |-> Head(conn[a].stdin).op,
              ok |-> ok, id |-> id, token |-> Head(conn[a].stdin).token])
<1>1. conn' = [conn EXCEPT ![a].stdin = Tail(@), ![a].stdio = frame,
                           ![a].objects = objects, ![a].nextHandleId = next]
  BY DEF Respond
<1>2. QED
  <2> HIDE DEF frame
  <2> QED BY <1>1 DEF TypeOK, Connection

LEMMA HelperInv ==
  ASSUME Inv, NEW a \in Addrs, Serves(a) \/ Crash(a)
  PROVE  Inv'
<1>0. TypeOK' /\ conn \in [Addrs -> Connection]
  BY HelperType DEF Inv, TypeOK
<1>1. HelperStep
  BY DEF Serves, Answers, Crash, ServeNew, ServeNull, ServeUse, ServeDrop,
         Respond, Flush
<1>2. \A b \in Addrs : /\ conn'[b].gen = conn[b].gen
                       /\ conn'[b].running => conn[b].running
  <2>1. CASE \E ok \in BOOLEAN, n \in 0 .. MaxNoise : Answers(a, ok, n)
    BY <2>1, RespondKeeps
       DEF Inv, Answers, ServeNew, ServeNull, ServeUse, ServeDrop
  <2>2. CASE \E k \in 1 .. Len(conn[a].stdio) : Flush(a, k)
    BY <1>0, <2>2 DEF Flush, Connection
  <2>3. CASE Crash(a)
    BY <1>0, <2>3 DEF Crash, Connection
  <2>4. QED
    BY <2>1, <2>2, <2>3 DEF Serves
<1>3. ArcsStay
  BY <1>1, <1>2 DEF HelperStep, ArcsStay
<1>4. QED
  BY <1>0, <1>3, ArcsStayInv
-----------------------------------------------------------------------------
LEMMA InitInv == Init => Inv
<1> SUFFICES ASSUME Init PROVE Inv
  OBVIOUS
<1>1. TypeOK
  BY InitType
<1>2. \A t \in Threads : thread[t].pc = "idle" /\ thread[t].at = None
  BY DEF Init, Idle
<1>3. \A a \in Addrs : ~conn[a].running
  BY DEF Init, Free
<1>4. \A a \in Addrs : ~Referenced(a)
  BY <1>2, BridgeAssumption DEF Init, Referenced
<1>5. QED
  BY <1>1, <1>2, <1>3, <1>4
     DEF Inv, InsideHasConnection, FreeIsUnreferenced, ArcIdentity,
         RetiresDead, LiveHelperIsCurrent, Init

LEMMA NextInv ==
  ASSUME Inv, [Next]_vars
  PROVE  Inv'
<1>1. CASE \E t \in Threads : Starts(t) \/ Oversize(t) \/ Continues(t)
  BY <1>1, StartsInv, InCallInv
<1>2. CASE \E t \in Threads : \E h \in handles : Release(t, h)
  BY <1>2, ReleaseInv
<1>3. CASE \E a \in Addrs : Serves(a) \/ Crash(a)
  BY <1>3, HelperInv
<1>4. CASE Finished \/ UNCHANGED vars
  BY <1>4 DEF Finished, vars, Inv, TypeOK, InsideHasConnection,
              FreeIsUnreferenced, Referenced, ArcIdentity, RetiresDead,
              LiveHelperIsCurrent
<1>5. QED
  BY <1>1, <1>2, <1>3, <1>4 DEF Next

THEOREM Invariance == Spec => []Inv
BY InitInv, NextInv, PTL DEF Spec

(* The Bridge, its connections, callers and handles keep their types; in   *)
(* particular a request id never passes its maximum.                       *)
THEOREM TypeCorrect == Spec => []TypeOK
<1>1. Inv => TypeOK
  BY DEF Inv
<1>2. QED
  BY <1>1, Invariance, PTL

(* Arc::ptr_eq compares identities: no handle and no running call ever     *)
(* points to another Connection than the one it was given.                 *)
THEOREM PointerIsIdentity == Spec => []ArcIdentity
<1>1. Inv => ArcIdentity
  BY DEF Inv
<1>2. QED
  BY <1>1, Invariance, PTL

(* Bridge::retire and Bridge::connection, however they race, never leave a *)
(* running helper behind.                                                  *)
THEOREM NoHelperIsForgotten == Spec => []LiveHelperIsCurrent
<1>1. Inv => LiveHelperIsCurrent
  BY DEF Inv
<1>2. QED
  BY <1>1, Invariance, PTL

LEMMA OnlyRetireEmpties ==
  ASSUME Inv, [Next]_vars, current # None, current' # current
  PROVE  current' = None /\ ~conn[current].running
<1>1. PICK t \in Threads : Retire(t)
  <2>1. ASSUME NEW t \in Threads, Starts(t) PROVE FALSE
    BY <2>1 DEF Starts, Connect, Spawn, SpawnFails, Keeps
  <2>2. ASSUME NEW t \in Threads, Oversize(t) \/ Continues(t) PROVE Retire(t)
    BY <2>2 DEF Oversize, Continues, WrongConnection, Lock, Exhausted, Write,
                WriteFails, ReadHeader, BadHeader, ReadEof, ReadBody, Break,
                Keeps
  <2>3. ASSUME NEW t \in Threads, NEW h \in handles, Release(t, h) PROVE FALSE
    BY <2>3 DEF Release
  <2>4. ASSUME NEW a \in Addrs, Serves(a) \/ Crash(a) PROVE FALSE
    BY <2>4 DEF Serves, Answers, ServeNew, ServeNull, ServeUse, ServeDrop,
                Respond, Flush, Crash, HelperStep
  <2>5. QED
    BY <2>1, <2>2, <2>3, <2>4 DEF Next, Finished, vars
<1>2. current = thread[t].at /\ current' = None
  BY <1>1 DEF Retire
<1>3. ~conn[thread[t].at].running
  BY <1>1 DEF Retire, Inv, RetiresDead
<1>4. QED
  BY <1>2, <1>3

(* The slot of the Bridge is emptied only of a Connection whose helper is  *)
(* dead, and is never overwritten.                                         *)
THEOREM RetiresOnlyDead == Spec => OnlyDeadIsRetired
<1>1. Inv /\ [Next]_vars =>
        [current # None /\ current' # current =>
           current' = None /\ ~conn[current].running]_vars
  BY OnlyRetireEmpties
<1>2. QED
  BY <1>1, Invariance, PTL DEF Spec, OnlyDeadIsRetired
-----------------------------------------------------------------------------
(* A Connection that a call has reported dead is not handed out again.     *)
(* How a step of a caller or a helper treats the identities: none is made, *)
(* none passes to another address, and a call that reports a death does    *)
(* not leave the dead Connection in the Bridge.                            *)
GenInv ==
  /\ \A a \in Addrs : conn[a].gen <= spawned
  /\ \A a, b \in Addrs : conn[a].gen = conn[b].gen /\ a # b => conn[a].gen = 0
  /\ \A r \in reported : r.gen <= spawned
  /\ BrokenIsNotReused

NewReport(r) ==
  \E t \in Threads :
    /\ thread[t].at \in Addrs /\ r.gen = thread[t].gen
    /\ r.by = "call" /\ r.why = "dead" => current' # thread[t].at

LEMMA GenTypes ==
  ASSUME TypeOK
  PROVE  /\ \A a \in Addrs : conn[a].gen \in Nat
         /\ \A r \in reported : r.gen \in Nat
         /\ spawned \in Nat
<1>1. \A a \in Addrs : conn[a] \in Connection
  BY DEF TypeOK
<1>2. \A c \in Connection : c.gen \in Nat
  BY DEF Connection
<1>3. \A r \in reported : r \in Report
  BY DEF TypeOK
<1>4. \A r \in Report : r.gen \in Nat
  BY DEF Report
<1>5. spawned \in Nat
  BY BridgeAssumption DEF TypeOK
<1>6. QED
  BY <1>1, <1>2, <1>3, <1>4, <1>5

LEMMA GenStep ==
  ASSUME Inv, Inv', GenInv, spawned' = spawned,
         current' = current \/ current' = None,
         \A a \in Addrs : conn'[a].gen = conn[a].gen \/ conn'[a].gen = 0,
         \A r \in reported' : r \in reported \/ NewReport(r)
  PROVE  GenInv'
<1>0. /\ \A a \in Addrs : conn[a].gen \in Nat /\ conn'[a].gen \in Nat
      /\ spawned \in Nat
  <2>1. \A a \in Addrs : conn[a].gen \in Nat
    BY GenTypes DEF Inv
  <2>2. QED
    BY <2>1, GenTypes DEF Inv
<1>a. /\ current' \in Addrs \cup {None}
      /\ \A b \in Addrs : b = current' => conn'[b].gen # 0
  <2>1. current' \in Addrs \cup {None} /\ FreeIsUnreferenced'
    BY DEF Inv, TypeOK
  <2>2. \A b \in Addrs : conn'[b].gen = 0 => ~(current' = b)
    BY <2>1, Zenon DEF FreeIsUnreferenced, Referenced
  <2>3. QED
    BY <2>1, <2>2
<1>1. \A a \in Addrs : conn'[a].gen <= spawned'
  BY <1>0 DEF GenInv
<1>2. \A a, b \in Addrs :
        conn'[a].gen = conn'[b].gen /\ a # b => conn'[a].gen = 0
  BY DEF GenInv
<1>3. ASSUME NEW r \in reported', r \notin reported
      PROVE  /\ r.gen <= spawned
             /\ current' # None /\ r.by = "call" /\ r.why = "dead" =>
                  r.gen # conn'[current'].gen
  <2>1. PICK t \in Threads :
          /\ thread[t].at \in Addrs /\ r.gen = thread[t].gen
          /\ r.by = "call" /\ r.why = "dead" => current' # thread[t].at
    BY <1>3 DEF NewReport
  <2>2. r.gen = conn[thread[t].at].gen
    BY <2>1, BridgeAssumption DEF Inv, ArcIdentity
  <2>3. r.gen <= spawned
    BY <2>1, <2>2 DEF GenInv
  <2>4. ASSUME current' # None, current' # thread[t].at
        PROVE  r.gen # conn'[current'].gen
    <3>1. current' \in Addrs
      BY <1>a, <2>4
    <3>2. conn'[current'].gen # 0
      BY <1>a, <3>1
    <3>3. conn'[current'].gen = conn[current'].gen
      BY <3>1, <3>2
    <3>4. QED
      BY <2>1, <2>2, <2>4, <3>1, <3>2, <3>3 DEF GenInv
  <2>5. QED
    BY <2>1, <2>3, <2>4
<1>4. \A r \in reported' : r.gen <= spawned'
  BY <1>3 DEF GenInv
<1>5. BrokenIsNotReused'
  <2> SUFFICES ASSUME current' # None,
                      [gen |-> conn'[current'].gen, by |-> "call",
                       why |-> "dead"] \in reported'
               PROVE  FALSE
    BY DEF BrokenIsNotReused
  <2> DEFINE r == [gen |-> conn'[current'].gen, by |-> "call", why |-> "dead"]
  <2>1. r \in reported
    BY <1>3
  <2>2. current' = current /\ current \in Addrs
    BY <1>a
  <2>3. conn'[current].gen = conn[current].gen
    BY <1>a, <2>2
  <2>4. QED
    BY <2>1, <2>2, <2>3 DEF GenInv, BrokenIsNotReused
<1>6. QED
  BY <1>1, <1>2, <1>4, <1>5 DEF GenInv

(* A call that returns, reporting or not.                                  *)
LEMMA GenReturn ==
  ASSUME Inv, Inv', GenInv, NEW t \in Threads,
         NEW c \in [Addrs -> Connection], Return(t, c),
         current' = current \/ current' = None,
         \A a \in Addrs : c[a].gen = conn[a].gen,
         \A r \in reported' : r \in reported \/ NewReport(r)
  PROVE  GenInv'
<1>1. \A a \in Addrs : conn'[a].gen = conn[a].gen \/ conn'[a].gen = 0
  BY DEF Return, DropUnreferenced, Free
<1>2. spawned' = spawned
  BY DEF Return
<1>3. QED
  BY <1>1, <1>2, GenStep

LEMMA GenBreak ==
  ASSUME Inv, Inv', GenInv, NEW t \in Threads, thread[t].at \in Addrs,
         NEW c \in [Addrs -> Connection], Break(t, c),
         \A a \in Addrs : c[a].gen = conn[a].gen
  PROVE  GenInv'
<1>1. CASE thread[t].op = "drop"
  <2>1. Return(t, c) /\ current' = current
        /\ reported' = reported \cup {[gen |-> thread[t].gen, why |-> "dead",
                                       by |-> "release"]}
    BY <1>1 DEF Break, Reports
  <2>2. \A r \in reported' : r \in reported \/ NewReport(r)
    BY <2>1 DEF NewReport
  <2>3. QED
    BY <2>1, <2>2, GenReturn
<1>2. CASE thread[t].op # "drop"
  <2>1. conn' = c /\ UNCHANGED <<current, spawned, reported>>
    BY <1>2 DEF Break
  <2>2. QED
    BY <2>1, GenStep
<1>3. QED
  BY <1>1, <1>2

LEMMA GenStarts ==
  ASSUME Inv, Inv', GenInv, NEW t \in Threads, Starts(t)
  PROVE  GenInv'
<1>1. PICK op \in {"new", "use"}, h \in handles \cup {NoHandle} :
        \/ Connect(t, op, h)
        \/ \E a \in Addrs : Spawn(t, op, h, a)
        \/ SpawnFails(t, op, h)
  BY DEF Starts
<1>2. CASE Connect(t, op, h) \/ SpawnFails(t, op, h)
  BY <1>2, GenStep DEF Connect, SpawnFails, Keeps
<1>3. CASE \E a \in Addrs : Spawn(t, op, h, a)
  <2>1. PICK a \in Addrs : Spawn(t, op, h, a)
    BY <1>3
  <2>2. /\ current' = a /\ spawned' = spawned + 1 /\ reported' = reported
        /\ conn'[a].gen = spawned + 1
        /\ \A b \in Addrs \ {a} : conn'[b] = conn[b]
    BY <2>1, FreeType DEF Spawn, Inv, TypeOK, Connection
  <2>3. /\ \A b \in Addrs : conn[b].gen \in Nat
        /\ \A r \in reported : r.gen \in Nat
        /\ spawned \in Nat
    BY GenTypes DEF Inv
  <2>4. \A b \in Addrs : conn'[b].gen <= spawned'
    BY <2>2, <2>3 DEF GenInv
  <2>5. \A b, d \in Addrs :
          conn'[b].gen = conn'[d].gen /\ b # d => conn'[b].gen = 0
    BY <2>2, <2>3 DEF GenInv
  <2>6. \A r \in reported' : r.gen <= spawned'
    BY <2>2, <2>3 DEF GenInv
  <2>7. BrokenIsNotReused'
    BY <2>2, <2>3 DEF GenInv, BrokenIsNotReused
  <2>8. QED
    BY <2>4, <2>5, <2>6, <2>7 DEF GenInv
<1>4. QED
  BY <1>1, <1>2, <1>3

LEMMA GenInCall ==
  ASSUME Inv, Inv', GenInv, NEW t \in Threads, Oversize(t) \/ Continues(t)
  PROVE  GenInv'
<1> DEFINE a == thread[t].at
<1>0. TypeOK /\ conn \in [Addrs -> Connection]
  BY DEF Inv, TypeOK
<1>1. CASE Oversize(t) \/ WrongConnection(t) \/ Exhausted(t)
  BY <1>0, <1>1, GenReturn
  DEF Oversize, WrongConnection, Exhausted, Encoded, Keeps
<1>2. CASE Lock(t) \/ Write(t) \/ ReadHeader(t)
  <2>1. a \in Addrs
    BY <1>2 DEF Lock, Encoded, Write, ReadHeader, Inv, InsideHasConnection
  <2>2. UNCHANGED <<current, spawned, reported>>
    BY <1>2 DEF Lock, Write, ReadHeader, Keeps
  <2>3. \A b \in Addrs : conn'[b].gen = conn[b].gen
    <3>1. CASE Lock(t)
      BY <1>0, <2>1, <3>1 DEF Lock, Connection
    <3>2. CASE Write(t)
      BY <1>0, <2>1, <3>2 DEF Write, Connection
    <3>3. CASE ReadHeader(t)
      BY <1>0, <2>1, <3>3 DEF ReadHeader, Taken, Connection
    <3>4. QED
      BY <1>2, <3>1, <3>2, <3>3
  <2>4. QED
    BY <2>2, <2>3, GenStep
<1>3. CASE WriteFails(t)
  <2>1. a \in Addrs
    BY <1>3 DEF WriteFails, Inv, InsideHasConnection
  <2>2. \A b \in Addrs : Unlocked(t)[b].gen = conn[b].gen
    BY <1>0, <2>1 DEF Unlocked, Connection
  <2>3. QED
    BY <1>0, <1>3, <2>1, <2>2, UnlockedType, GenBreak DEF WriteFails
<1>4. CASE BadHeader(t)
  <2>1. a \in Addrs
    BY <1>4 DEF BadHeader, Inv, InsideHasConnection
  <2>2. /\ Return(t, Taken(Unlocked(t), a, HeaderLen)) /\ current' = current
        /\ Reports(t, "corrupt")
    BY <1>4 DEF BadHeader
  <2>3. \A r \in reported' : r \in reported \/ NewReport(r)
    BY <2>1, <2>2 DEF Reports, NewReport
  <2>4. QED
    BY <1>0, <2>1, <2>2, <2>3, TakenKeeps, GenReturn, BridgeAssumption
<1>5. CASE ReadEof(t)
  <2>1. a \in Addrs
    BY <1>5 DEF ReadEof, Inv, InsideHasConnection
  <2>2. Len(conn[a].stdout) \in Nat
    BY <1>0, <2>1 DEF Connection
  <2>3. Break(t, Taken(Unlocked(t), a, Len(conn[a].stdout)))
    BY <1>5 DEF ReadEof
  <2>4. QED
    BY <1>0, <2>1, <2>2, <2>3, TakenKeeps, GenBreak
<1>6. CASE ReadBody(t)
  <2>1. a \in Addrs
    BY <1>6 DEF ReadBody, Inv, InsideHasConnection
  <2>2. BodyLen(thread[t].reply) \in Nat
    BY DEF BodyLen
  <2>3. /\ Return(t, Taken(Unlocked(t), a, BodyLen(thread[t].reply)))
        /\ UNCHANGED <<current, reported>>
    BY <1>6 DEF ReadBody
  <2>4. QED
    BY <1>0, <2>1, <2>2, <2>3, TakenKeeps, GenReturn
<1>7. CASE Retire(t)
  <2>1. a \in Addrs
    BY <1>7 DEF Retire, Inv, InsideHasConnection
  <2>2. /\ Return(t, conn) /\ Reports(t, "dead")
        /\ current' = IF current = a THEN None ELSE current
    BY <1>7 DEF Retire
  <2>3. current' # a
    BY <2>1, <2>2, BridgeAssumption
  <2>4. \A r \in reported' : r \in reported \/ NewReport(r)
    BY <2>1, <2>2, <2>3 DEF Reports, NewReport
  <2>5. QED
    BY <1>0, <2>2, <2>4, GenReturn
<1>8. QED
  BY <1>1, <1>2, <1>3, <1>4, <1>5, <1>6, <1>7 DEF Continues

LEMMA GenHelper ==
  ASSUME Inv, Inv', GenInv, NEW a \in Addrs, Serves(a) \/ Crash(a)
  PROVE  GenInv'
<1>0. TypeOK /\ conn \in [Addrs -> Connection]
  BY DEF Inv, TypeOK
<1>1. HelperStep
  BY DEF Serves, Answers, Crash, ServeNew, ServeNull, ServeUse, ServeDrop,
         Respond, Flush
<1>2. \A b \in Addrs : conn'[b].gen = conn[b].gen
  <2>1. CASE \E ok \in BOOLEAN, n \in 0 .. MaxNoise : Answers(a, ok, n)
    BY <1>0, <2>1, RespondKeeps
       DEF Answers, ServeNew, ServeNull, ServeUse, ServeDrop
  <2>2. CASE \E k \in 1 .. Len(conn[a].stdio) : Flush(a, k)
    BY <1>0, <2>2 DEF Flush, Connection
  <2>3. CASE Crash(a)
    BY <1>0, <2>3 DEF Crash, Connection
  <2>4. QED
    BY <2>1, <2>2, <2>3 DEF Serves
<1>3. QED
  BY <1>1, <1>2, GenStep DEF HelperStep

LEMMA GenNext ==
  ASSUME Inv, Inv', GenInv, [Next]_vars
  PROVE  GenInv'
<1>1. CASE \E t \in Threads : Starts(t) \/ Oversize(t) \/ Continues(t)
  BY <1>1, GenStarts, GenInCall
<1>2. CASE \E t \in Threads : \E h \in handles : Release(t, h)
  BY <1>2, GenStep DEF Release, Enter
<1>3. CASE \E a \in Addrs : Serves(a) \/ Crash(a)
  BY <1>3, GenHelper
<1>4. CASE Finished \/ UNCHANGED vars
  BY <1>4, GenStep DEF Finished, vars
<1>5. QED
  BY <1>1, <1>2, <1>3, <1>4 DEF Next

(* "Next call launches a new helper" (README.md, line 189): no call is     *)
(* ever handed a Connection whose death an earlier call has returned,      *)
(* however calls, retirements and restarts overlap.                        *)
THEOREM DeadIsNotHandedOut == Spec => []BrokenIsNotReused
<1>1. Init => GenInv
  BY BridgeAssumption DEF Init, Free, GenInv, BrokenIsNotReused
<1>2. Inv /\ Inv' /\ GenInv /\ [Next]_vars => GenInv'
  BY GenNext
<1>3. GenInv => BrokenIsNotReused
  BY DEF GenInv
<1>4. QED
  BY <1>1, <1>2, <1>3, Invariance, PTL DEF Spec
-----------------------------------------------------------------------------
(* A request id is given out once for each Connection, under its mutex.    *)
(* The request, and then the response, that carries the id of the call     *)
(* that holds the mutex carries the token of that call; what else is in    *)
(* the pipes is of earlier calls and has a lower id, or is noise.          *)
Exchanging == {"write", "header", "body"}

Carried(c, rid, token) ==
  \/ \E i \in 1 .. Len(c.stdin) :
       c.stdin[i].rid = rid /\ c.stdin[i].token = token
  \/ \E i \in 1 .. Len(c.stdio) :
       c.stdio[i].of.rid = rid /\ c.stdio[i].of.token = token
  \/ \E i \in 1 .. Len(c.stdout) :
       c.stdout[i].of.rid = rid /\ c.stdout[i].of.token = token

IdsIssued ==
  \A a \in Addrs : \A rid, token \in Nat :
    Carried(conn[a], rid, token) => rid < conn[a].nextRequestId

OwnExchange ==
  \A t \in Threads : thread[t].pc \in Exchanging =>
    /\ conn[thread[t].at].lock = t
    /\ thread[t].rid \in 1 .. conn[thread[t].at].nextRequestId - 1
    /\ \A token \in Nat :
         Carried(conn[thread[t].at], thread[t].rid, token) =>
           token = thread[t].token

CallInv == IdsIssued /\ OwnExchange /\ ReplyMatchesCall

(* What the steps do to what a Connection carries.                         *)
LEMMA CarriedSame ==
  ASSUME NEW c, NEW d, d.stdin = c.stdin, d.stdio = c.stdio,
         d.stdout = c.stdout, NEW rid, NEW token
  PROVE  Carried(d, rid, token) => Carried(c, rid, token)
BY DEF Carried

LEMMA CarriedFree ==
  ASSUME NEW d, d.stdin = <<>>, d.stdio = <<>>, d.stdout = <<>>,
         NEW rid, NEW token
  PROVE  ~Carried(d, rid, token)
BY DEF Carried

LEMMA CarriedWrite ==
  ASSUME NEW c \in Connection, NEW d, NEW q \in Request,
         d.stdin = Append(c.stdin, q), d.stdio = c.stdio,
         d.stdout = c.stdout, NEW rid, NEW token
  PROVE  Carried(d, rid, token) =>
           Carried(c, rid, token) \/ (rid = q.rid /\ token = q.token)
<1>1. c.stdin \in Seq(Request)
  BY DEF Connection
<1>2. \A i \in 1 .. Len(d.stdin) :
        (i \in 1 .. Len(c.stdin) /\ d.stdin[i] = c.stdin[i]) \/ d.stdin[i] = q
  BY <1>1
<1>3. QED
  BY <1>2 DEF Carried

LEMMA RestElements ==
  ASSUME NEW S, NEW s \in Seq(S), NEW n \in Nat, NEW r, r = Rest(s, n)
  PROVE  \A i \in 1 .. Len(r) : \E j \in 1 .. Len(s) : r[i] = s[j]
<1> SUFFICES ASSUME NEW i \in 1 .. Len(r)
             PROVE  \E j \in 1 .. Len(s) : r[i] = s[j]
  OBVIOUS
<1>1. n + i \in 1 .. Len(s) /\ r[i] = s[n + i]
  BY DEF Rest
<1>2. QED
  BY <1>1

LEMMA CarriedTaken ==
  ASSUME NEW c \in Connection, NEW d, NEW n \in Nat,
         d.stdout = Rest(c.stdout, n), d.stdin = c.stdin, d.stdio = c.stdio,
         NEW rid, NEW token
  PROVE  Carried(d, rid, token) => Carried(c, rid, token)
<1>1. c.stdout \in Seq(Cell)
  BY DEF Connection
<1>2. \A i \in 1 .. Len(d.stdout) :
        \E j \in 1 .. Len(c.stdout) : d.stdout[i] = c.stdout[j]
  BY <1>1, RestElements
<1>3. QED
  BY <1>2 DEF Carried

LEMMA CarriedFlush ==
  ASSUME NEW c \in Connection, NEW d, NEW k \in 1 .. Len(c.stdio),
         d.stdout = c.stdout \o SubSeq(c.stdio, 1, k),
         d.stdio = Rest(c.stdio, k), d.stdin = c.stdin,
         NEW rid, NEW token
  PROVE  Carried(d, rid, token) => Carried(c, rid, token)
<1>1. c.stdout \in Seq(Cell) /\ c.stdio \in Seq(Cell) /\ k \in Nat
  BY DEF Connection
<1>2. \A i \in 1 .. Len(d.stdio) :
        \E j \in 1 .. Len(c.stdio) : d.stdio[i] = c.stdio[j]
  <2>1. \A r : r = Rest(c.stdio, k) =>
          \A i \in 1 .. Len(r) : \E j \in 1 .. Len(c.stdio) : r[i] = c.stdio[j]
    <3> DEFINE s == c.stdio
    <3>1. s \in Seq(Cell) /\ k \in Nat
      BY <1>1
    <3> HIDE DEF s
    <3>2. \A r : r = Rest(s, k) =>
            \A i \in 1 .. Len(r) : \E j \in 1 .. Len(s) : r[i] = s[j]
      BY <3>1, RestElements
    <3>3. QED
      BY <3>2 DEF s
  <2>2. QED
    BY <2>1
<1>3. \A i \in 1 .. Len(d.stdout) :
        \/ \E j \in 1 .. Len(c.stdout) : d.stdout[i] = c.stdout[j]
        \/ \E j \in 1 .. Len(c.stdio) : d.stdout[i] = c.stdio[j]
  <2> SUFFICES ASSUME NEW i \in 1 .. Len(d.stdout)
               PROVE  \/ \E j \in 1 .. Len(c.stdout) : d.stdout[i] = c.stdout[j]
                      \/ \E j \in 1 .. Len(c.stdio) : d.stdout[i] = c.stdio[j]
    OBVIOUS
  <2> DEFINE u == SubSeq(c.stdio, 1, k)
             j == i - Len(c.stdout)
  <2>1. u \in Seq(Cell) /\ Len(u) = k /\ \A m \in 1 .. k : u[m] = c.stdio[m]
    BY <1>1
  <2>2. CASE i <= Len(c.stdout)
    BY <1>1, <2>1, <2>2
  <2>3. CASE i > Len(c.stdout)
    <3>1. j \in 1 .. k /\ d.stdout[i] = u[j]
      <4> HIDE DEF u
      <4> QED BY <1>1, <2>1, <2>3
    <3>2. QED
      BY <1>1, <2>1, <3>1
  <2>4. QED
    BY <1>1, <2>2, <2>3
<1>4. QED
  BY <1>2, <1>3 DEF Carried

LEMMA CarriedRespond ==
  ASSUME NEW c \in Connection, NEW d, NEW r \in Response, NEW n \in Nat,
         c.stdin # <<>>, r.rid = Head(c.stdin).rid,
         r.token = Head(c.stdin).token,
         d.stdin = Tail(c.stdin), d.stdio = Noises(n) \o Frame(r),
         d.stdout = c.stdout, NEW rid, NEW token
  PROVE  Carried(d, rid, token) => rid = 0 \/ Carried(c, rid, token)
<1>1. /\ c.stdin \in Seq(Request) /\ Noises(n) \in Seq(Cell)
      /\ Frame(r) \in Seq(Cell)
  BY NoisesType, FrameType DEF Connection
<1>2. \A i \in 1 .. Len(d.stdin) :
        i + 1 \in 1 .. Len(c.stdin) /\ d.stdin[i] = c.stdin[i + 1]
  BY <1>1
<1>3. /\ \A i \in 1 .. Len(Noises(n)) : Noises(n)[i].of.rid = 0
      /\ \A i \in 1 .. Len(Frame(r)) : Frame(r)[i].of = r
  <2>1. Len(Noises(n)) = n /\ \A i \in 1 .. n : Noises(n)[i] = Noise
    BY DEF Noises
  <2>2. HeaderLen + BodyLen(r) \in Nat
    BY BridgeAssumption DEF BodyLen
  <2>3. /\ Len(Frame(r)) = HeaderLen + BodyLen(r)
        /\ \A i \in 1 .. HeaderLen + BodyLen(r) : Frame(r)[i].of = r
    BY <2>2 DEF Frame
  <2>4. QED
    BY <2>1, <2>3 DEF Noise, NoResponse
<1>4. \A i \in 1 .. Len(d.stdio) : d.stdio[i].of.rid = 0 \/ d.stdio[i].of = r
  BY <1>1, <1>3
<1>5. 1 \in 1 .. Len(c.stdin) /\ Head(c.stdin) = c.stdin[1]
  BY <1>1
<1>6. QED
  BY <1>2, <1>4, <1>5 DEF Carried
-----------------------------------------------------------------------------
(* A step that puts nothing on the way but noise and what was there, gives *)
(* out no request id and begins no exchange.                               *)
LEMMA CallStep ==
  ASSUME CallInv, TypeOK, TypeOK',
         \A a \in Addrs : \A rid, token \in Nat :
           Carried(conn'[a], rid, token) =>
             \/ rid = 0
             \/ /\ Carried(conn[a], rid, token)
                /\ conn'[a].nextRequestId = conn[a].nextRequestId,
         \A u \in Threads : thread'[u].pc \in Exchanging =>
           /\ thread[u].pc \in Exchanging
           /\ thread'[u].at = thread[u].at /\ thread[u].at \in Addrs
           /\ thread'[u].rid = thread[u].rid
           /\ thread'[u].token = thread[u].token
           /\ conn'[thread[u].at].lock = u
           /\ conn'[thread[u].at].nextRequestId
                = conn[thread[u].at].nextRequestId,
         ReplyMatchesCall'
  PROVE  CallInv'
<1>1. \A a \in Addrs : conn'[a].nextRequestId \in Nat \ {0}
  <2>1. \A a \in Addrs : conn'[a] \in Connection
    BY DEF TypeOK
  <2>2. \A c \in Connection : c.nextRequestId \in Nat \ {0}
    BY BridgeAssumption DEF Connection
  <2>3. QED
    BY <2>1, <2>2
<1>2. IdsIssued'
  <2> SUFFICES ASSUME NEW a \in Addrs, NEW rid \in Nat, NEW token \in Nat,
                      Carried(conn'[a], rid, token)
               PROVE  rid < conn'[a].nextRequestId
    BY DEF IdsIssued
  <2>1. CASE rid = 0
    BY <1>1, <2>1
  <2>2. CASE rid # 0
    BY <2>2 DEF CallInv, IdsIssued
  <2>3. QED
    BY <2>1, <2>2
<1>3. OwnExchange'
  <2> SUFFICES ASSUME NEW u \in Threads, thread'[u].pc \in Exchanging
               PROVE  /\ conn'[thread'[u].at].lock = u
                      /\ thread'[u].rid \in
                           1 .. conn'[thread'[u].at].nextRequestId - 1
                      /\ \A token \in Nat :
                           Carried(conn'[thread'[u].at], thread'[u].rid, token)
                             => token = thread'[u].token
    BY DEF OwnExchange
  <2>1. /\ thread[u].rid \in 1 .. conn[thread[u].at].nextRequestId - 1
        /\ \A token \in Nat :
             Carried(conn[thread[u].at], thread[u].rid, token) =>
               token = thread[u].token
    BY DEF CallInv, OwnExchange
  <2>2. thread[u].rid \in Nat \ {0}
    BY <1>1, <2>1
  <2>3. QED
    BY <2>1, <2>2
<1>4. QED
  BY <1>2, <1>3 DEF CallInv

(* The mutex has one owner.                                                *)
LEMMA OneExchange ==
  ASSUME CallInv, NEW t \in Threads, NEW u \in Threads,
         thread[t].pc \in Exchanging, thread[u].pc \in Exchanging,
         thread[t].at = thread[u].at
  PROVE  t = u
BY DEF CallInv, OwnExchange

(* c differs from conn in what thread t unlocks and reads.                 *)
ReadBy(t, c) ==
  /\ \A a \in Addrs :
       /\ c[a].nextRequestId = conn[a].nextRequestId
       /\ \A rid, token \in Nat :
            Carried(c[a], rid, token) => Carried(conn[a], rid, token)
  /\ \A u \in Threads \ {t} : thread[u].pc \in Exchanging =>
       c[thread[u].at].lock = u

LEMMA CallReturn ==
  ASSUME Inv, CallInv, TypeOK', NEW t \in Threads,
         NEW c \in [Addrs -> Connection], Return(t, c), ReadBy(t, c)
  PROVE  CallInv'
<1>1. /\ thread'[t] = Idle
      /\ \A u \in Threads \ {t} : thread'[u] = thread[u]
      /\ \A a \in Addrs : conn'[a] = IF Referenced(a)' THEN c[a] ELSE Free
  BY DEF Return, DropUnreferenced, Inv, TypeOK
<1>2. Idle.pc = "idle"
  BY DEF Idle
<1>3. \A a \in Addrs : \A rid, token \in Nat :
        Carried(conn'[a], rid, token) =>
          /\ Carried(conn[a], rid, token)
          /\ conn'[a].nextRequestId = conn[a].nextRequestId
  <2> SUFFICES ASSUME NEW a \in Addrs, NEW rid \in Nat, NEW token \in Nat,
                      Carried(conn'[a], rid, token)
               PROVE  /\ Carried(conn[a], rid, token)
                      /\ conn'[a].nextRequestId = conn[a].nextRequestId
    OBVIOUS
  <2>1. ~Carried(Free, rid, token)
    BY CarriedFree DEF Free
  <2>2. conn'[a] = c[a]
    BY <1>1, <2>1
  <2>3. QED
    BY <2>2 DEF ReadBy
<1>4. ASSUME NEW u \in Threads, thread'[u].pc \in Exchanging
      PROVE  /\ u # t /\ thread'[u] = thread[u] /\ thread[u].at \in Addrs
             /\ conn'[thread[u].at] = c[thread[u].at]
  <2>1. u # t /\ thread'[u] = thread[u]
    BY <1>1, <1>2, <1>4 DEF Exchanging
  <2>2. thread[u].at \in Addrs
    BY <1>4, <2>1 DEF Inv, InsideHasConnection, Exchanging
  <2>3. Referenced(thread[u].at)'
    BY <2>1 DEF Referenced
  <2>4. QED
    BY <1>1, <2>1, <2>2, <2>3
<1>5. ReplyMatchesCall'
  BY <1>1, <1>2 DEF CallInv, ReplyMatchesCall
<1>6. \A u \in Threads : thread'[u].pc \in Exchanging =>
        /\ thread[u].pc \in Exchanging
        /\ thread'[u].at = thread[u].at /\ thread[u].at \in Addrs
        /\ thread'[u].rid = thread[u].rid
        /\ thread'[u].token = thread[u].token
        /\ conn'[thread[u].at].lock = u
        /\ conn'[thread[u].at].nextRequestId
             = conn[thread[u].at].nextRequestId
  BY <1>4 DEF ReadBy
<1>7. TypeOK
  BY DEF Inv
<1>8. QED
  BY <1>3, <1>5, <1>6, <1>7, CallStep

LEMMA ReadByUnlocked ==
  ASSUME Inv, CallInv, NEW t \in Threads, thread[t].pc \in Exchanging
  PROVE  ReadBy(t, Unlocked(t))
<1> DEFINE at == thread[t].at
<1>1. conn \in [Addrs -> Connection] /\ at \in Addrs
  BY DEF Inv, TypeOK, InsideHasConnection, Exchanging
<1>2. /\ \A a \in Addrs :
           /\ Unlocked(t)[a].nextRequestId = conn[a].nextRequestId
           /\ Unlocked(t)[a].stdin = conn[a].stdin
           /\ Unlocked(t)[a].stdio = conn[a].stdio
           /\ Unlocked(t)[a].stdout = conn[a].stdout
      /\ \A a \in Addrs \ {at} : Unlocked(t)[a] = conn[a]
  BY <1>1 DEF Unlocked, Connection
<1>3. \A a \in Addrs : \A rid, token \in Nat :
        Carried(Unlocked(t)[a], rid, token) => Carried(conn[a], rid, token)
  BY <1>2, CarriedSame
<1>4. ASSUME NEW u \in Threads \ {t}, thread[u].pc \in Exchanging
      PROVE  Unlocked(t)[thread[u].at].lock = u
  <2>1. thread[u].at \in Addrs \ {at}
    BY <1>4, OneExchange DEF Inv, InsideHasConnection, Exchanging
  <2>2. QED
    BY <1>2, <1>4, <2>1 DEF CallInv, OwnExchange
<1>5. QED
  BY <1>2, <1>3, <1>4 DEF ReadBy

LEMMA TakenFields ==
  ASSUME NEW c \in [Addrs -> Connection], NEW at \in Addrs, NEW n \in Nat,
         NEW a \in Addrs
  PROVE  LET d == Taken(c, at, n) IN
         /\ d[a].nextRequestId = c[a].nextRequestId /\ d[a].lock = c[a].lock
         /\ d[a].stdin = c[a].stdin /\ d[a].stdio = c[a].stdio
         /\ d[a].stdout = c[a].stdout \/ d[a].stdout = Rest(c[a].stdout, n)
BY DEF Taken, Connection

LEMMA ReadByTaken ==
  ASSUME Inv, CallInv, NEW t \in Threads, thread[t].pc \in Exchanging,
         NEW n \in Nat
  PROVE  ReadBy(t, Taken(Unlocked(t), thread[t].at, n))
<1> DEFINE c == Unlocked(t)
           d == Taken(c, thread[t].at, n)
<1>1. c \in [Addrs -> Connection] /\ thread[t].at \in Addrs
  BY UnlockedType DEF Inv, InsideHasConnection, Exchanging
<1>2. ReadBy(t, c)
  BY ReadByUnlocked
<1>3. \A a \in Addrs :
        /\ d[a].nextRequestId = c[a].nextRequestId /\ d[a].lock = c[a].lock
        /\ d[a].stdin = c[a].stdin /\ d[a].stdio = c[a].stdio
        /\ d[a].stdout = c[a].stdout \/ d[a].stdout = Rest(c[a].stdout, n)
  <2> HIDE DEF c
  <2> QED BY <1>1, TakenFields
<1>4. \A a \in Addrs : \A rid, token \in Nat :
        Carried(d[a], rid, token) => Carried(c[a], rid, token)
  <2> HIDE DEF c, d
  <2> QED BY <1>1, <1>3, CarriedSame, CarriedTaken
<1>5. \A u \in Threads \ {t} : thread[u].pc \in Exchanging =>
        d[thread[u].at].lock = u
  <2> HIDE DEF d, c
  <2> QED BY <1>2, <1>3
      DEF ReadBy, Inv, InsideHasConnection, Exchanging
<1>6. QED
  <2> HIDE DEF d, c
  <2>1. ReadBy(t, d)
    BY <1>2, <1>3, <1>4, <1>5 DEF ReadBy
  <2>2. QED
    BY <2>1 DEF d, c

LEMMA CallBreak ==
  ASSUME Inv, CallInv, TypeOK', NEW t \in Threads,
         NEW c \in [Addrs -> Connection], Break(t, c), ReadBy(t, c)
  PROVE  CallInv'
<1>1. CASE thread[t].op = "drop"
  BY <1>1, CallReturn DEF Break
<1>2. CASE thread[t].op # "drop"
  <2>1. conn' = c /\ thread' = [thread EXCEPT ![t].pc = "retire"]
    BY <1>2 DEF Break
  <2>2. /\ thread'[t].pc = "retire"
        /\ \A u \in Threads \ {t} : thread'[u] = thread[u]
    BY <2>1 DEF Inv, TypeOK, Thread
  <2>3. \A u \in Threads : thread'[u].pc \in Exchanging =>
          u # t /\ thread'[u] = thread[u] /\ thread[u].at \in Addrs
    BY <2>2 DEF Exchanging, Inv, InsideHasConnection
  <2>4. ReplyMatchesCall'
    BY <2>2 DEF CallInv, ReplyMatchesCall
  <2>5. QED
    BY <2>1, <2>3, <2>4, CallStep DEF ReadBy, Inv
<1>3. QED
  BY <1>1, <1>2
-----------------------------------------------------------------------------
(* A call that is entered has no request yet.                              *)
LEMMA CallEnter ==
  ASSUME Inv, CallInv, TypeOK', NEW t \in Threads, NEW op, NEW h, NEW a, NEW g,
         Enter(t, op, h, a, g), conn' = conn
  PROVE  CallInv'
<1>1. /\ thread'[t].pc = "encode"
      /\ \A u \in Threads \ {t} : thread'[u] = thread[u]
  BY DEF Inv, TypeOK, Enter
<1>2. \A u \in Threads : thread'[u].pc \in Exchanging =>
        u # t /\ thread'[u] = thread[u] /\ thread[u].at \in Addrs
  BY <1>1 DEF Exchanging, Inv, InsideHasConnection
<1>3. OwnExchange'
  BY <1>2 DEF CallInv, OwnExchange
<1>4. IdsIssued' /\ ReplyMatchesCall'
  BY <1>1 DEF CallInv, IdsIssued, ReplyMatchesCall
<1>5. QED
  BY <1>3, <1>4 DEF CallInv

LEMMA CallStarts ==
  ASSUME Inv, CallInv, TypeOK', NEW t \in Threads, Starts(t)
  PROVE  CallInv'
<1>0. TypeOK
  BY DEF Inv
<1>1. PICK op \in {"new", "use"}, h \in handles \cup {NoHandle} :
        \/ Connect(t, op, h)
        \/ \E a \in Addrs : Spawn(t, op, h, a)
        \/ SpawnFails(t, op, h)
  BY DEF Starts
<1>2. CASE Connect(t, op, h)
  <2>1. Enter(t, op, h, current, conn[current].gen) /\ conn' = conn
    BY <1>2 DEF Connect
  <2>2. QED
    BY <2>1, CallEnter
<1>3. CASE \E a \in Addrs : Spawn(t, op, h, a)
  <2>1. PICK a \in Addrs : Spawn(t, op, h, a)
    BY <1>3
  <2>2. /\ conn[a].gen = 0
        /\ conn'[a].stdin = <<>> /\ conn'[a].stdio = <<>>
        /\ conn'[a].stdout = <<>>
        /\ \A b \in Addrs \ {a} : conn'[b] = conn[b]
    BY <1>0, <2>1, FreeType DEF Spawn, TypeOK, Connection, Free
  <2>3. /\ thread'[t].pc = "encode"
        /\ \A u \in Threads \ {t} : thread'[u] = thread[u]
    BY <1>0, <2>1 DEF Spawn, Enter, TypeOK
  <2>4. \A u \in Threads : thread[u].at # a
    BY <2>2 DEF Inv, FreeIsUnreferenced, Referenced
  <2>5. \A u \in Threads : thread'[u].pc \in Exchanging =>
          u # t /\ thread'[u] = thread[u] /\ thread[u].at \in Addrs \ {a}
    BY <2>3, <2>4 DEF Exchanging, Inv, InsideHasConnection
  <2>6. \A rid, token \in Nat : ~Carried(conn'[a], rid, token)
    BY <2>2, CarriedFree
  <2>7. IdsIssued' /\ ReplyMatchesCall'
    BY <2>2, <2>3, <2>6 DEF CallInv, IdsIssued, ReplyMatchesCall
  <2>8. OwnExchange'
    <3>1. \A u \in Threads : thread'[u].pc \in Exchanging =>
            /\ thread'[u] = thread[u]
            /\ conn'[thread[u].at] = conn[thread[u].at]
      BY <2>2, <2>5
    <3>2. ASSUME NEW u \in Threads, thread'[u].pc \in Exchanging
          PROVE  /\ conn'[thread'[u].at].lock = u
                 /\ thread'[u].rid \in
                      1 .. conn'[thread'[u].at].nextRequestId - 1
                 /\ \A token \in Nat :
                      Carried(conn'[thread'[u].at], thread'[u].rid, token) =>
                        token = thread'[u].token
      BY <3>1, <3>2 DEF CallInv, OwnExchange
    <3>3. QED
      BY <3>2 DEF OwnExchange
  <2>9. QED
    BY <2>7, <2>8 DEF CallInv
<1>4. CASE SpawnFails(t, op, h)
  BY <1>4
  DEF SpawnFails, Keeps, CallInv, IdsIssued, OwnExchange, ReplyMatchesCall
<1>5. QED
  BY <1>1, <1>2, <1>3, <1>4

(* The id that Lock gives out is above all that is on the way.             *)
LEMMA CallLock ==
  ASSUME Inv, CallInv, TypeOK', NEW t \in Threads, Lock(t)
  PROVE  CallInv'
<1> DEFINE at == thread[t].at
           n == conn[at].nextRequestId
<1>1. /\ at \in Addrs /\ conn \in [Addrs -> Connection]
      /\ thread \in [Threads -> Thread]
  BY DEF Inv, TypeOK, InsideHasConnection, Lock, Encoded
<1>2. n \in Nat \ {0} /\ conn[at].lock = None
  <2>1. \A c \in Connection : c.nextRequestId \in Nat \ {0}
    BY BridgeAssumption DEF Connection
  <2>2. QED
    BY <1>1, <2>1 DEF Lock, Encoded
<1>3. /\ conn'[at].lock = t /\ conn'[at].nextRequestId = n + 1
      /\ conn'[at].stdin = conn[at].stdin /\ conn'[at].stdio = conn[at].stdio
      /\ conn'[at].stdout = conn[at].stdout
      /\ \A b \in Addrs \ {at} : conn'[b] = conn[b]
  BY <1>1 DEF Lock, Connection
<1>4. /\ thread'[t].pc = "write" /\ thread'[t].at = at /\ thread'[t].rid = n
      /\ \A u \in Threads \ {t} : thread'[u] = thread[u]
  BY <1>1 DEF Lock, Thread
<1>5. \A rid, token \in Nat :
        Carried(conn'[at], rid, token) => Carried(conn[at], rid, token)
  BY <1>3, CarriedSame
<1>6. \A rid, token \in Nat : Carried(conn[at], rid, token) => rid < n
  BY <1>1 DEF CallInv, IdsIssued
<1>7. IdsIssued'
  <2> SUFFICES ASSUME NEW a \in Addrs, NEW rid \in Nat, NEW token \in Nat,
                      Carried(conn'[a], rid, token)
               PROVE  rid < conn'[a].nextRequestId
    BY DEF IdsIssued
  <2>1. CASE a = at
    <3>1. rid < n
      BY <1>5, <1>6, <2>1
    <3>2. QED
      BY <1>2, <1>3, <2>1, <3>1
  <2>2. CASE a # at
    BY <1>3, <2>2 DEF CallInv, IdsIssued
  <2>3. QED
    BY <2>1, <2>2
<1>8. ASSUME NEW u \in Threads, thread'[u].pc \in Exchanging
      PROVE  /\ conn'[thread'[u].at].lock = u
             /\ thread'[u].rid \in
                  1 .. conn'[thread'[u].at].nextRequestId - 1
             /\ \A token \in Nat :
                  Carried(conn'[thread'[u].at], thread'[u].rid, token) =>
                    token = thread'[u].token
  <2>1. CASE u = t
    <3>1. \A token \in Nat : ~Carried(conn'[at], n, token)
      BY <1>2, <1>5, <1>6
    <3>2. QED
      BY <1>2, <1>3, <1>4, <2>1, <3>1
  <2>2. CASE u # t
    <3>1. thread'[u] = thread[u] /\ thread[u].pc \in Exchanging
      BY <1>4, <1>8, <2>2
    <3>2. thread[u].at \in Addrs /\ conn[thread[u].at].lock = u
      BY <3>1 DEF CallInv, OwnExchange, Inv, InsideHasConnection, Exchanging
    <3>3. thread[u].at # at
      BY <1>2, <3>2, BridgeAssumption
    <3>4. conn'[thread[u].at] = conn[thread[u].at]
      BY <1>3, <3>2, <3>3
    <3>5. QED
      BY <3>1, <3>4 DEF CallInv, OwnExchange
  <2>3. QED
    BY <2>1, <2>2
<1>9. OwnExchange'
  BY <1>8 DEF OwnExchange
<1>10. ReplyMatchesCall'
  BY <1>4 DEF CallInv, ReplyMatchesCall
<1>11. QED
  BY <1>7, <1>9, <1>10 DEF CallInv

LEMMA CallWrite ==
  ASSUME Inv, CallInv, TypeOK', NEW t \in Threads, Write(t)
  PROVE  CallInv'
<1> DEFINE at == thread[t].at
           q == [rid |-> thread[t].rid, op |-> thread[t].op,
                 id |-> thread[t].arg.id, token |-> thread[t].token,
                 target |-> thread[t].arg.token]
<1>0. thread[t].pc = "write" /\ thread[t].pc \in Exchanging
  BY DEF Write, Exchanging
<1>1. /\ at \in Addrs /\ conn \in [Addrs -> Connection]
      /\ thread \in [Threads -> Thread] /\ conn[at] \in Connection
  BY <1>0 DEF Inv, TypeOK, InsideHasConnection
<1>2. q \in Request /\ q.rid = thread[t].rid /\ q.token = thread[t].token
  BY <1>1 DEF Thread, Handle, NoHandle, Request
<1>3. /\ conn'[at].lock = conn[at].lock
      /\ conn'[at].nextRequestId = conn[at].nextRequestId
      /\ conn'[at].stdin = Append(conn[at].stdin, q)
      /\ conn'[at].stdio = conn[at].stdio
      /\ conn'[at].stdout = conn[at].stdout
      /\ \A b \in Addrs \ {at} : conn'[b] = conn[b]
  <2>1. conn' = [conn EXCEPT ![at].stdin = Append(@, q)]
    BY DEF Write
  <2> HIDE DEF q
  <2>2. QED
    BY <1>1, <2>1 DEF Connection
<1>4. /\ thread'[t].at = at /\ thread'[t].rid = thread[t].rid
      /\ thread'[t].token = thread[t].token /\ thread'[t].pc = "header"
      /\ \A u \in Threads \ {t} : thread'[u] = thread[u]
  BY <1>1 DEF Write, Thread
<1>5. \A rid, token \in Nat : Carried(conn'[at], rid, token) =>
        \/ Carried(conn[at], rid, token)
        \/ rid = thread[t].rid /\ token = thread[t].token
  <2> DEFINE c == conn[at]
             d == conn'[at]
  <2>1. /\ c \in Connection /\ q \in Request /\ d.stdin = Append(c.stdin, q)
        /\ d.stdio = c.stdio /\ d.stdout = c.stdout
    BY <1>1, <1>2, <1>3
  <2>2. q.rid = thread[t].rid /\ q.token = thread[t].token
    OBVIOUS
  <2> HIDE DEF c, d, q
  <2>3. \A rid, token : Carried(d, rid, token) =>
          Carried(c, rid, token) \/ (rid = q.rid /\ token = q.token)
    BY <2>1, CarriedWrite
  <2>4. QED
    BY <2>2, <2>3 DEF c, d
<1>6. thread[t].rid \in 1 .. conn[at].nextRequestId - 1
  BY <1>0 DEF CallInv, OwnExchange
<1>7. IdsIssued'
  <2> SUFFICES ASSUME NEW a \in Addrs, NEW rid \in Nat, NEW token \in Nat,
                      Carried(conn'[a], rid, token)
               PROVE  rid < conn'[a].nextRequestId
    BY DEF IdsIssued
  <2>1. CASE a = at
    <3>1. conn[at].nextRequestId \in Nat
      <4>1. \A c \in Connection : c.nextRequestId \in Nat
        BY BridgeAssumption DEF Connection
      <4>2. QED
        BY <1>1, <4>1
    <3>2. CASE Carried(conn[at], rid, token)
      BY <1>1, <1>3, <2>1, <3>2 DEF CallInv, IdsIssued
    <3>3. CASE rid = thread[t].rid
      BY <1>3, <1>6, <2>1, <3>1, <3>3
    <3>4. QED
      BY <1>5, <2>1, <3>2, <3>3
  <2>2. CASE a # at
    BY <1>3, <2>2 DEF CallInv, IdsIssued
  <2>3. QED
    BY <2>1, <2>2
<1>8. ASSUME NEW u \in Threads, thread'[u].pc \in Exchanging
      PROVE  /\ conn'[thread'[u].at].lock = u
             /\ thread'[u].rid \in
                  1 .. conn'[thread'[u].at].nextRequestId - 1
             /\ \A token \in Nat :
                  Carried(conn'[thread'[u].at], thread'[u].rid, token) =>
                    token = thread'[u].token
  <2>1. CASE u = t
    <3>1. /\ conn[at].lock = t
          /\ \A token \in Nat :
               Carried(conn[at], thread[t].rid, token) =>
                 token = thread[t].token
      BY <1>0 DEF CallInv, OwnExchange
    <3>2. thread[t].rid \in Nat
      BY <1>1 DEF Thread
    <3>3. \A token \in Nat : Carried(conn'[at], thread[t].rid, token) =>
            token = thread[t].token
      BY <1>5, <3>1, <3>2
    <3>4. QED
      BY <1>3, <1>4, <1>6, <2>1, <3>1, <3>3
  <2>2. CASE u # t
    <3>1. thread'[u] = thread[u] /\ thread[u].pc \in Exchanging
      BY <1>4, <1>8, <2>2
    <3>2. thread[u].at \in Addrs \ {at}
      BY <1>0, <2>2, <3>1, OneExchange
      DEF Inv, InsideHasConnection, Exchanging
    <3>3. conn'[thread[u].at] = conn[thread[u].at]
      BY <1>3, <3>2
    <3>4. QED
      BY <3>1, <3>3 DEF CallInv, OwnExchange
  <2>3. QED
    BY <2>1, <2>2
<1>9. OwnExchange'
  BY <1>8 DEF OwnExchange
<1>10. ReplyMatchesCall'
  BY <1>4 DEF CallInv, ReplyMatchesCall
<1>11. QED
  BY <1>7, <1>9, <1>10 DEF CallInv

(* The request id of the header names the call.                            *)
LEMMA CallReadHeader ==
  ASSUME Inv, CallInv, TypeOK', NEW t \in Threads, ReadHeader(t)
  PROVE  CallInv'
<1> DEFINE at == thread[t].at
           r == conn[at].stdout[1].of
<1>0. thread[t].pc = "header" /\ thread[t].pc \in Exchanging
  BY DEF ReadHeader, Exchanging
<1>1. /\ at \in Addrs /\ conn \in [Addrs -> Connection] /\ TypeOK
      /\ thread \in [Threads -> Thread] /\ conn[at] \in Connection
  BY <1>0 DEF Inv, TypeOK, InsideHasConnection
<1>2. /\ conn[at].stdout \in Seq(Cell) /\ Len(conn[at].stdout) >= HeaderLen
      /\ r.rid = thread[t].rid
  BY <1>1 DEF ReadHeader, ValidHeader, Connection
<1>3. 1 \in 1 .. Len(conn[at].stdout)
  BY <1>2, BridgeAssumption
<1>4. r \in Response
  <2>1. conn[at].stdout[1] \in Cell
    BY <1>2, <1>3
  <2>2. QED
    BY <2>1 DEF Cell
<1>5. r.token = thread[t].token
  <2>1. r.token \in Nat
    BY <1>4 DEF Response
  <2>2. Carried(conn[at], thread[t].rid, r.token)
    BY <1>2, <1>3 DEF Carried
  <2>3. QED
    BY <1>0, <2>1, <2>2 DEF CallInv, OwnExchange
<1>6. conn' = Taken(conn, at, HeaderLen) /\ HeaderLen \in Nat
  BY BridgeAssumption DEF ReadHeader
<1>7. \A a \in Addrs :
        /\ conn'[a].nextRequestId = conn[a].nextRequestId
        /\ conn'[a].lock = conn[a].lock
        /\ conn'[a].stdin = conn[a].stdin /\ conn'[a].stdio = conn[a].stdio
        /\ \/ conn'[a].stdout = conn[a].stdout
           \/ conn'[a].stdout = Rest(conn[a].stdout, HeaderLen)
  BY <1>1, <1>6, TakenFields
<1>8. \A a \in Addrs : \A rid, token \in Nat :
        Carried(conn'[a], rid, token) => Carried(conn[a], rid, token)
  BY <1>1, <1>6, <1>7, CarriedSame, CarriedTaken
<1>9. /\ thread'[t].at = at /\ thread'[t].rid = thread[t].rid
      /\ thread'[t].token = thread[t].token /\ thread'[t].reply = r
      /\ \A u \in Threads \ {t} : thread'[u] = thread[u]
  BY <1>1 DEF ReadHeader, Thread
<1>10. \A u \in Threads : thread'[u].pc \in Exchanging =>
         /\ thread[u].pc \in Exchanging
         /\ thread'[u].at = thread[u].at /\ thread[u].at \in Addrs
         /\ thread'[u].rid = thread[u].rid
         /\ thread'[u].token = thread[u].token
         /\ conn'[thread[u].at].lock = u
         /\ conn'[thread[u].at].nextRequestId
              = conn[thread[u].at].nextRequestId
  <2> SUFFICES ASSUME NEW u \in Threads, thread'[u].pc \in Exchanging
               PROVE  /\ thread[u].pc \in Exchanging
                      /\ thread'[u].at = thread[u].at /\ thread[u].at \in Addrs
                      /\ thread'[u].rid = thread[u].rid
                      /\ thread'[u].token = thread[u].token
                      /\ conn'[thread[u].at].lock = u
                      /\ conn'[thread[u].at].nextRequestId
                           = conn[thread[u].at].nextRequestId
    OBVIOUS
  <2>1. /\ thread[u].pc \in Exchanging
        /\ thread'[u].at = thread[u].at /\ thread'[u].rid = thread[u].rid
        /\ thread'[u].token = thread[u].token
    BY <1>0, <1>9
  <2>2. thread[u].at \in Addrs /\ conn[thread[u].at].lock = u
    BY <2>1 DEF CallInv, OwnExchange, Inv, InsideHasConnection, Exchanging
  <2>3. QED
    BY <1>7, <2>1, <2>2
<1>11. ReplyMatchesCall'
  BY <1>5, <1>9 DEF CallInv, ReplyMatchesCall
<1>12. QED
  BY <1>1, <1>7, <1>8, <1>10, <1>11, CallStep

LEMMA CallInCall ==
  ASSUME Inv, CallInv, TypeOK', NEW t \in Threads, Oversize(t) \/ Continues(t)
  PROVE  CallInv'
<1> DEFINE a == thread[t].at
<1>0. TypeOK /\ conn \in [Addrs -> Connection]
  BY DEF Inv, TypeOK
<1>1. CASE Oversize(t) \/ WrongConnection(t) \/ Exhausted(t) \/ Retire(t)
  <2>1. Return(t, conn)
    BY <1>1 DEF Oversize, WrongConnection, Exhausted, Retire
  <2>2. ReadBy(t, conn)
    BY DEF ReadBy, CallInv, OwnExchange
  <2>3. QED
    BY <1>0, <2>1, <2>2, CallReturn
<1>2. CASE WriteFails(t)
  <2>1. Break(t, Unlocked(t)) /\ thread[t].pc \in Exchanging
    BY <1>2 DEF WriteFails, Exchanging
  <2>2. ReadBy(t, Unlocked(t)) /\ Unlocked(t) \in [Addrs -> Connection]
    BY <1>0, <2>1, ReadByUnlocked, UnlockedType
  <2>3. QED
    BY <2>1, <2>2, CallBreak
<1>3. CASE BadHeader(t)
  <2>1. /\ Return(t, Taken(Unlocked(t), a, HeaderLen))
        /\ thread[t].pc \in Exchanging /\ HeaderLen \in Nat
    BY <1>3, BridgeAssumption DEF BadHeader, Exchanging
  <2>2. a \in Addrs
    BY <2>1 DEF Inv, InsideHasConnection, Exchanging
  <2>3. QED
    BY <1>0, <2>1, <2>2, ReadByTaken, UnlockedType, TakenType, CallReturn
<1>4. CASE ReadEof(t)
  <2>1. /\ Break(t, Taken(Unlocked(t), a, Len(conn[a].stdout)))
        /\ thread[t].pc \in Exchanging
    BY <1>4 DEF ReadEof, Exchanging
  <2>2. a \in Addrs
    BY <2>1 DEF Inv, InsideHasConnection, Exchanging
  <2>3. Len(conn[a].stdout) \in Nat
    BY <1>0, <2>2 DEF Connection
  <2>4. QED
    BY <1>0, <2>1, <2>2, <2>3, ReadByTaken, UnlockedType, TakenType, CallBreak
<1>5. CASE ReadBody(t)
  <2>1. /\ Return(t, Taken(Unlocked(t), a, BodyLen(thread[t].reply)))
        /\ thread[t].pc \in Exchanging
    BY <1>5 DEF ReadBody, Exchanging
  <2>2. a \in Addrs
    BY <2>1 DEF Inv, InsideHasConnection, Exchanging
  <2>3. BodyLen(thread[t].reply) \in Nat
    BY DEF BodyLen
  <2>4. QED
    BY <1>0, <2>1, <2>2, <2>3, ReadByTaken, UnlockedType, TakenType, CallReturn
<1>6. QED
  BY <1>1, <1>2, <1>3, <1>4, <1>5, CallLock, CallWrite, CallReadHeader
  DEF Continues

LEMMA RespondCarries ==
  ASSUME TypeOK, NEW a \in Addrs, NEW ok \in BOOLEAN, NEW id \in Nat,
         NEW n \in Nat, NEW objects, NEW next, conn[a].stdin # <<>>,
         Respond(a, ok, id, n, objects, next)
  PROVE  \A b \in Addrs :
           /\ conn'[b].nextRequestId = conn[b].nextRequestId
           /\ conn'[b].lock = conn[b].lock
           /\ \A rid, token \in Nat : Carried(conn'[b], rid, token) =>
                rid = 0 \/ Carried(conn[b], rid, token)
<1> DEFINE q == Head(conn[a].stdin)
           r == [rid |-> q.rid, op |-> q.op, ok |-> ok, id |-> id,
                 token |-> q.token]
           frame == Noises(n) \o Frame(r)
           c == conn[a]
           d == conn'[a]
<1>1. c \in Connection /\ conn \in [Addrs -> Connection]
  BY DEF TypeOK
<1>2. q \in Request
  BY <1>1 DEF Connection
<1>3. r \in Response /\ r.rid = q.rid /\ r.token = q.token
  BY <1>2 DEF Request, Response
<1>4. conn' = [conn EXCEPT ![a].stdin = Tail(@), ![a].stdio = frame,
                           ![a].objects = objects, ![a].nextHandleId = next]
  BY DEF Respond
<1>5. /\ d.nextRequestId = c.nextRequestId /\ d.lock = c.lock
      /\ d.stdin = Tail(c.stdin) /\ d.stdio = frame /\ d.stdout = c.stdout
      /\ \A b \in Addrs \ {a} : conn'[b] = conn[b]
  <2> HIDE DEF frame
  <2> QED BY <1>1, <1>4 DEF Connection
<1>6. \A rid, token : Carried(d, rid, token) => rid = 0 \/ Carried(c, rid, token)
  <2>1. c.stdin # <<>> /\ r.rid = Head(c.stdin).rid
        /\ r.token = Head(c.stdin).token /\ d.stdio = Noises(n) \o Frame(r)
    BY <1>3, <1>5
  <2> HIDE DEF c, d, r, q, frame
  <2> QED BY <1>1, <1>3, <1>5, <2>1, CarriedRespond
<1>7. QED
  <2> SUFFICES ASSUME NEW b \in Addrs
               PROVE  /\ conn'[b].nextRequestId = conn[b].nextRequestId
                      /\ conn'[b].lock = conn[b].lock
                      /\ \A rid, token \in Nat : Carried(conn'[b], rid, token)
                           => rid = 0 \/ Carried(conn[b], rid, token)
    OBVIOUS
  <2>1. CASE b = a
    BY <1>5, <1>6, <2>1
  <2>2. CASE b # a
    BY <1>5, <2>2
  <2>3. QED
    BY <2>1, <2>2

LEMMA CallHelper ==
  ASSUME Inv, CallInv, TypeOK', NEW a \in Addrs, Serves(a) \/ Crash(a)
  PROVE  CallInv'
<1>0. /\ TypeOK /\ conn \in [Addrs -> Connection] /\ conn[a] \in Connection
  BY DEF Inv, TypeOK
<1>1. HelperStep
  BY DEF Serves, Answers, Crash, ServeNew, ServeNull, ServeUse, ServeDrop,
         Respond, Flush
<1>2. \A b \in Addrs :
        /\ conn'[b].nextRequestId = conn[b].nextRequestId
        /\ conn'[b].lock = conn[b].lock
        /\ \A rid, token \in Nat : Carried(conn'[b], rid, token) =>
             rid = 0 \/ Carried(conn[b], rid, token)
  <2>1. CASE \E ok \in BOOLEAN, n \in 0 .. MaxNoise : Answers(a, ok, n)
    <3>1. PICK ok \in BOOLEAN, n \in 0 .. MaxNoise : Answers(a, ok, n)
      BY <2>1
    <3>2. n \in Nat /\ 0 \in Nat /\ conn[a].nextHandleId \in Nat
      BY <1>0, BridgeAssumption DEF Connection
    <3>3. conn[a].stdin # <<>>
      BY <3>1 DEF Answers, ServeNew, ServeNull, ServeUse, ServeDrop, Ready
    <3>4. CASE ServeNew(a, ok, n)
      <4>1. (IF ok THEN conn[a].nextHandleId ELSE 0) \in Nat
        BY <3>2
      <4>2. QED
        BY <1>0, <3>2, <3>3, <3>4, <4>1, RespondCarries DEF ServeNew
    <3>5. CASE ServeNull(a, n)
      BY <1>0, <3>2, <3>3, <3>5, RespondCarries DEF ServeNull
    <3>6. CASE ServeUse(a, ok, n)
      BY <1>0, <3>2, <3>3, <3>6, RespondCarries DEF ServeUse
    <3>7. CASE ServeDrop(a, n)
      BY <1>0, <3>2, <3>3, <3>7, RespondCarries DEF ServeDrop
    <3>8. QED
      BY <3>1, <3>4, <3>5, <3>6, <3>7 DEF Answers
  <2>2. CASE \E k \in 1 .. Len(conn[a].stdio) : Flush(a, k)
    <3>1. PICK k \in 1 .. Len(conn[a].stdio) : Flush(a, k)
      BY <2>2
    <3> DEFINE c == conn[a]
               d == conn'[a]
    <3>2. /\ d.nextRequestId = c.nextRequestId /\ d.lock = c.lock
          /\ d.stdout = c.stdout \o SubSeq(c.stdio, 1, k)
          /\ d.stdio = Rest(c.stdio, k) /\ d.stdin = c.stdin
          /\ \A b \in Addrs \ {a} : conn'[b] = conn[b]
      BY <1>0, <3>1 DEF Flush, Connection
    <3>3. \A rid, token : Carried(d, rid, token) => Carried(c, rid, token)
      <4>1. k \in 1 .. Len(c.stdio)
        OBVIOUS
      <4> HIDE DEF c, d
      <4> QED BY <1>0, <3>2, <4>1, CarriedFlush DEF c
    <3>4. QED
      BY <3>2, <3>3
  <2>3. CASE Crash(a)
    <3>1. /\ conn'[a].nextRequestId = conn[a].nextRequestId
          /\ conn'[a].lock = conn[a].lock
          /\ conn'[a].stdin = <<>> /\ conn'[a].stdio = <<>>
          /\ conn'[a].stdout = conn[a].stdout
          /\ \A b \in Addrs \ {a} : conn'[b] = conn[b]
      BY <1>0, <2>3 DEF Crash, Connection
    <3>2. \A rid, token :
            Carried(conn'[a], rid, token) => Carried(conn[a], rid, token)
      BY <3>1 DEF Carried
    <3>3. QED
      BY <3>1, <3>2
  <2>4. QED
    BY <2>1, <2>2, <2>3 DEF Serves
<1>3. \A u \in Threads : thread'[u] = thread[u]
  BY <1>1 DEF HelperStep
<1>4. \A u \in Threads : thread'[u].pc \in Exchanging =>
        thread[u].at \in Addrs /\ conn'[thread[u].at].lock = u
  BY <1>2, <1>3
  DEF CallInv, OwnExchange, Inv, InsideHasConnection, Exchanging
<1>5. ReplyMatchesCall'
  BY <1>3 DEF CallInv, ReplyMatchesCall
<1>6. QED
  BY <1>0, <1>2, <1>3, <1>4, <1>5, CallStep

LEMMA CallNext ==
  ASSUME Inv, Inv', CallInv, [Next]_vars
  PROVE  CallInv'
<1>0. TypeOK'
  BY DEF Inv
<1>1. CASE \E t \in Threads : Starts(t) \/ Oversize(t) \/ Continues(t)
  BY <1>0, <1>1, CallStarts, CallInCall
<1>2. CASE \E t \in Threads : \E h \in handles : Release(t, h)
  <2>1. PICK t \in Threads, h \in handles : Release(t, h)
    BY <1>2
  <2>2. Enter(t, "drop", h, h.at, h.gen) /\ conn' = conn
    BY <2>1 DEF Release
  <2>3. QED
    BY <1>0, <2>2, CallEnter
<1>3. CASE \E a \in Addrs : Serves(a) \/ Crash(a)
  BY <1>0, <1>3, CallHelper
<1>4. CASE Finished \/ UNCHANGED vars
  BY <1>4
  DEF Finished, vars, CallInv, IdsIssued, OwnExchange, ReplyMatchesCall
<1>5. QED
  BY <1>1, <1>2, <1>3, <1>4 DEF Next

LEMMA CallInvariance == Spec => []CallInv
<1>1. Init => CallInv
  <2> SUFFICES ASSUME Init PROVE CallInv
    OBVIOUS
  <2>1. \A t \in Threads : thread[t].pc = "idle"
    BY DEF Init, Idle
  <2>2. \A a \in Addrs : \A rid, token \in Nat : ~Carried(conn[a], rid, token)
    BY CarriedFree DEF Init, Free
  <2>3. QED
    BY <2>1, <2>2
    DEF CallInv, IdsIssued, OwnExchange, ReplyMatchesCall, Exchanging
<1>2. Inv /\ Inv' /\ CallInv /\ [Next]_vars => CallInv'
  BY CallNext
<1>3. QED
  BY <1>1, <1>2, Invariance, PTL DEF Spec

(* The response that Process::call takes for its own is its own: the       *)
(* request id, which the mutex makes unique on a Connection, is a          *)
(* sufficient test whatever is left in the pipe from earlier calls and     *)
(* whatever the legacy code prints between.                                *)
THEOREM RepliesMatch == Spec => []ReplyMatchesCall
<1>1. CallInv => ReplyMatchesCall
  BY DEF CallInv
<1>2. QED
  BY <1>1, CallInvariance, PTL
-----------------------------------------------------------------------------
(***************************************************************************)
(* That a handle stays good as long as its helper lives (HandlesResolve),  *)
(* for every number of threads, objects, calls and restarts and whatever   *)
(* the legacy code prints.                                                 *)
(*                                                                         *)
(* The argument follows the right to have an object destroyed.  The token  *)
(* of a constructor call names its object; at any time the token is that   *)
(* of one call still under way, or of one handle, or of one release not    *)
(* yet sent, or of one release in the pipe with no use of the object       *)
(* behind it.  So a release takes an object from nobody.                   *)
(***************************************************************************)

Busy(t) == thread[t].pc # "idle"
Making(t) == Busy(t) /\ thread[t].op = "new"
Ending(t) == Busy(t) /\ thread[t].op = "drop"
Dropping(t) == thread[t].pc \in {"encode", "write"} /\ thread[t].op = "drop"

(* On the side of the program: tokens, handles and calls under way.        *)
HandleTokens ==
  /\ \A h \in handles : h.token \in 1 .. calls
  /\ \A h, k \in handles : h.token = k.token => h = k

CallTokens ==
  /\ \A t \in Threads : Busy(t) =>
       thread[t].token \in 1 .. calls /\ thread[t].arg.token <= calls
  /\ \A t, u \in Threads :
       Busy(t) /\ Busy(u) /\ thread[t].token = thread[u].token => t = u

Borrows ==
  \A t \in Threads : Busy(t) /\ thread[t].op = "use" =>
    /\ thread[t].arg \in handles
    /\ thread[t].pc = "write" => thread[t].arg.at = thread[t].at

Ends ==
  \A t \in Threads : Ending(t) =>
    thread[t].arg \in Handle /\ thread[t].arg.at = thread[t].at

NewTokens ==
  \A t \in Threads : Making(t) =>
    /\ \A h \in handles : h.token # thread[t].token
    /\ \A u \in Threads : Ending(u) => thread[u].arg.token # thread[t].token

DropTokens ==
  \A t \in Threads : Dropping(t) =>
    /\ \A h \in handles : h.token # thread[t].arg.token
    /\ \A u \in Threads :
         Dropping(u) /\ thread[u].arg.token = thread[t].arg.token => u = t

Claims ==
  HandleTokens /\ CallTokens /\ Borrows /\ Ends /\ NewTokens /\ DropTokens

(* On the side of the helper: its table, its requests, its responses.      *)
Object(id, token) == [id |-> id, token |-> token]

Table ==
  \A a \in Addrs :
    /\ \A o, p \in conn[a].objects : o.id = p.id => o = p
    /\ \A o \in conn[a].objects : o.id < conn[a].nextHandleId
    /\ ~conn[a].running => conn[a].stdin = <<>>

Held ==
  \A a \in Addrs : conn[a].running =>
    /\ \A h \in handles :
         h.at = a => Object(h.id, h.token) \in conn[a].objects
    /\ \A t \in Threads : Dropping(t) /\ thread[t].at = a =>
         Object(thread[t].arg.id, thread[t].arg.token) \in conn[a].objects

GoodRequest(q, objects) ==
  /\ q.token \in 1 .. calls /\ q.target <= calls
  /\ \A t \in Threads :
       Busy(t) /\ thread[t].token = q.token => thread[t].op = q.op
  /\ q.op # "new" => Object(q.id, q.target) \in objects
  /\ q.op = "drop" =>
       /\ \A h \in handles : h.token # q.target
       /\ \A t \in Threads : Dropping(t) => thread[t].arg.token # q.target
       /\ \A t \in Threads : Making(t) => thread[t].token # q.target

LastUse(s) ==
  \A i \in 1 .. Len(s) : \A j \in i + 1 .. Len(s) :
    s[i].op = "drop" /\ s[j].op # "new" => s[j].target # s[i].target

Requests ==
  \A a \in Addrs :
    /\ \A i \in 1 .. Len(conn[a].stdin) :
         GoodRequest(conn[a].stdin[i], conn[a].objects)
    /\ LastUse(conn[a].stdin)

Answered(c, r) ==
  \/ \E i \in 1 .. Len(c.stdio) : c.stdio[i].of = r
  \/ \E i \in 1 .. Len(c.stdout) : c.stdout[i].of = r

Replies ==
  \A a \in Addrs : \A r \in Response : Answered(conn[a], r) =>
    /\ r.token <= calls
    /\ \A t \in Threads :
         /\ conn[a].running /\ Making(t) /\ thread[t].at = a
         /\ r.ok /\ r.token = thread[t].token
         => Object(r.id, r.token) \in conn[a].objects

Received ==
  \A t \in Threads :
    /\ thread[t].pc = "body" /\ thread[t].op = "new" /\ thread[t].reply.ok
    /\ conn[thread[t].at].running
    => Object(thread[t].reply.id, thread[t].token)
         \in conn[thread[t].at].objects

Service == Table /\ Held /\ Requests /\ Replies /\ Received
-----------------------------------------------------------------------------
(* Claims, by the kind of step.                                            *)

(* A call goes on: it has the arguments it had.                            *)
GoesOn(u) ==
  /\ Busy(u) /\ Busy(u)'
  /\ thread'[u].op = thread[u].op /\ thread'[u].arg = thread[u].arg
  /\ thread'[u].at = thread[u].at /\ thread'[u].token = thread[u].token
  /\ Dropping(u)' => Dropping(u)
  /\ thread'[u].pc = "write" /\ thread[u].op = "use" =>
       thread[u].arg.at = thread[u].at

LEMMA SameGoesOn ==
  ASSUME Claims, NEW u \in Threads, thread'[u] = thread[u], Busy(u)
  PROVE  GoesOn(u)
BY DEF Claims, Borrows, GoesOn, Busy, Dropping

LEMMA ClaimsGoOn ==
  ASSUME Claims, handles' = handles, calls' = calls,
         \A u \in Threads : Busy(u)' => GoesOn(u)
  PROVE  Claims'
<1>1. HandleTokens' /\ CallTokens' /\ Borrows'
  BY DEF Claims, HandleTokens, CallTokens, Borrows, GoesOn
<1>2. \A u \in Threads : /\ Making(u)' => Making(u)
                         /\ Ending(u)' => Ending(u)
                         /\ Dropping(u)' => Dropping(u) /\ Busy(u)'
  BY DEF GoesOn, Making, Ending, Dropping, Busy
<1>3. Ends' /\ NewTokens' /\ DropTokens'
  <2>1. Ends'
    BY <1>2 DEF Claims, Ends, GoesOn, Ending
  <2>2. NewTokens'
    BY <1>2 DEF Claims, NewTokens, GoesOn, Making, Ending
  <2>3. DropTokens'
    BY <1>2 DEF Claims, DropTokens, GoesOn
  <2>4. QED
    BY <2>1, <2>2, <2>3
<1>4. QED
  BY <1>1, <1>3 DEF Claims

(* A constructor call ends with a handle.                                  *)
LEMMA ClaimsMade ==
  ASSUME Claims, NEW t \in Threads, Making(t), NEW new \in Handle,
         new.token = thread[t].token, handles' = handles \cup {new},
         calls' = calls, ~Busy(t)',
         \A u \in Threads \ {t} : thread'[u] = thread[u]
  PROVE  Claims'
<1>1. \A u \in Threads : Busy(u)' => u # t /\ GoesOn(u)
  BY SameGoesOn DEF Busy
<1>2. \A u \in Threads : /\ Making(u)' => Making(u)
                         /\ Ending(u)' => Ending(u)
                         /\ Dropping(u)' => Dropping(u) /\ Busy(u)'
  BY <1>1 DEF GoesOn, Making, Ending, Dropping, Busy
<1>3. HandleTokens' /\ CallTokens' /\ Borrows'
  BY <1>1 DEF Claims, HandleTokens, CallTokens, Borrows, GoesOn, NewTokens,
              Making
<1>4. Ends'
  BY <1>1, <1>2 DEF Claims, Ends, GoesOn, Ending
<1>5. NewTokens'
  BY <1>1, <1>2 DEF Claims, NewTokens, CallTokens, GoesOn, Making, Ending
<1>6. DropTokens'
  BY <1>1, <1>2 DEF Claims, DropTokens, NewTokens, GoesOn, Ending, Dropping,
                    Busy
<1>7. QED
  BY <1>3, <1>4, <1>5, <1>6 DEF Claims

(* A function is entered, with no handle or with one that it borrows.      *)
LEMMA ClaimsEnter ==
  ASSUME TypeOK, Claims, NEW t \in Threads, NEW op, NEW h, NEW a, NEW g,
         ~Busy(t), Enter(t, op, h, a, g), handles' = handles,
         (op = "new" /\ h = NoHandle) \/ (op = "use" /\ h \in handles)
  PROVE  Claims'
<1>1. /\ thread'[t].pc = "encode" /\ thread'[t].op = op
      /\ thread'[t].arg = h /\ thread'[t].token = calls + 1
      /\ \A u \in Threads \ {t} : thread'[u] = thread[u]
      /\ calls' = calls + 1 /\ calls \in Nat
  BY BridgeAssumption DEF TypeOK, Enter
<1>2. \A u \in Threads \ {t} : Busy(u)' => GoesOn(u)
  BY <1>1, SameGoesOn DEF Busy
<1>3. \A u \in Threads : /\ u # t /\ Making(u)' => Making(u)
                         /\ Ending(u)' => Ending(u) /\ u # t
                         /\ Dropping(u)' => Dropping(u) /\ Busy(u)' /\ u # t
  BY <1>1, <1>2 DEF GoesOn, Making, Ending, Dropping, Busy
<1>4. h.token <= calls /\ h.token \in Nat
  BY <1>1 DEF Claims, HandleTokens, NoHandle
<1>4a. \A k \in handles : k.token \in 1 .. calls
  BY DEF Claims, HandleTokens
<1>4b. \A u \in Threads : Busy(u) =>
         thread[u].token \in 1 .. calls /\ thread[u].arg.token <= calls
  BY DEF Claims, CallTokens
<1>4c. \A u \in Threads : Ending(u) => thread[u].arg.token \in Nat
  BY DEF Claims, Ends, Handle
<1>4d. \A u \in Threads : thread[u].arg.token \in Nat
  <2>1. \A u \in Threads : thread[u].arg \in Handle \cup {NoHandle}
    BY DEF TypeOK, Thread
  <2>2. \A k \in Handle \cup {NoHandle} : k.token \in Nat
    BY DEF Handle, NoHandle
  <2>3. QED
    BY <2>1, <2>2
<1>5. HandleTokens'
  BY <1>1 DEF Claims, HandleTokens
<1>6. CallTokens'
  <2>1. \A u \in Threads : Busy(u)' =>
          thread'[u].token \in 1 .. calls' /\ thread'[u].arg.token <= calls'
    <3> SUFFICES ASSUME NEW u \in Threads, Busy(u)'
                 PROVE  /\ thread'[u].token \in 1 .. calls'
                        /\ thread'[u].arg.token <= calls'
      OBVIOUS
    <3>1. CASE u = t
      BY <1>1, <1>4, <3>1
    <3>2. CASE u # t
      <4>1. thread'[u] = thread[u] /\ Busy(u)
        BY <1>1, <1>2, <3>2 DEF GoesOn
      <4>2. QED
        BY <1>1, <1>4b, <1>4d, <4>1
    <3>3. QED
      BY <3>1, <3>2
  <2>2. \A u, v \in Threads :
          Busy(u)' /\ Busy(v)' /\ thread'[u].token = thread'[v].token => u = v
    <3>1. \A u \in Threads \ {t} : Busy(u)' =>
            Busy(u) /\ thread'[u].token = thread[u].token
            /\ thread[u].token # calls + 1
      BY <1>1, <1>2, <1>4b DEF GoesOn
    <3>2. QED
      BY <1>1, <3>1 DEF Claims, CallTokens
  <2>3. QED
    BY <2>1, <2>2 DEF CallTokens
<1>7. Borrows'
  BY <1>1, <1>2 DEF Claims, Borrows, GoesOn
<1>8. Ends'
  BY <1>1, <1>3 DEF Claims, Ends
<1>9. NewTokens'
  <2> SUFFICES ASSUME NEW u \in Threads, Making(u)'
               PROVE  /\ \A k \in handles' : k.token # thread'[u].token
                      /\ \A v \in Threads : Ending(v)' =>
                           thread'[v].arg.token # thread'[u].token
    BY DEF NewTokens
  <2>1. \A v \in Threads : Ending(v)' =>
          Ending(v) /\ thread'[v] = thread[v] /\ Busy(v)
    BY <1>1, <1>3 DEF Ending
  <2>2. CASE u = t
    BY <1>1, <1>4a, <1>4b, <1>4c, <2>1, <2>2
  <2>3. CASE u # t
    BY <1>1, <1>3, <2>1, <2>3 DEF Claims, NewTokens
  <2>4. QED
    BY <2>2, <2>3
<1>10. DropTokens'
  BY <1>1, <1>3 DEF Claims, DropTokens
<1>11. QED
  BY <1>5, <1>6, <1>7, <1>8, <1>9, <1>10 DEF Claims

(* A release takes the handle and with it the right to the object.         *)
LEMMA ClaimsRelease ==
  ASSUME TypeOK, Claims, NEW t \in Threads, NEW h \in handles, Release(t, h)
  PROVE  Claims'
<1>1. /\ thread'[t].pc = "encode" /\ thread'[t].op = "drop"
      /\ thread'[t].arg = h /\ thread'[t].token = calls + 1
      /\ thread'[t].at = h.at
      /\ \A u \in Threads \ {t} : thread'[u] = thread[u]
      /\ calls' = calls + 1 /\ calls \in Nat
      /\ handles' = handles \ {h} /\ h \in Handle
      /\ \A u \in Threads : thread[u].arg # h
  BY BridgeAssumption DEF TypeOK, Enter, Release
<1>2. \A u \in Threads \ {t} : Busy(u)' => GoesOn(u)
  BY <1>1, SameGoesOn DEF Busy
<1>3. \A u \in Threads : /\ Making(u)' => Making(u) /\ u # t
                         /\ u # t /\ Ending(u)' => Ending(u)
                         /\ u # t /\ Dropping(u)' => Dropping(u)
  BY <1>1, <1>2 DEF GoesOn, Making, Ending, Dropping, Busy
<1>4. \A k \in handles : k.token \in 1 .. calls
  BY DEF Claims, HandleTokens
<1>5. \A u \in Threads : Busy(u) =>
        thread[u].token \in 1 .. calls /\ thread[u].arg.token <= calls
  BY DEF Claims, CallTokens
<1>6. \A u \in Threads : thread[u].arg.token \in Nat
  <2>1. \A u \in Threads : thread[u].arg \in Handle \cup {NoHandle}
    BY DEF TypeOK, Thread
  <2>2. \A k \in Handle \cup {NoHandle} : k.token \in Nat
    BY DEF Handle, NoHandle
  <2>3. QED
    BY <2>1, <2>2
<1>7. HandleTokens'
  BY <1>1 DEF Claims, HandleTokens
<1>8. CallTokens'
  <2>1. \A u \in Threads : Busy(u)' =>
          thread'[u].token \in 1 .. calls' /\ thread'[u].arg.token <= calls'
    <3> SUFFICES ASSUME NEW u \in Threads, Busy(u)'
                 PROVE  /\ thread'[u].token \in 1 .. calls'
                        /\ thread'[u].arg.token <= calls'
      OBVIOUS
    <3>1. CASE u = t
      BY <1>1, <1>4, <3>1
    <3>2. CASE u # t
      <4>1. thread'[u] = thread[u] /\ Busy(u)
        BY <1>1, <1>2, <3>2 DEF GoesOn
      <4>2. QED
        BY <1>1, <1>5, <1>6, <4>1
    <3>3. QED
      BY <3>1, <3>2
  <2>2. \A u, v \in Threads :
          Busy(u)' /\ Busy(v)' /\ thread'[u].token = thread'[v].token => u = v
    <3>1. \A u \in Threads \ {t} : Busy(u)' =>
            Busy(u) /\ thread'[u].token = thread[u].token
            /\ thread[u].token # calls + 1
      BY <1>1, <1>2, <1>5 DEF GoesOn
    <3>2. QED
      BY <1>1, <3>1 DEF Claims, CallTokens
  <2>3. QED
    BY <2>1, <2>2 DEF CallTokens
<1>9. Borrows'
  BY <1>1, <1>2 DEF Claims, Borrows, GoesOn
<1>10. Ends'
  BY <1>1, <1>3 DEF Claims, Ends
<1>11. NewTokens'
  BY <1>1, <1>3 DEF Claims, NewTokens
<1>12. DropTokens'
  <2>1. \A k \in handles' : k.token # h.token
    BY <1>1 DEF Claims, HandleTokens
  <2>2. \A u \in Threads \ {t} : Dropping(u)' =>
          Dropping(u) /\ thread'[u] = thread[u]
    BY <1>1, <1>3
  <2>3. \A u \in Threads : Dropping(u) => thread[u].arg.token # h.token
    BY DEF Claims, DropTokens
  <2>4. QED
    BY <1>1, <2>1, <2>2, <2>3 DEF Claims, DropTokens
<1>13. QED
  BY <1>7, <1>8, <1>9, <1>10, <1>11, <1>12 DEF Claims

(* A call ends without a handle, or takes one step further.                *)
LEMMA ClaimsReturn ==
  ASSUME TypeOK, Claims, NEW t \in Threads, NEW c, Return(t, c),
         handles' = handles
  PROVE  Claims'
<1>1. /\ ~Busy(t)' /\ calls' = calls
      /\ \A u \in Threads \ {t} : thread'[u] = thread[u]
  BY DEF TypeOK, Return, Idle, Busy
<1>2. \A u \in Threads : Busy(u)' => GoesOn(u)
  BY <1>1, SameGoesOn DEF Busy
<1>3. QED
  BY <1>1, <1>2, ClaimsGoOn

LEMMA ClaimsStep ==
  ASSUME TypeOK, Claims, NEW t \in Threads, NEW pc, Busy(t),
         thread[t].op = "drop" =>
           thread[t].pc = "encode" \/ pc \notin {"encode", "write"},
         pc = "write" /\ thread[t].op = "use" => thread[t].arg.at = thread[t].at,
         /\ thread'[t].pc = pc
         /\ thread'[t].op = thread[t].op /\ thread'[t].arg = thread[t].arg
         /\ thread'[t].at = thread[t].at /\ thread'[t].token = thread[t].token,
         \A u \in Threads \ {t} : thread'[u] = thread[u],
         handles' = handles, calls' = calls
  PROVE  Claims'
<1>1. Busy(t)' => GoesOn(t)
  BY DEF GoesOn, Dropping, Busy
<1>2. \A u \in Threads : Busy(u)' => GoesOn(u)
  BY <1>1, SameGoesOn DEF Busy
<1>3. QED
  BY <1>2, ClaimsGoOn

LEMMA ClaimsBreak ==
  ASSUME TypeOK, Claims, NEW t \in Threads, Busy(t), NEW c, Break(t, c)
  PROVE  Claims'
<1>1. CASE thread[t].op = "drop"
  BY <1>1, ClaimsReturn DEF Break
<1>2. CASE thread[t].op # "drop"
  <2>1. /\ thread' = [thread EXCEPT ![t].pc = "retire"]
        /\ calls' = calls /\ handles' = handles
    BY <1>2 DEF Break
  <2>2. /\ thread'[t].pc = "retire"
        /\ thread'[t].op = thread[t].op /\ thread'[t].arg = thread[t].arg
        /\ thread'[t].at = thread[t].at /\ thread'[t].token = thread[t].token
        /\ \A u \in Threads \ {t} : thread'[u] = thread[u]
    BY <2>1 DEF TypeOK, Thread
  <2>3. QED
    BY <1>2, <2>1, <2>2, ClaimsStep
<1>3. QED
  BY <1>1, <1>2

LEMMA ClaimsInCall ==
  ASSUME Inv, Claims, NEW t \in Threads, Oversize(t) \/ Continues(t)
  PROVE  Claims'
<1>0. TypeOK /\ thread[t] \in Thread /\ thread \in [Threads -> Thread]
  BY DEF Inv, TypeOK
<1>1. CASE Oversize(t) \/ WrongConnection(t) \/ Exhausted(t) \/ Retire(t)
           \/ BadHeader(t)
  <2>1. /\ \E c : Return(t, c)
        /\ handles' = handles
    BY <1>1 DEF Oversize, WrongConnection, Exhausted, Retire, BadHeader, Keeps
  <2>2. QED
    BY <1>0, <2>1, ClaimsReturn
<1>2. CASE Lock(t)
  <2>1. /\ thread' = [thread EXCEPT ![t].pc = "write",
                         ![t].rid = conn[thread[t].at].nextRequestId]
        /\ calls' = calls /\ handles' = handles
        /\ thread[t].pc = "encode"
        /\ thread[t].op = "use" => thread[t].arg.at = thread[t].at
    BY <1>2 DEF Lock, Encoded, SameConnection, Keeps
  <2>2. /\ thread'[t].pc = "write"
        /\ thread'[t].op = thread[t].op /\ thread'[t].arg = thread[t].arg
        /\ thread'[t].at = thread[t].at /\ thread'[t].token = thread[t].token
        /\ \A u \in Threads \ {t} : thread'[u] = thread[u]
    BY <1>0, <2>1 DEF Thread
  <2>3. QED
    BY <1>0, <2>1, <2>2, ClaimsStep DEF Busy
<1>3. CASE Write(t)
  <2>1. /\ thread' = [thread EXCEPT ![t].pc = "header"]
        /\ calls' = calls /\ handles' = handles
        /\ thread[t].pc = "write"
    BY <1>3 DEF Write, Keeps
  <2>2. /\ thread'[t].pc = "header"
        /\ thread'[t].op = thread[t].op /\ thread'[t].arg = thread[t].arg
        /\ thread'[t].at = thread[t].at /\ thread'[t].token = thread[t].token
        /\ \A u \in Threads \ {t} : thread'[u] = thread[u]
    BY <1>0, <2>1 DEF Thread
  <2>3. QED
    BY <1>0, <2>1, <2>2, ClaimsStep DEF Busy
<1>4. CASE ReadHeader(t)
  <2>1. /\ thread' = [thread EXCEPT ![t].pc = "body",
                         ![t].reply = conn[thread[t].at].stdout[1].of]
        /\ calls' = calls /\ handles' = handles
        /\ thread[t].pc = "header"
    BY <1>4 DEF ReadHeader, Keeps
  <2>2. /\ thread'[t].pc = "body"
        /\ thread'[t].op = thread[t].op /\ thread'[t].arg = thread[t].arg
        /\ thread'[t].at = thread[t].at /\ thread'[t].token = thread[t].token
        /\ \A u \in Threads \ {t} : thread'[u] = thread[u]
    BY <1>0, <2>1 DEF Thread
  <2>3. QED
    BY <1>0, <2>1, <2>2, ClaimsStep DEF Busy
<1>5. CASE WriteFails(t) \/ ReadEof(t)
  <2>1. Busy(t) /\ \E c : Break(t, c)
    BY <1>5 DEF WriteFails, ReadEof, Busy
  <2>2. QED
    BY <1>0, <2>1, ClaimsBreak
<1>6. CASE ReadBody(t)
  <2>1. thread[t].pc = "body" /\ \E c : Return(t, c)
    BY <1>6 DEF ReadBody
  <2>2. CASE thread[t].op = "new" /\ thread[t].reply.ok
    <3> DEFINE new == [at |-> thread[t].at, gen |-> thread[t].gen,
                       id |-> thread[t].reply.id, token |-> thread[t].token]
    <3>1. handles' = handles \cup {new}
      BY <1>6, <2>2 DEF ReadBody
    <3>2. thread[t].at \in Addrs
      BY <2>1 DEF Inv, InsideHasConnection
    <3>3. new \in Handle
      BY <1>0, <3>2 DEF Thread, Response, Handle
    <3>4. /\ ~Busy(t)' /\ calls' = calls
          /\ \A u \in Threads \ {t} : thread'[u] = thread[u]
      BY <1>0, <2>1 DEF Return, Idle, Busy
    <3>5. Making(t) /\ new.token = thread[t].token
      BY <2>1, <2>2 DEF Making, Busy
    <3> HIDE DEF new
    <3> QED BY <3>1, <3>3, <3>4, <3>5, ClaimsMade
  <2>3. CASE ~(thread[t].op = "new" /\ thread[t].reply.ok)
    <3>1. handles' = handles
      BY <1>6, <2>3 DEF ReadBody
    <3>2. QED
      BY <1>0, <2>1, <3>1, ClaimsReturn
  <2>4. QED
    BY <2>2, <2>3
<1>7. QED
  BY <1>1, <1>2, <1>3, <1>4, <1>5, <1>6 DEF Continues

LEMMA ClaimsNext ==
  ASSUME Inv, Claims, [Next]_vars
  PROVE  Claims'
<1>0. TypeOK
  BY DEF Inv
<1>1. ASSUME NEW t \in Threads, Starts(t)
      PROVE  Claims'
  <2>1. PICK op \in {"new", "use"}, h \in handles \cup {NoHandle} :
          \/ Connect(t, op, h)
          \/ \E a \in Addrs : Spawn(t, op, h, a)
          \/ SpawnFails(t, op, h)
    BY <1>1 DEF Starts
  <2>2. CASE SpawnFails(t, op, h)
    <3>1. thread' = thread /\ handles' = handles /\ calls' = calls + 1
          /\ calls \in Nat
      BY <1>0, <2>2, BridgeAssumption DEF SpawnFails, Keeps, TypeOK
    <3>2. \A u \in Threads : thread[u].token \in Nat /\ thread[u].arg.token \in Nat
      <4>1. \A u \in Threads : thread[u] \in Thread
        BY <1>0 DEF TypeOK
      <4>2. \A k \in Handle \cup {NoHandle} : k.token \in Nat
        BY DEF Handle, NoHandle
      <4>3. QED
        BY <4>1, <4>2 DEF Thread
    <3>3. HandleTokens' /\ CallTokens'
      BY <3>1, <3>2 DEF Claims, HandleTokens, CallTokens, Busy
    <3>4. Borrows' /\ Ends' /\ NewTokens' /\ DropTokens'
      BY <3>1 DEF Claims, Borrows, Ends, NewTokens, DropTokens, Busy, Making,
                  Ending, Dropping
    <3>5. QED
      BY <3>3, <3>4 DEF Claims
  <2>3. CASE Connect(t, op, h)
    <3>1. /\ CallWith(t, op, h) /\ handles' = handles
          /\ Enter(t, op, h, current, conn[current].gen)
      BY <2>3 DEF Connect, Keeps
    <3>2. /\ ~Busy(t)
          /\ (op = "new" /\ h = NoHandle) \/ (op = "use" /\ h \in handles)
      BY <3>1 DEF Busy, CallWith
    <3>3. QED
      BY <1>0, <3>1, <3>2, ClaimsEnter
  <2>4. CASE \E a \in Addrs : Spawn(t, op, h, a)
    <3>1. PICK a \in Addrs : Spawn(t, op, h, a)
      BY <2>4
    <3>2. /\ CallWith(t, op, h) /\ handles' = handles
          /\ Enter(t, op, h, a, spawned + 1)
      BY <3>1 DEF Spawn
    <3>3. /\ ~Busy(t)
          /\ (op = "new" /\ h = NoHandle) \/ (op = "use" /\ h \in handles)
      BY <3>2 DEF Busy, CallWith
    <3>4. QED
      BY <1>0, <3>2, <3>3, ClaimsEnter
  <2>5. QED
    BY <2>1, <2>2, <2>3, <2>4
<1>2. CASE \E a \in Addrs : Serves(a) \/ Crash(a)
  <2> PICK a \in Addrs : Serves(a) \/ Crash(a)
    BY <1>2
  <2>0. HelperStep
    BY DEF Serves, Answers, Crash, ServeNew, ServeNull, ServeUse,
                ServeDrop, Respond, Flush
  <2>1. UNCHANGED <<thread, handles, calls>>
    BY <2>0 DEF HelperStep
  <2>2. \A u \in Threads : Busy(u)' => GoesOn(u)
    BY <2>1, SameGoesOn DEF Busy
  <2>3. QED
    BY <2>1, <2>2, ClaimsGoOn
<1>3. CASE Finished \/ UNCHANGED vars
  <2>1. UNCHANGED <<thread, handles, calls>>
    BY <1>3 DEF Finished, vars
  <2>2. \A u \in Threads : Busy(u)' => GoesOn(u)
    BY <2>1, SameGoesOn DEF Busy
  <2>3. QED
    BY <2>1, <2>2, ClaimsGoOn
<1>4. QED
  BY <1>0, <1>1, <1>2, <1>3, ClaimsInCall, ClaimsRelease DEF Next

-----------------------------------------------------------------------------
(* Service.  What every step but the write of a request and the service of *)
(* one does: calls go on, end or are entered; a handle is old or that of   *)
(* an object in the table; a helper keeps what it had, or has nothing.     *)
Entered(u) ==
  /\ thread'[u].pc = "encode" /\ thread'[u].token = calls + 1
  /\ thread'[u].op = "drop" =>
       thread'[u].arg \in handles /\ thread'[u].arg.at = thread'[u].at

Made(h) ==
  /\ \E t \in Threads : Making(t) /\ h.token = thread[t].token
  /\ conn[h.at].running => Object(h.id, h.token) \in conn[h.at].objects

Proceeds ==
  /\ calls' \in Nat /\ calls <= calls'
  /\ \A u \in Threads : Busy(u)' => GoesOn(u) \/ Entered(u)
  /\ \A h \in handles' : h \in handles \/ Made(h)

Receives ==
  \A u \in Threads : thread'[u].pc = "body" =>
    \/ thread'[u] = thread[u]
    \/ /\ GoesOn(u) /\ thread'[u].reply \in Response
       /\ Answered(conn[thread[u].at], thread'[u].reply)
       /\ thread'[u].reply.token = thread[u].token

NothingNew(c, d) ==
  \A r \in Response : Answered(d, r) => Answered(c, r)

KeepsTable(c, d) ==
  /\ d.objects = c.objects /\ d.running = c.running
  /\ NothingNew(c, d)

Emptied(a) ==
  /\ conn'[a].objects = {} /\ conn'[a].stdin = <<>>
  /\ NothingNew(conn[a], conn'[a])
  /\ conn'[a].running =>
       /\ \A h \in handles' : h.at # a
       /\ \A u \in Threads : Busy(u)' /\ thread'[u].at = a =>
            Entered(u) /\ thread'[u].op # "drop"

LEMMA Numbers ==
  ASSUME TypeOK
  PROVE  /\ calls \in Nat
         /\ \A u \in Threads : /\ thread[u].token \in Nat
                               /\ thread[u].arg.token \in Nat
                               /\ thread[u].arg.id \in Nat
         /\ \A h \in handles : h.token \in Nat /\ h.at \in Addrs
         /\ \A a \in Addrs : conn[a] \in Connection
<1>1. \A u \in Threads : thread[u] \in Thread
  BY DEF TypeOK
<1>2. \A k \in Handle \cup {NoHandle} : k.token \in Nat /\ k.id \in Nat
  BY DEF Handle, NoHandle
<1>3. calls \in Nat
  BY BridgeAssumption DEF TypeOK
<1>4. \A h \in handles : h.token \in Nat /\ h.at \in Addrs
  BY DEF TypeOK, Handle
<1>5. \A a \in Addrs : conn[a] \in Connection
  BY DEF TypeOK
<1>6. QED
  BY <1>1, <1>2, <1>3, <1>4, <1>5 DEF Thread

(* A good request stays good.  GoodAfter is GoodRequest after the step, of  *)
(* a request before it.                                                    *)
GoodAfter(q, objects) ==
  /\ q.token \in 1 .. calls' /\ q.target <= calls'
  /\ \A t \in Threads :
       Busy(t)' /\ thread'[t].token = q.token => thread'[t].op = q.op
  /\ q.op # "new" => Object(q.id, q.target) \in objects
  /\ q.op = "drop" =>
       /\ \A h \in handles' : h.token # q.target
       /\ \A t \in Threads : Dropping(t)' => thread'[t].arg.token # q.target
       /\ \A t \in Threads : Making(t)' => thread'[t].token # q.target

LEMMA RequestKeeps ==
  ASSUME TypeOK, Claims, Proceeds, NEW q \in Request, NEW S, NEW T,
         GoodRequest(q, S),
         q.op # "new" => Object(q.id, q.target) \in T
  PROVE  GoodAfter(q, T)
<1>1. calls \in Nat /\ q.token \in Nat /\ q.target \in Nat
  BY Numbers DEF Request
<1>2. q.token \in 1 .. calls /\ q.target <= calls
  BY DEF GoodRequest
<1>3. q.token \in 1 .. calls' /\ q.target <= calls'
  BY <1>1, <1>2 DEF Proceeds
<1>4. ASSUME NEW u \in Threads, Busy(u)'
      PROVE  \/ GoesOn(u) \/ Entered(u)
  BY <1>4 DEF Proceeds
<1>5. ASSUME NEW u \in Threads, Busy(u)', thread'[u].token = q.token
      PROVE  thread'[u].op = q.op
  <2>1. GoesOn(u)
    BY <1>1, <1>2, <1>4, <1>5 DEF Entered
  <2>2. QED
    BY <1>5, <2>1 DEF GoesOn, GoodRequest
<1>6. ASSUME q.op = "drop", NEW h \in handles'
      PROVE  h.token # q.target
  BY <1>6 DEF Proceeds, Made, GoodRequest
<1>7. ASSUME q.op = "drop", NEW u \in Threads, Dropping(u)'
      PROVE  thread'[u].arg.token # q.target
  <2>1. GoesOn(u) \/ Entered(u)
    BY <1>4, <1>7 DEF Dropping, Busy
  <2>2. CASE GoesOn(u)
    BY <1>7, <2>2 DEF GoesOn, GoodRequest
  <2>3. CASE Entered(u)
    BY <1>7, <2>3 DEF Entered, GoodRequest, Dropping
  <2>4. QED
    BY <2>1, <2>2, <2>3
<1>8. ASSUME q.op = "drop", NEW u \in Threads, Making(u)'
      PROVE  thread'[u].token # q.target
  <2>1. GoesOn(u) \/ Entered(u)
    BY <1>4, <1>8 DEF Making
  <2>2. CASE GoesOn(u)
    BY <1>8, <2>2 DEF GoesOn, GoodRequest, Making
  <2>3. CASE Entered(u)
    BY <1>1, <1>2, <2>3 DEF Entered
  <2>4. QED
    BY <2>1, <2>2, <2>3
<1>9. QED
  BY <1>3, <1>5, <1>6, <1>7, <1>8 DEF GoodAfter

(* The helper's objects are still there for those who hold them.           *)
LEMMA HeldKeeps ==
  ASSUME TypeOK, Service, Proceeds,
         \A a \in Addrs : KeepsTable(conn[a], conn'[a]) \/ Emptied(a)
  PROVE  Held'
<1> SUFFICES ASSUME NEW a \in Addrs, conn'[a].running
             PROVE  /\ \A h \in handles' : h.at = a =>
                         Object(h.id, h.token) \in conn'[a].objects
                    /\ \A u \in Threads :
                         Dropping(u)' /\ thread'[u].at = a =>
                           Object(thread'[u].arg.id, thread'[u].arg.token)
                             \in conn'[a].objects
  BY DEF Held
<1>1. CASE KeepsTable(conn[a], conn'[a])
  <2>1. conn[a].running /\ conn'[a].objects = conn[a].objects
    BY <1>1 DEF KeepsTable
  <2>2. \A h \in handles : h.at = a =>
          Object(h.id, h.token) \in conn[a].objects
    BY <2>1 DEF Service, Held
  <2>3. \A h \in handles' : h.at = a =>
          Object(h.id, h.token) \in conn'[a].objects
    BY <2>1, <2>2 DEF Proceeds, Made
  <2>4. ASSUME NEW u \in Threads, Dropping(u)', thread'[u].at = a
        PROVE  Object(thread'[u].arg.id, thread'[u].arg.token)
                 \in conn'[a].objects
    <3>1. GoesOn(u) \/ Entered(u)
      BY <2>4 DEF Proceeds, Dropping, Busy
    <3>2. CASE GoesOn(u)
      BY <2>1, <2>4, <3>2 DEF GoesOn, Service, Held
    <3>3. CASE Entered(u)
      BY <2>1, <2>2, <2>4, <3>3 DEF Entered, Dropping
    <3>4. QED
      BY <3>1, <3>2, <3>3
  <2>5. QED
    BY <2>3, <2>4
<1>2. CASE Emptied(a)
  BY <1>2 DEF Emptied, Dropping, Busy
<1>3. QED
  BY <1>1, <1>2

LEMMA RepliesKeep ==
  ASSUME TypeOK, Service, Proceeds,
         \A a \in Addrs : KeepsTable(conn[a], conn'[a]) \/ Emptied(a)
  PROVE  Replies'
<1> SUFFICES ASSUME NEW a \in Addrs, NEW r \in Response,
                    Answered(conn'[a], r)
             PROVE  /\ r.token <= calls'
                    /\ \A t \in Threads :
                         /\ conn'[a].running /\ Making(t)'
                         /\ thread'[t].at = a
                         /\ r.ok /\ r.token = thread'[t].token
                         => Object(r.id, r.token) \in conn'[a].objects
  BY DEF Replies
<1>1. Answered(conn[a], r)
  BY DEF KeepsTable, Emptied, NothingNew
<1>2. r.token <= calls /\ r.token \in Nat /\ calls \in Nat
  BY <1>1, Numbers DEF Service, Replies, Response
<1>3. r.token <= calls'
  BY <1>2 DEF Proceeds
<1>4. ASSUME NEW t \in Threads, conn'[a].running, Making(t)',
             thread'[t].at = a, r.ok, r.token = thread'[t].token
      PROVE  Object(r.id, r.token) \in conn'[a].objects
  <2>1. ~Entered(t)
    BY <1>2, <1>4 DEF Entered
  <2>2. GoesOn(t) /\ Busy(t)'
    BY <1>4, <2>1 DEF Proceeds, Making
  <2>3. KeepsTable(conn[a], conn'[a])
    BY <1>4, <2>1, <2>2 DEF Emptied
  <2>4. QED
    BY <1>1, <1>4, <2>2, <2>3
    DEF KeepsTable, GoesOn, Making, Service, Replies
<1>5. QED
  BY <1>3, <1>4

LEMMA ReceivedKeeps ==
  ASSUME TypeOK, InsideHasConnection', Service, Proceeds, Receives,
         \A a \in Addrs : KeepsTable(conn[a], conn'[a]) \/ Emptied(a)
  PROVE  Received'
<1> SUFFICES ASSUME NEW u \in Threads, thread'[u].pc = "body",
                    thread'[u].op = "new", thread'[u].reply.ok,
                    conn'[thread'[u].at].running
             PROVE  Object(thread'[u].reply.id, thread'[u].token)
                      \in conn'[thread'[u].at].objects
  BY DEF Received
<1> DEFINE a == thread'[u].at
<1>1. a \in Addrs
  BY DEF InsideHasConnection
<1>2. Busy(u)' /\ thread'[u].pc # "encode"
  BY DEF Busy
<1>3. KeepsTable(conn[a], conn'[a])
  BY <1>1, <1>2 DEF Emptied, Entered
<1>4. conn[a].running /\ conn'[a].objects = conn[a].objects
  BY <1>3 DEF KeepsTable
<1>5. CASE thread'[u] = thread[u]
  BY <1>4, <1>5 DEF Service, Received
<1>6. CASE /\ GoesOn(u) /\ thread'[u].reply \in Response
           /\ Answered(conn[thread[u].at], thread'[u].reply)
           /\ thread'[u].reply.token = thread[u].token
  <2>1. Making(u) /\ thread[u].at = a /\ thread'[u].token = thread[u].token
    BY <1>6 DEF GoesOn, Making
  <2>2. Object(thread'[u].reply.id, thread'[u].reply.token) \in conn[a].objects
    BY <1>1, <1>4, <1>6, <2>1 DEF Service, Replies
  <2>3. QED
    BY <1>4, <1>6, <2>1, <2>2
<1>7. QED
  BY <1>5, <1>6 DEF Receives

Unmoved(c, d) ==
  /\ KeepsTable(c, d)
  /\ d.stdin = c.stdin /\ d.nextHandleId = c.nextHandleId

LEMMA ServiceKeeps ==
  ASSUME TypeOK, InsideHasConnection', Claims, Service, Proceeds, Receives,
         \A a \in Addrs : Unmoved(conn[a], conn'[a]) \/ Emptied(a)
  PROVE  Service'
<1>1. \A a \in Addrs : KeepsTable(conn[a], conn'[a]) \/ Emptied(a)
  BY DEF Unmoved
<1>2. Held' /\ Replies' /\ Received'
  BY <1>1, HeldKeeps, RepliesKeep, ReceivedKeeps
<1>3. Table'
  <2> SUFFICES ASSUME NEW a \in Addrs
               PROVE  /\ \A o, p \in conn'[a].objects : o.id = p.id => o = p
                      /\ \A o \in conn'[a].objects :
                           o.id < conn'[a].nextHandleId
                      /\ ~conn'[a].running => conn'[a].stdin = <<>>
    BY DEF Table
  <2>1. CASE Unmoved(conn[a], conn'[a])
    BY <2>1 DEF Unmoved, KeepsTable, Service, Table
  <2>2. CASE Emptied(a)
    BY <2>2 DEF Emptied
  <2>3. QED
    BY <2>1, <2>2
<1>4. Requests'
  <2>1. ASSUME NEW a \in Addrs
        PROVE  LastUse(conn'[a].stdin)
    <3>1. CASE Unmoved(conn[a], conn'[a])
      BY <3>1 DEF Unmoved, Service, Requests
    <3>2. CASE Emptied(a)
      BY <3>2 DEF Emptied, LastUse
    <3>3. QED
      BY <3>1, <3>2
  <2>2. ASSUME NEW a \in Addrs, NEW i \in 1 .. Len(conn'[a].stdin)
        PROVE  GoodRequest(conn[a].stdin[i], conn[a].objects)'
    <3>1. Unmoved(conn[a], conn'[a])
      BY <2>2 DEF Emptied
    <3> DEFINE q == conn'[a].stdin[i]
               S == conn'[a].objects
    <3>2. /\ q = conn[a].stdin[i] /\ S = conn[a].objects
          /\ i \in 1 .. Len(conn[a].stdin)
      BY <3>1 DEF Unmoved, KeepsTable
    <3>3. GoodRequest(q, S)
      BY <3>2 DEF Service, Requests
    <3>4. q \in Request
      BY <3>2, Numbers DEF Connection
    <3>5. GoodAfter(q, S)
      <4>1. q.op # "new" => Object(q.id, q.target) \in S
        BY <3>3 DEF GoodRequest
      <4> HIDE DEF q, S
      <4> QED BY <3>3, <3>4, <4>1, RequestKeeps
    <3>6. QED
      BY <3>5 DEF GoodAfter, GoodRequest
  <2>3. QED
    BY <2>1, <2>2 DEF Requests
<1>5. QED
  BY <1>2, <1>3, <1>4 DEF Service

-----------------------------------------------------------------------------
(* The pipes: what is read was there before.                               *)
LEMMA UnmovedSame ==
  ASSUME NEW c, NEW d, d.objects = c.objects, d.running = c.running,
         d.stdin = c.stdin, d.nextHandleId = c.nextHandleId,
         d.stdio = c.stdio, d.stdout = c.stdout
  PROVE  Unmoved(c, d)
BY DEF Unmoved, KeepsTable, NothingNew, Answered

LEMMA UnmovedRead ==
  ASSUME NEW c \in Connection, NEW d, NEW n \in Nat,
         d.objects = c.objects, d.running = c.running,
         d.stdin = c.stdin, d.nextHandleId = c.nextHandleId,
         d.stdio = c.stdio, d.stdout = Rest(c.stdout, n)
  PROVE  Unmoved(c, d)
<1>1. c.stdout \in Seq(Cell)
  BY DEF Connection
<1>2. \A i \in 1 .. Len(d.stdout) :
        \E j \in 1 .. Len(c.stdout) : d.stdout[i] = c.stdout[j]
  BY <1>1, RestElements
<1>3. NothingNew(c, d)
  BY <1>2 DEF NothingNew, Answered
<1>4. QED
  BY <1>3 DEF Unmoved, KeepsTable

LEMMA UnmovedUnlocked ==
  ASSUME TypeOK, NEW t \in Threads, NEW a \in Addrs
  PROVE  Unmoved(conn[a], Unlocked(t)[a])
<1> DEFINE c == conn[a]
           d == Unlocked(t)[a]
<1>1. conn \in [Addrs -> Connection]
  BY DEF TypeOK
<1>2. /\ d.objects = c.objects /\ d.running = c.running
      /\ d.stdin = c.stdin /\ d.nextHandleId = c.nextHandleId
      /\ d.stdio = c.stdio /\ d.stdout = c.stdout
  BY <1>1 DEF Unlocked, Connection
<1> HIDE DEF c, d
<1>3. Unmoved(c, d)
  BY <1>2, UnmovedSame
<1>4. QED
  BY <1>3 DEF c, d

LEMMA UnmovedTaken ==
  ASSUME TypeOK, NEW t \in Threads, thread[t].at \in Addrs, NEW n \in Nat,
         NEW a \in Addrs
  PROVE  Unmoved(conn[a], Taken(Unlocked(t), thread[t].at, n)[a])
<1> DEFINE e == Unlocked(t)
           c == e[a]
           d == Taken(e, thread[t].at, n)[a]
<1>1. e \in [Addrs -> Connection] /\ c \in Connection
  BY UnlockedType
<1>2. /\ d.objects = c.objects /\ d.running = c.running
      /\ d.stdin = c.stdin /\ d.nextHandleId = c.nextHandleId
      /\ d.stdio = c.stdio
      /\ d.stdout = c.stdout \/ d.stdout = Rest(c.stdout, n)
  <2> HIDE DEF e
  <2> QED BY <1>1 DEF Taken, Connection
<1>3. Unmoved(c, d)
  <2> HIDE DEF c, d
  <2> QED BY <1>1, <1>2, UnmovedSame, UnmovedRead
<1>4. Unmoved(conn[a], c)
  BY UnmovedUnlocked
<1>5. QED
  BY <1>3, <1>4 DEF Unmoved, KeepsTable, NothingNew
-----------------------------------------------------------------------------
(* Service, by the kind of step.                                           *)
LEMMA ServiceReturn ==
  ASSUME Inv, Inv', Claims, Service, NEW t \in Threads,
         NEW c \in [Addrs -> Connection], Return(t, c),
         \A a \in Addrs : Unmoved(conn[a], c[a]),
         \A h \in handles' : h \in handles \/ Made(h)
  PROVE  Service'
<1>1. /\ thread'[t] = Idle /\ Idle.pc = "idle"
      /\ \A u \in Threads \ {t} : thread'[u] = thread[u]
      /\ \A a \in Addrs : conn'[a] = IF Referenced(a)' THEN c[a] ELSE Free
      /\ calls' = calls
  BY DEF Return, DropUnreferenced, Inv, TypeOK, Idle
<1>2. \A u \in Threads : Busy(u)' => u # t /\ GoesOn(u)
  BY <1>1, SameGoesOn DEF Busy
<1>3. Proceeds
  BY <1>1, <1>2, Numbers DEF Proceeds, Inv
<1>4. Receives
  BY <1>1 DEF Receives
<1>5. \A a \in Addrs : Unmoved(conn[a], conn'[a]) \/ Emptied(a)
  <2>1. ASSUME NEW a \in Addrs, conn'[a] = Free
        PROVE  Emptied(a)
    BY <2>1 DEF Emptied, Free, NothingNew, Answered
  <2>2. QED
    BY <1>1, <2>1
<1>6. TypeOK /\ InsideHasConnection'
  BY DEF Inv
<1>7. QED
  BY <1>3, <1>4, <1>5, <1>6, ServiceKeeps

(* A call takes a step and may read from the pipe or lock or unlock it.    *)
LEMMA ServiceGoOn ==
  ASSUME Inv, Inv', Claims, Service, NEW t \in Threads,
         \A u \in Threads \ {t} : thread'[u] = thread[u],
         GoesOn(t), Receives, handles' = handles, calls' = calls,
         \A a \in Addrs : Unmoved(conn[a], conn'[a])
  PROVE  Service'
<1>1. \A u \in Threads : Busy(u)' => GoesOn(u)
  BY SameGoesOn DEF Busy
<1>2. Proceeds
  BY <1>1, Numbers DEF Proceeds, Inv
<1>3. QED
  BY <1>2, ServiceKeeps DEF Inv

LEMMA ServiceBreak ==
  ASSUME Inv, Inv', Claims, Service, NEW t \in Threads, Busy(t),
         NEW c \in [Addrs -> Connection], Break(t, c),
         \A a \in Addrs : Unmoved(conn[a], c[a])
  PROVE  Service'
<1>1. CASE thread[t].op = "drop"
  BY <1>1, ServiceReturn DEF Break
<1>2. CASE thread[t].op # "drop"
  <2>1. /\ thread' = [thread EXCEPT ![t].pc = "retire"]
        /\ conn' = c /\ calls' = calls /\ handles' = handles
    BY <1>2 DEF Break
  <2>2. /\ thread'[t].pc = "retire"
        /\ thread'[t].op = thread[t].op /\ thread'[t].arg = thread[t].arg
        /\ thread'[t].at = thread[t].at /\ thread'[t].token = thread[t].token
        /\ \A u \in Threads \ {t} : thread'[u] = thread[u]
    BY <2>1 DEF Inv, TypeOK, Thread
  <2>3. GoesOn(t) /\ Receives
    BY <2>2 DEF GoesOn, Receives, Busy, Dropping
  <2>4. QED
    BY <2>1, <2>2, <2>3, ServiceGoOn
<1>3. QED
  BY <1>1, <1>2

LEMMA ServiceEnter ==
  ASSUME Inv, Inv', Claims, Service, NEW t \in Threads, ~Busy(t),
         NEW op, NEW h, NEW a, NEW g, Enter(t, op, h, a, g),
         op = "drop" => h \in handles /\ h.at = a,
         handles' \subseteq handles,
         \A b \in Addrs : Unmoved(conn[b], conn'[b]) \/ Emptied(b)
  PROVE  Service'
<1>1. /\ thread'[t].pc = "encode" /\ thread'[t].op = op
      /\ thread'[t].arg = h /\ thread'[t].at = a
      /\ thread'[t].token = calls + 1
      /\ \A u \in Threads \ {t} : thread'[u] = thread[u]
      /\ calls' = calls + 1 /\ calls \in Nat
  BY Numbers DEF Inv, TypeOK, Enter
<1>2. Entered(t)
  BY <1>1 DEF Entered
<1>3. \A u \in Threads : Busy(u)' => GoesOn(u) \/ Entered(u)
  BY <1>1, <1>2, SameGoesOn DEF Busy
<1>4. Proceeds
  BY <1>1, <1>3 DEF Proceeds
<1>5. Receives
  BY <1>1 DEF Receives
<1>6. QED
  BY <1>4, <1>5, ServiceKeeps DEF Inv

LEMMA ServiceStarts ==
  ASSUME Inv, Inv', Claims, Service, NEW t \in Threads, Starts(t)
  PROVE  Service'
<1>1. PICK op \in {"new", "use"}, h \in handles \cup {NoHandle} :
        \/ Connect(t, op, h)
        \/ \E a \in Addrs : Spawn(t, op, h, a)
        \/ SpawnFails(t, op, h)
  BY DEF Starts
<1>2. op # "drop"
  OBVIOUS
<1>3. ASSUME NEW a \in Addrs, conn'[a] = conn[a]
      PROVE  Unmoved(conn[a], conn'[a])
  BY <1>3, UnmovedSame
<1>4. CASE Connect(t, op, h)
  <2>1. /\ Enter(t, op, h, current, conn[current].gen) /\ ~Busy(t)
        /\ conn' = conn /\ handles' = handles
    BY <1>4 DEF Connect, CallWith, Busy, Keeps
  <2>2. QED
    BY <1>2, <1>3, <2>1, ServiceEnter
<1>5. CASE \E a \in Addrs : Spawn(t, op, h, a)
  <2>1. PICK a \in Addrs : Spawn(t, op, h, a)
    BY <1>5
  <2>2. /\ Enter(t, op, h, a, spawned + 1) /\ ~Busy(t) /\ handles' = handles
        /\ conn[a].gen = 0
        /\ conn' = [conn EXCEPT ![a] =
             [Free EXCEPT !.gen = spawned + 1, !.running = TRUE]]
    BY <2>1 DEF Spawn, CallWith, Busy
  <2>3. /\ conn'[a].objects = {} /\ conn'[a].stdin = <<>>
        /\ conn'[a].stdio = <<>> /\ conn'[a].stdout = <<>>
        /\ \A b \in Addrs \ {a} : conn'[b] = conn[b]
    BY <2>2, FreeType DEF Inv, TypeOK, Connection, Free
  <2>4. /\ \A k \in handles' : k.at # a
        /\ \A u \in Threads : thread[u].at # a
    BY <2>2 DEF Inv, FreeIsUnreferenced, Referenced
  <2>5. /\ thread'[t].pc = "encode" /\ thread'[t].op = op
        /\ thread'[t].token = calls + 1
        /\ \A u \in Threads \ {t} : thread'[u] = thread[u]
    BY <2>2 DEF Inv, TypeOK, Enter
  <2>6. Emptied(a)
    BY <1>2, <2>3, <2>4, <2>5
    DEF Emptied, NothingNew, Answered, Entered
  <2>7. QED
    BY <1>2, <1>3, <2>2, <2>3, <2>6, ServiceEnter
<1>6. CASE SpawnFails(t, op, h)
  <2>1. /\ thread' = thread /\ conn' = conn /\ handles' = handles
        /\ calls' = calls + 1 /\ calls \in Nat
    BY <1>6, Numbers DEF SpawnFails, Keeps, Inv
  <2>2. \A u \in Threads : Busy(u)' => GoesOn(u)
    BY <2>1, SameGoesOn DEF Busy
  <2>3. Proceeds /\ Receives
    BY <2>1, <2>2 DEF Proceeds, Receives
  <2>4. QED
    BY <1>3, <2>1, <2>3, ServiceKeeps DEF Inv
<1>7. QED
  BY <1>1, <1>4, <1>5, <1>6

LEMMA ServiceRelease ==
  ASSUME Inv, Inv', Claims, Service, NEW t \in Threads, NEW h \in handles,
         Release(t, h)
  PROVE  Service'
<1>1. /\ Enter(t, "drop", h, h.at, h.gen) /\ ~Busy(t)
      /\ conn' = conn /\ handles' \subseteq handles
  BY DEF Release, Busy
<1>2. \A b \in Addrs : Unmoved(conn[b], conn'[b])
  BY <1>1, UnmovedSame
<1>3. QED
  BY <1>1, <1>2, ServiceEnter

(* The response that a call takes off the pipe is one that was there.      *)
LEMMA ServiceReadHeader ==
  ASSUME Inv, Inv', CallInv', Claims, Service, NEW t \in Threads,
         ReadHeader(t)
  PROVE  Service'
<1> DEFINE at == thread[t].at
           s == conn[at].stdout
<1>1. /\ thread[t].pc = "header" /\ Len(s) >= HeaderLen
      /\ conn' = Taken(conn, at, HeaderLen)
      /\ thread' = [thread EXCEPT ![t].pc = "body", ![t].reply = s[1].of]
      /\ calls' = calls /\ handles' = handles
  BY DEF ReadHeader, Keeps
<1>2. at \in Addrs /\ conn \in [Addrs -> Connection] /\ HeaderLen \in Nat \ {0}
  BY <1>1, BridgeAssumption DEF Inv, TypeOK, InsideHasConnection
<1>3. s \in Seq(Cell) /\ 1 \in 1 .. Len(s)
  <2>1. s \in Seq(Cell)
    BY <1>2 DEF Connection
  <2>2. QED
    BY <1>1, <1>2, <2>1
<1>4. s[1].of \in Response
  <2>1. s[1] \in Cell
    <3> HIDE DEF s
    <3> QED BY <1>3
  <2>2. QED
    BY <2>1 DEF Cell
<1>5. /\ thread'[t].pc = "body" /\ thread'[t].reply = s[1].of
      /\ thread'[t].op = thread[t].op /\ thread'[t].arg = thread[t].arg
      /\ thread'[t].at = thread[t].at /\ thread'[t].token = thread[t].token
      /\ \A u \in Threads \ {t} : thread'[u] = thread[u]
  BY <1>1 DEF Inv, TypeOK, Thread
<1>6. GoesOn(t)
  BY <1>1, <1>5 DEF GoesOn, Busy, Dropping
<1>7. thread'[t].reply.token = thread[t].token
  BY <1>5 DEF CallInv, ReplyMatchesCall
<1>8. Answered(conn[at], s[1].of)
  BY <1>3 DEF Answered
<1>9. Receives
  BY <1>4, <1>5, <1>6, <1>7, <1>8 DEF Receives
<1>10. ASSUME NEW a \in Addrs
       PROVE  Unmoved(conn[a], conn'[a])
  <2> DEFINE c == conn[a]
             d == conn'[a]
  <2>1. /\ d.objects = c.objects /\ d.running = c.running
        /\ d.stdin = c.stdin /\ d.nextHandleId = c.nextHandleId
        /\ d.stdio = c.stdio /\ c \in Connection
        /\ d.stdout = c.stdout \/ d.stdout = Rest(c.stdout, HeaderLen)
    BY <1>1, <1>2 DEF Taken, Connection
  <2>2. Unmoved(c, d)
    <3> HIDE DEF c, d
    <3> QED BY <1>2, <2>1, UnmovedSame, UnmovedRead
  <2>3. QED
    BY <2>2
<1>11. QED
  BY <1>1, <1>5, <1>6, <1>9, <1>10, ServiceGoOn

LEMMA ServiceReadBody ==
  ASSUME Inv, Inv', Claims, Service, NEW t \in Threads, ReadBody(t)
  PROVE  Service'
<1> DEFINE at == thread[t].at
           r == thread[t].reply
           new == [at |-> at, gen |-> thread[t].gen, id |-> r.id,
                   token |-> thread[t].token]
           c == Taken(Unlocked(t), at, BodyLen(r))
<1>1. /\ thread[t].pc = "body" /\ at \in Addrs
      /\ handles' = IF thread[t].op = "new" /\ r.ok THEN handles \cup {new}
                    ELSE handles
      /\ Return(t, c)
  BY DEF ReadBody, Inv, InsideHasConnection
<1>2. BodyLen(r) \in Nat /\ TypeOK
  BY DEF BodyLen, Inv
<1>3. c \in [Addrs -> Connection]
  BY <1>1, <1>2, UnlockedType, TakenType
<1>4. \A a \in Addrs : Unmoved(conn[a], c[a])
  BY <1>1, <1>2, UnmovedTaken
<1>5. ASSUME thread[t].op = "new", r.ok
      PROVE  Made(new)
  <2>1. Making(t) /\ new.token = thread[t].token
    BY <1>1, <1>5 DEF Making, Busy
  <2>2. conn[at].running => Object(r.id, thread[t].token) \in conn[at].objects
    BY <1>1, <1>5 DEF Service, Received
  <2>3. QED
    BY <2>1, <2>2 DEF Made
<1>6. \A h \in handles' : h \in handles \/ Made(h)
  <2> HIDE DEF new
  <2> QED BY <1>1, <1>5
<1>7. QED
  <2> HIDE DEF c
  <2> QED BY <1>1, <1>3, <1>4, <1>6, ServiceReturn

(* Everything a call does, but writing its request.                        *)
LEMMA ServiceInCall ==
  ASSUME Inv, Inv', CallInv', Claims, Service, NEW t \in Threads,
         Oversize(t) \/ Continues(t), ~Write(t)
  PROVE  Service'
<1> DEFINE at == thread[t].at
<1>0. TypeOK /\ conn \in [Addrs -> Connection]
  BY DEF Inv, TypeOK
<1>1. CASE Oversize(t) \/ WrongConnection(t) \/ Exhausted(t) \/ Retire(t)
  <2>1. Return(t, conn) /\ handles' = handles
    BY <1>1 DEF Oversize, WrongConnection, Exhausted, Retire, Keeps
  <2>2. \A a \in Addrs : Unmoved(conn[a], conn[a])
    BY UnmovedSame
  <2>3. QED
    BY <1>0, <2>1, <2>2, ServiceReturn
<1>2. CASE Lock(t)
  <2>1. /\ thread' = [thread EXCEPT ![t].pc = "write",
                         ![t].rid = conn[at].nextRequestId]
        /\ conn' = [conn EXCEPT ![at].lock = t, ![at].nextRequestId = @ + 1]
        /\ calls' = calls /\ handles' = handles
        /\ thread[t].pc = "encode"
        /\ thread[t].op = "use" => thread[t].arg.at = thread[t].at
    BY <1>2 DEF Lock, Encoded, SameConnection, Keeps
  <2>2. /\ thread'[t].pc = "write"
        /\ thread'[t].op = thread[t].op /\ thread'[t].arg = thread[t].arg
        /\ thread'[t].at = thread[t].at /\ thread'[t].token = thread[t].token
        /\ \A u \in Threads \ {t} : thread'[u] = thread[u]
    BY <2>1 DEF Inv, TypeOK, Thread
  <2>3. GoesOn(t) /\ Receives
    BY <2>1, <2>2 DEF GoesOn, Receives, Busy, Dropping
  <2>4. ASSUME NEW a \in Addrs
        PROVE  Unmoved(conn[a], conn'[a])
    <3> DEFINE c == conn[a]
               d == conn'[a]
    <3>1. /\ d.objects = c.objects /\ d.running = c.running
          /\ d.stdin = c.stdin /\ d.nextHandleId = c.nextHandleId
          /\ d.stdio = c.stdio /\ d.stdout = c.stdout
      BY <1>0, <2>1 DEF Connection
    <3>2. Unmoved(c, d)
      <4> HIDE DEF c, d
      <4> QED BY <3>1, UnmovedSame
    <3>3. QED
      BY <3>2
  <2>5. QED
    BY <2>1, <2>2, <2>3, <2>4, ServiceGoOn
<1>3. CASE WriteFails(t)
  <2>1. Break(t, Unlocked(t)) /\ Busy(t)
    BY <1>3 DEF WriteFails, Busy
  <2>2. QED
    BY <1>0, <2>1, UnlockedType, UnmovedUnlocked, ServiceBreak
<1>4. CASE BadHeader(t)
  <2>1. /\ Return(t, Taken(Unlocked(t), at, HeaderLen)) /\ handles' = handles
        /\ at \in Addrs
    BY <1>4 DEF BadHeader, Inv, InsideHasConnection
  <2>2. HeaderLen \in Nat
    BY BridgeAssumption
  <2> DEFINE c == Taken(Unlocked(t), at, HeaderLen)
  <2>3. c \in [Addrs -> Connection] /\ \A a \in Addrs : Unmoved(conn[a], c[a])
    BY <1>0, <2>1, <2>2, UnlockedType, TakenType, UnmovedTaken
  <2>4. QED
    <3> HIDE DEF c
    <3> QED BY <2>1, <2>3, ServiceReturn DEF c
<1>5. CASE ReadEof(t)
  <2>1. /\ Break(t, Taken(Unlocked(t), at, Len(conn[at].stdout))) /\ Busy(t)
        /\ at \in Addrs
    BY <1>5 DEF ReadEof, Inv, InsideHasConnection, Busy
  <2>2. Len(conn[at].stdout) \in Nat
    BY <1>0, <2>1 DEF Connection
  <2> DEFINE c == Taken(Unlocked(t), at, Len(conn[at].stdout))
  <2>3. c \in [Addrs -> Connection] /\ \A a \in Addrs : Unmoved(conn[a], c[a])
    BY <1>0, <2>1, <2>2, UnlockedType, TakenType, UnmovedTaken
  <2>4. QED
    <3> HIDE DEF c
    <3> QED BY <2>1, <2>3, ServiceBreak DEF c
<1>6. QED
  BY <1>1, <1>2, <1>3, <1>4, <1>5, ServiceReadHeader, ServiceReadBody
  DEF Continues

(* The request that is written is the last in the pipe: its object is in   *)
(* the table, and no release that is ahead of it takes it away.            *)
LEMMA WrittenRequest ==
  ASSUME Inv, Claims, Claims', Service, NEW t \in Threads, Write(t)
  PROVE  LET a == thread[t].at
             q == [rid |-> thread[t].rid, op |-> thread[t].op,
                   id |-> thread[t].arg.id, token |-> thread[t].token,
                   target |-> thread[t].arg.token]
         IN  /\ q \in Request
             /\ conn'[a].stdin = Append(conn[a].stdin, q)
             /\ GoodAfter(q, conn[a].objects)
             /\ \A i \in 1 .. Len(conn[a].stdin) :
                  conn[a].stdin[i].op = "drop" /\ q.op # "new" =>
                    q.target # conn[a].stdin[i].target
<1> DEFINE a == thread[t].at
           arg == thread[t].arg
           q == [rid |-> thread[t].rid, op |-> thread[t].op,
                 id |-> arg.id, token |-> thread[t].token,
                 target |-> arg.token]
<1>1. /\ thread[t].pc = "write" /\ conn[a].running /\ a \in Addrs
      /\ conn' = [conn EXCEPT ![a].stdin = Append(@, q)]
      /\ thread' = [thread EXCEPT ![t].pc = "header"]
      /\ calls' = calls /\ handles' = handles
  BY DEF Write, Keeps, Inv, InsideHasConnection
<1>2. /\ thread[t] \in Thread /\ conn \in [Addrs -> Connection]
      /\ thread[t].op \in Ops /\ thread[t].rid \in Nat
      /\ thread[t].token \in Nat /\ arg.token \in Nat /\ arg.id \in Nat
  BY Numbers DEF Inv, TypeOK, Thread
<1>3. q \in Request
  BY <1>2 DEF Request
<1>4. /\ conn'[a].stdin = Append(conn[a].stdin, q)
      /\ conn'[a].objects = conn[a].objects
  <2> HIDE DEF q
  <2> QED BY <1>1, <1>2 DEF Connection
<1>5. /\ thread'[t].pc = "header"
      /\ thread'[t].op = thread[t].op /\ thread'[t].token = thread[t].token
      /\ \A u \in Threads \ {t} : thread'[u] = thread[u]
  BY <1>1 DEF Inv, TypeOK, Thread
<1>6. /\ q.op = thread[t].op /\ q.id = arg.id /\ q.token = thread[t].token
      /\ q.target = arg.token
  OBVIOUS
<1> HIDE DEF q
<1>7. Busy(t) /\ Busy(t)'
  BY <1>1, <1>5 DEF Busy
<1>8. q.token \in 1 .. calls' /\ q.target <= calls'
  BY <1>1, <1>6, <1>7 DEF Claims, CallTokens
<1>9. \A u \in Threads :
        Busy(u)' /\ thread'[u].token = q.token => thread'[u].op = q.op
  <2>1. \A u \in Threads :
          Busy(u)' /\ thread'[u].token = thread'[t].token => u = t
    BY <1>7 DEF Claims, CallTokens
  <2>2. QED
    BY <1>5, <1>6, <2>1
<1>10. ASSUME q.op # "new"
       PROVE  Object(q.id, q.target) \in conn[a].objects
  <2>1. CASE q.op = "use"
    BY <1>1, <1>6, <1>7, <2>1 DEF Claims, Borrows, Service, Held
  <2>2. CASE q.op = "drop"
    BY <1>1, <1>6, <2>2 DEF Dropping, Service, Held
  <2>3. QED
    BY <1>2, <1>6, <1>10, <2>1, <2>2 DEF Ops
<1>11. ASSUME q.op = "drop"
       PROVE  /\ \A h \in handles' : h.token # q.target
              /\ \A u \in Threads :
                   Dropping(u)' => thread'[u].arg.token # q.target
              /\ \A u \in Threads : Making(u)' => thread'[u].token # q.target
  <2>1. Dropping(t) /\ Ending(t) /\ ~Dropping(t)' /\ ~Making(t)'
    BY <1>1, <1>5, <1>6, <1>11 DEF Dropping, Ending, Busy, Making
  <2>2. \A u \in Threads \ {t} : /\ Dropping(u)' => Dropping(u)
                                 /\ Making(u)' => Making(u)
    BY <1>5 DEF Dropping, Making, Busy
  <2>3. \A h \in handles' : h.token # q.target
    BY <1>1, <1>6, <2>1 DEF Claims, DropTokens
  <2>4. \A u \in Threads : Dropping(u)' => thread'[u].arg.token # q.target
    BY <1>5, <1>6, <2>1, <2>2 DEF Claims, DropTokens
  <2>5. \A u \in Threads : Making(u)' => thread'[u].token # q.target
    BY <1>5, <1>6, <2>1, <2>2 DEF Claims, NewTokens
  <2>6. QED
    BY <2>3, <2>4, <2>5
<1>12. GoodAfter(q, conn[a].objects)
  BY <1>8, <1>9, <1>10, <1>11 DEF GoodAfter
<1>13. ASSUME NEW i \in 1 .. Len(conn[a].stdin),
              conn[a].stdin[i].op = "drop", q.op # "new"
       PROVE  q.target # conn[a].stdin[i].target
  <2>1. GoodRequest(conn[a].stdin[i], conn[a].objects)
    BY <1>1 DEF Service, Requests
  <2>2. CASE q.op = "use"
    BY <1>6, <1>7, <1>13, <2>1, <2>2 DEF GoodRequest, Claims, Borrows
  <2>3. CASE q.op = "drop"
    BY <1>1, <1>6, <1>13, <2>1, <2>3 DEF GoodRequest, Dropping
  <2>4. QED
    BY <1>2, <1>6, <1>13, <2>2, <2>3 DEF Ops
<1>14. QED
  BY <1>3, <1>4, <1>12, <1>13 DEF q

LEMMA ServiceWrite ==
  ASSUME Inv, Inv', Claims, Claims', Service, NEW t \in Threads, Write(t)
  PROVE  Service'
<1> DEFINE a == thread[t].at
           q == [rid |-> thread[t].rid, op |-> thread[t].op,
                 id |-> thread[t].arg.id, token |-> thread[t].token,
                 target |-> thread[t].arg.token]
           s == conn[a].stdin
           w == conn'[a].stdin
<1>1. /\ thread[t].pc = "write" /\ conn[a].running /\ a \in Addrs
      /\ conn' = [conn EXCEPT ![a].stdin = Append(@, q)]
      /\ thread' = [thread EXCEPT ![t].pc = "header"]
      /\ calls' = calls /\ handles' = handles
  BY DEF Write, Keeps, Inv, InsideHasConnection
<1>2. /\ q \in Request /\ w = Append(s, q)
      /\ GoodAfter(q, conn[a].objects)
      /\ \A i \in 1 .. Len(s) :
           s[i].op = "drop" /\ q.op # "new" => q.target # s[i].target
  BY WrittenRequest
<1> HIDE DEF q
<1>3. /\ TypeOK /\ conn \in [Addrs -> Connection]
      /\ s \in Seq(Request)
  BY <1>1 DEF Inv, TypeOK, Connection
<1>4. /\ \A b \in Addrs :
           /\ conn'[b].objects = conn[b].objects
           /\ conn'[b].running = conn[b].running
           /\ conn'[b].nextHandleId = conn[b].nextHandleId
           /\ conn'[b].stdio = conn[b].stdio
           /\ conn'[b].stdout = conn[b].stdout
      /\ \A b \in Addrs \ {a} : conn'[b] = conn[b]
  BY <1>1, <1>3 DEF Connection
<1>5. /\ thread'[t].pc = "header"
      /\ thread'[t].op = thread[t].op /\ thread'[t].arg = thread[t].arg
      /\ thread'[t].at = thread[t].at /\ thread'[t].token = thread[t].token
      /\ \A u \in Threads \ {t} : thread'[u] = thread[u]
  BY <1>1 DEF Inv, TypeOK, Thread
<1>6. GoesOn(t)
  BY <1>1, <1>5 DEF GoesOn, Busy, Dropping
<1>7. \A u \in Threads : Busy(u)' => GoesOn(u)
  BY <1>5, <1>6, SameGoesOn DEF Busy
<1>8. Proceeds /\ Receives
  BY <1>1, <1>3, <1>5, <1>7, Numbers DEF Proceeds, Receives
<1>9. \A b \in Addrs : KeepsTable(conn[b], conn'[b])
  BY <1>4 DEF KeepsTable, NothingNew, Answered
<1>10. Held' /\ Replies' /\ Received'
  BY <1>3, <1>8, <1>9, HeldKeeps, RepliesKeep, ReceivedKeeps DEF Inv
<1>11. Table'
  BY <1>1, <1>4 DEF Service, Table
<1>12. /\ Len(w) = Len(s) + 1 /\ Len(s) \in Nat /\ w[Len(s) + 1] = q
       /\ \A i \in 1 .. Len(s) : w[i] = s[i]
  <2> HIDE DEF s, w
  <2> QED BY <1>2, <1>3
<1>13. ASSUME NEW b \in Addrs, NEW i \in 1 .. Len(conn'[b].stdin)
       PROVE  GoodRequest(conn[b].stdin[i], conn[b].objects)'
  <2> DEFINE p == conn'[b].stdin[i]
             S == conn'[b].objects
  <2>1. GoodAfter(p, S)
    <3>1. CASE b = a /\ i = Len(s) + 1
      BY <1>2, <1>4, <1>12, <3>1
    <3>2. CASE ~(b = a /\ i = Len(s) + 1)
      <4>1. i \in 1 .. Len(conn[b].stdin) /\ p = conn[b].stdin[i]
        <5>1. CASE b = a
          BY <1>12, <1>13, <3>2, <5>1
        <5>2. CASE b # a
          BY <1>4, <5>2
        <5>3. QED
          BY <5>1, <5>2
      <4>2. p \in Request
        BY <1>3, <4>1 DEF Connection
      <4>3. GoodRequest(p, S)
        BY <1>4, <4>1 DEF Service, Requests
      <4>4. p.op # "new" => Object(p.id, p.target) \in S
        BY <4>3 DEF GoodRequest
      <4> HIDE DEF p, S
      <4> QED BY <1>3, <1>8, <4>2, <4>3, <4>4, RequestKeeps
    <3>3. QED
      BY <3>1, <3>2
  <2>2. QED
    BY <2>1 DEF GoodAfter, GoodRequest
<1>14. ASSUME NEW b \in Addrs
       PROVE  LastUse(conn'[b].stdin)
  <2>1. CASE b = a
    <3>1. LastUse(s)
      BY <1>1 DEF Service, Requests
    <3>2. LastUse(w)
      <4> HIDE DEF s, w
      <4> SUFFICES ASSUME NEW i \in 1 .. Len(w), NEW j \in i + 1 .. Len(w),
                          w[i].op = "drop", w[j].op # "new"
                   PROVE  w[j].target # w[i].target
        BY DEF LastUse
      <4>1. i \in 1 .. Len(s) /\ w[i] = s[i]
        BY <1>12
      <4>2. CASE j = Len(s) + 1
        BY <1>2, <1>12, <4>1, <4>2
      <4>3. CASE j # Len(s) + 1
        <5>1. j \in i + 1 .. Len(s) /\ j \in 1 .. Len(s)
          BY <1>12, <4>3
        <5>2. QED
          BY <1>12, <3>1, <4>1, <5>1 DEF LastUse
      <4>4. QED
        BY <4>2, <4>3
    <3>3. QED
      BY <2>1, <3>2
  <2>2. CASE b # a
    BY <1>4, <2>2 DEF Service, Requests
  <2>3. QED
    BY <2>1, <2>2
<1>15. Requests'
  BY <1>13, <1>14 DEF Requests
<1>16. QED
  BY <1>10, <1>11, <1>15 DEF Service

-----------------------------------------------------------------------------
(* The helper.                                                             *)
LEMMA AnsweredFlush ==
  ASSUME NEW c \in Connection, NEW d, NEW k \in 1 .. Len(c.stdio),
         d.stdout = c.stdout \o SubSeq(c.stdio, 1, k),
         d.stdio = Rest(c.stdio, k)
  PROVE  NothingNew(c, d)
<1>1. c.stdout \in Seq(Cell) /\ c.stdio \in Seq(Cell) /\ k \in Nat
  BY DEF Connection
<1>2. \A i \in 1 .. Len(d.stdio) :
        \E j \in 1 .. Len(c.stdio) : d.stdio[i] = c.stdio[j]
  <2> DEFINE s == c.stdio
  <2>1. s \in Seq(Cell) /\ k \in Nat
    BY <1>1
  <2> HIDE DEF s
  <2>2. \A r : r = Rest(s, k) =>
          \A i \in 1 .. Len(r) : \E j \in 1 .. Len(s) : r[i] = s[j]
    BY <2>1, RestElements
  <2>3. QED
    BY <2>2 DEF s
<1>3. \A i \in 1 .. Len(d.stdout) :
        \/ \E j \in 1 .. Len(c.stdout) : d.stdout[i] = c.stdout[j]
        \/ \E j \in 1 .. Len(c.stdio) : d.stdout[i] = c.stdio[j]
  <2> SUFFICES ASSUME NEW i \in 1 .. Len(d.stdout)
               PROVE  \/ \E j \in 1 .. Len(c.stdout) : d.stdout[i] = c.stdout[j]
                      \/ \E j \in 1 .. Len(c.stdio) : d.stdout[i] = c.stdio[j]
    OBVIOUS
  <2> DEFINE u == SubSeq(c.stdio, 1, k)
             j == i - Len(c.stdout)
  <2>1. u \in Seq(Cell) /\ Len(u) = k /\ \A m \in 1 .. k : u[m] = c.stdio[m]
    BY <1>1
  <2>2. CASE i <= Len(c.stdout)
    BY <1>1, <2>1, <2>2
  <2>3. CASE i > Len(c.stdout)
    <3>1. j \in 1 .. k /\ d.stdout[i] = u[j]
      <4> HIDE DEF u
      <4> QED BY <1>1, <2>1, <2>3
    <3>2. QED
      BY <1>1, <2>1, <3>1
  <2>4. QED
    BY <1>1, <2>2, <2>3
<1>4. QED
  BY <1>2, <1>3 DEF NothingNew, Answered

LEMMA AnsweredRespond ==
  ASSUME NEW c \in Connection, NEW d, NEW r \in Response, NEW n \in Nat,
         d.stdio = Noises(n) \o Frame(r), d.stdout = c.stdout,
         NEW x \in Response, Answered(d, x)
  PROVE  x = r \/ x = NoResponse \/ Answered(c, x)
<1>1. Noises(n) \in Seq(Cell) /\ Frame(r) \in Seq(Cell)
  BY NoisesType, FrameType
<1>2. /\ \A i \in 1 .. Len(Noises(n)) : Noises(n)[i].of = NoResponse
      /\ \A i \in 1 .. Len(Frame(r)) : Frame(r)[i].of = r
  <2>1. Len(Noises(n)) = n /\ \A i \in 1 .. n : Noises(n)[i] = Noise
    BY DEF Noises
  <2>2. HeaderLen + BodyLen(r) \in Nat
    BY BridgeAssumption DEF BodyLen
  <2>3. /\ Len(Frame(r)) = HeaderLen + BodyLen(r)
        /\ \A i \in 1 .. HeaderLen + BodyLen(r) : Frame(r)[i].of = r
    BY <2>2 DEF Frame
  <2>4. QED
    BY <2>1, <2>3 DEF Noise
<1>3. \A i \in 1 .. Len(d.stdio) :
        d.stdio[i].of = NoResponse \/ d.stdio[i].of = r
  BY <1>1, <1>2
<1>4. QED
  BY <1>3 DEF Answered

(* The helper serves a request: what it takes out of the table is the      *)
(* object that a release is for, and what a constructor's success names is *)
(* in the table.                                                           *)
LEMMA ServiceRespond ==
  ASSUME Inv, Inv', Claims, Service, NEW a \in Addrs, NEW ok \in BOOLEAN,
         NEW id \in Nat, NEW n \in Nat, NEW objects, NEW next,
         conn[a].running, conn[a].stdin # <<>>,
         Respond(a, ok, id, n, objects, next),
         \A o, p \in objects : o.id = p.id => o = p,
         \A o \in objects : o.id < next,
         \A o \in conn[a].objects : o \in objects \/
           /\ Head(conn[a].stdin).op = "drop"
           /\ o = Object(Head(conn[a].stdin).id, Head(conn[a].stdin).target),
         ok /\ Head(conn[a].stdin).op = "new" =>
           Object(id, Head(conn[a].stdin).token) \in objects
  PROVE  Service'
<1> DEFINE c == conn[a]
           d == conn'[a]
           s == c.stdin
           q == Head(s)
           r == [rid |-> q.rid, op |-> q.op, ok |-> ok, id |-> id,
                 token |-> q.token]
           frame == Noises(n) \o Frame(r)
<1>1. /\ TypeOK /\ conn \in [Addrs -> Connection] /\ c \in Connection
      /\ s \in Seq(Request) /\ s # <<>>
  BY DEF Inv, TypeOK, Connection
<1>2. /\ conn' = [conn EXCEPT ![a].stdin = Tail(@), ![a].stdio = frame,
                              ![a].objects = objects, ![a].nextHandleId = next]
      /\ thread' = thread /\ handles' = handles /\ calls' = calls
  BY DEF Respond, HelperStep
<1>3. /\ d.objects = objects /\ d.nextHandleId = next
      /\ d.running = c.running /\ d.stdin = Tail(s)
      /\ d.stdio = frame /\ d.stdout = c.stdout
      /\ \A b \in Addrs \ {a} : conn'[b] = conn[b]
  <2> HIDE DEF frame
  <2> QED BY <1>1, <1>2 DEF Connection
<1>4. /\ 1 \in 1 .. Len(s) /\ q = s[1] /\ q \in Request
      /\ Len(d.stdin) = Len(s) - 1 /\ Len(s) \in Nat
      /\ \A i \in 1 .. Len(d.stdin) :
           i + 1 \in 1 .. Len(s) /\ d.stdin[i] = s[i + 1]
  <2>1. Tail(s) \in Seq(Request) /\ Len(Tail(s)) = Len(s) - 1
        /\ \A i \in 1 .. Len(Tail(s)) : Tail(s)[i] = s[i + 1]
    <3> HIDE DEF s
    <3> QED BY <1>1
  <2>2. 1 \in 1 .. Len(s) /\ q = s[1] /\ q \in Request
    <3> HIDE DEF s
    <3> QED BY <1>1
  <2>3. Len(s) \in Nat
    BY <1>1
  <2> HIDE DEF s, q
  <2>4. QED
    BY <1>3, <2>1, <2>2, <2>3
<1>5. r \in Response /\ r.token = q.token /\ r.op = q.op /\ r.ok = ok
      /\ r.id = id
  BY <1>4 DEF Request, Response
<1>6. GoodRequest(q, c.objects)
  BY <1>4 DEF Service, Requests
<1>7. \A i \in 2 .. Len(s) :
        q.op = "drop" /\ s[i].op # "new" => s[i].target # q.target
  BY <1>4 DEF Service, Requests, LastUse
<1>8. \A o \in c.objects :
        o \in objects \/ (q.op = "drop" /\ o = Object(q.id, q.target))
  OBVIOUS
<1>9. /\ \A o, p \in objects : o.id = p.id => o = p
      /\ \A o \in objects : o.id < next
      /\ c.running
      /\ ok /\ q.op = "new" => Object(id, q.token) \in objects
  OBVIOUS
<1>10. \A x \in Response :
         Answered(d, x) => x = r \/ x = NoResponse \/ Answered(c, x)
  <2>1. d.stdio = Noises(n) \o Frame(r)
    BY <1>3
  <2> HIDE DEF c, d, r
  <2> QED BY <1>1, <1>3, <1>5, <2>1, AnsweredRespond
<1> HIDE DEF q, r, frame
<1>11. Table'
  <2> SUFFICES ASSUME NEW b \in Addrs
               PROVE  /\ \A o, p \in conn'[b].objects : o.id = p.id => o = p
                      /\ \A o \in conn'[b].objects :
                           o.id < conn'[b].nextHandleId
                      /\ ~conn'[b].running => conn'[b].stdin = <<>>
    BY DEF Table
  <2>1. CASE b = a
    BY <1>3, <1>9, <2>1
  <2>2. CASE b # a
    BY <1>3, <2>2 DEF Service, Table
  <2>3. QED
    BY <2>1, <2>2
<1>12. Held'
  <2>1. \A b \in Addrs \ {a} : conn'[b] = conn[b]
    BY <1>3
  <2>2. \A h \in handles : h.at = a => Object(h.id, h.token) \in objects
    <3> SUFFICES ASSUME NEW h \in handles, h.at = a
                 PROVE  Object(h.id, h.token) \in objects
      OBVIOUS
    <3>1. Object(h.id, h.token) \in c.objects
      BY <1>9 DEF Service, Held
    <3>2. q.op = "drop" => h.token # q.target
      BY <1>6 DEF GoodRequest
    <3>3. QED
      BY <1>8, <3>1, <3>2 DEF Object
  <2>3. \A u \in Threads : Dropping(u) /\ thread[u].at = a =>
          Object(thread[u].arg.id, thread[u].arg.token) \in objects
    <3> SUFFICES ASSUME NEW u \in Threads, Dropping(u), thread[u].at = a
                 PROVE  Object(thread[u].arg.id, thread[u].arg.token)
                          \in objects
      OBVIOUS
    <3>1. Object(thread[u].arg.id, thread[u].arg.token) \in c.objects
      BY <1>9 DEF Service, Held
    <3>2. q.op = "drop" => thread[u].arg.token # q.target
      BY <1>6 DEF GoodRequest
    <3>3. QED
      BY <1>8, <3>1, <3>2 DEF Object
  <2>4. QED
    BY <1>2, <1>3, <2>1, <2>2, <2>3 DEF Service, Held, Dropping
<1>13. Requests'
  <2>1. ASSUME NEW b \in Addrs, NEW i \in 1 .. Len(conn'[b].stdin)
        PROVE  GoodRequest(conn'[b].stdin[i], conn'[b].objects)
    <3>1. CASE b = a
      <4>1. i + 1 \in 2 .. Len(s) /\ d.stdin[i] = s[i + 1]
            /\ i + 1 \in 1 .. Len(s)
        <5>1. i \in 1 .. Len(d.stdin)
          BY <2>1, <3>1
        <5>2. i + 1 \in 1 .. Len(s) /\ d.stdin[i] = s[i + 1]
          <6> HIDE DEF s, d
          <6> QED BY <1>4, <5>1
        <5>3. i \in Nat \ {0} /\ Len(s) \in Nat
          <6> HIDE DEF s, d
          <6> QED BY <1>4, <5>1
        <5>4. i + 1 \in 2 .. Len(s)
          <6> HIDE DEF s
          <6> QED BY <5>2, <5>3
        <5>5. QED
          BY <5>2, <5>4
      <4> DEFINE p == s[i + 1]
      <4>2. GoodRequest(p, c.objects)
        BY <4>1 DEF Service, Requests
      <4>3. p.op # "new" => Object(p.id, p.target) \in objects
        <5>1. p.op # "new" => Object(p.id, p.target) \in c.objects
          BY <4>2 DEF GoodRequest
        <5>2. q.op = "drop" /\ p.op # "new" => p.target # q.target
          BY <1>7, <4>1
        <5>3. QED
          BY <1>8, <5>1, <5>2 DEF Object
      <4>4. GoodRequest(p, objects)
        BY <4>2, <4>3 DEF GoodRequest
      <4>5. QED
        BY <1>3, <3>1, <4>1, <4>4
    <3>2. CASE b # a
      BY <1>3, <2>1, <3>2 DEF Service, Requests
    <3>3. QED
      BY <3>1, <3>2
  <2>2. ASSUME NEW b \in Addrs
        PROVE  LastUse(conn'[b].stdin)
    <3>1. CASE b = a
      <4>1. LastUse(s)
        BY DEF Service, Requests
      <4>2. LastUse(d.stdin)
        <5> SUFFICES ASSUME NEW i \in 1 .. Len(d.stdin),
                            NEW j \in i + 1 .. Len(d.stdin),
                            d.stdin[i].op = "drop", d.stdin[j].op # "new"
                     PROVE  d.stdin[j].target # d.stdin[i].target
          BY DEF LastUse
        <5>1. /\ i + 1 \in 1 .. Len(s) /\ d.stdin[i] = s[i + 1]
              /\ j \in 1 .. Len(d.stdin)
          BY <1>4
        <5>2. /\ j + 1 \in (i + 1) + 1 .. Len(s) /\ d.stdin[j] = s[j + 1]
          BY <1>4, <5>1
        <5>3. QED
          BY <4>1, <5>1, <5>2 DEF LastUse
      <4>3. QED
        BY <3>1, <4>2
    <3>2. CASE b # a
      BY <1>3, <3>2 DEF Service, Requests
    <3>3. QED
      BY <3>1, <3>2
  <2>3. \A b \in Addrs : \A i \in 1 .. Len(conn'[b].stdin) :
          GoodRequest(conn[b].stdin[i], conn[b].objects)'
    <3> SUFFICES ASSUME NEW b \in Addrs, NEW i \in 1 .. Len(conn'[b].stdin)
                 PROVE  GoodRequest(conn[b].stdin[i], conn[b].objects)'
      OBVIOUS
    <3> DEFINE p == conn'[b].stdin[i]
               S == conn'[b].objects
    <3>1. GoodRequest(p, S)
      BY <2>1
    <3>2. GoodAfter(p, S)
      <4> HIDE DEF p, S
      <4> QED BY <1>2, <3>1 DEF GoodRequest, GoodAfter, Busy, Dropping, Making
    <3>3. QED
      BY <3>2 DEF GoodAfter, GoodRequest
  <2>4. QED
    BY <2>2, <2>3 DEF Requests
<1>14. Replies'
  <2> SUFFICES ASSUME NEW b \in Addrs, NEW x \in Response,
                      Answered(conn'[b], x)
               PROVE  /\ x.token <= calls
                      /\ \A t \in Threads :
                           /\ conn'[b].running /\ Making(t)
                           /\ thread[t].at = b
                           /\ x.ok /\ x.token = thread[t].token
                           => Object(x.id, x.token) \in conn'[b].objects
    BY <1>2 DEF Replies, Making, Busy
  <2>1. CASE b # a
    BY <1>3, <2>1 DEF Service, Replies
  <2>2. CASE b = a /\ x = r
    <3>1. x.token <= calls
      BY <1>5, <1>6, <2>2, <1>1, Numbers DEF GoodRequest
    <3>2. ASSUME NEW t \in Threads, Making(t), x.ok, x.token = thread[t].token
          PROVE  Object(x.id, x.token) \in objects
      <4>1. q.op = "new"
        BY <1>5, <1>6, <2>2, <3>2 DEF GoodRequest, Making
      <4>2. QED
        BY <1>5, <1>9, <2>2, <3>2, <4>1
    <3>3. QED
      BY <1>3, <2>2, <3>1, <3>2
  <2>3. CASE b = a /\ x = NoResponse
    <3>1. x.token = 0 /\ x.ok = FALSE
      BY <2>3 DEF NoResponse
    <3>2. QED
      BY <1>1, <3>1, Numbers
  <2>4. CASE b = a /\ Answered(c, x)
    <3>1. x.token <= calls
      BY <2>4 DEF Service, Replies
    <3>2. ASSUME NEW t \in Threads, Making(t), thread[t].at = a, x.ok,
                 x.token = thread[t].token
          PROVE  Object(x.id, x.token) \in objects
      <4>1. Object(x.id, x.token) \in c.objects
        BY <1>9, <2>4, <3>2 DEF Service, Replies
      <4>2. q.op = "drop" => thread[t].token # q.target
        BY <1>6, <3>2 DEF GoodRequest
      <4>3. QED
        BY <1>8, <3>2, <4>1, <4>2 DEF Object
    <3>3. QED
      BY <1>3, <2>4, <3>1, <3>2
  <2>5. QED
    BY <1>10, <2>1, <2>2, <2>3, <2>4
<1>15. Received'
  <2> SUFFICES ASSUME NEW t \in Threads, thread[t].pc = "body",
                      thread[t].op = "new", thread[t].reply.ok,
                      conn'[thread[t].at].running
               PROVE  Object(thread[t].reply.id, thread[t].token)
                        \in conn'[thread[t].at].objects
    BY <1>2 DEF Received
  <2>1. thread[t].at \in Addrs
    BY DEF Inv, InsideHasConnection
  <2>2. Object(thread[t].reply.id, thread[t].token)
          \in conn[thread[t].at].objects
    BY <1>3, <1>9, <2>1 DEF Service, Received
  <2>3. CASE thread[t].at = a
    <3>1. q.op = "drop" => thread[t].token # q.target
      BY <1>6 DEF GoodRequest, Making, Busy
    <3>2. QED
      BY <1>3, <1>8, <2>2, <2>3, <3>1 DEF Object
  <2>4. CASE thread[t].at # a
    BY <1>3, <2>1, <2>2, <2>4
  <2>5. QED
    BY <2>3, <2>4
<1>16. QED
  BY <1>11, <1>12, <1>13, <1>14, <1>15 DEF Service

LEMMA ServiceHelper ==
  ASSUME Inv, Inv', Claims, Service, NEW a \in Addrs, Serves(a) \/ Crash(a)
  PROVE  Service'
<1>0. /\ TypeOK /\ conn \in [Addrs -> Connection] /\ conn[a] \in Connection
  BY DEF Inv, TypeOK
<1>1. HelperStep
  BY DEF Serves, Answers, Crash, ServeNew, ServeNull, ServeUse, ServeDrop,
         Respond, Flush
<1>2. thread' = thread /\ handles' = handles /\ calls' = calls
  BY <1>1 DEF HelperStep
<1>3. Proceeds /\ Receives
  <2>1. \A u \in Threads : Busy(u)' => GoesOn(u)
    BY <1>2, SameGoesOn DEF Busy
  <2>2. QED
    BY <1>0, <1>2, <2>1, Numbers DEF Proceeds, Receives
<1>4. CASE \E ok \in BOOLEAN, n \in 0 .. MaxNoise : Answers(a, ok, n)
  <2>1. PICK ok \in BOOLEAN, n \in 0 .. MaxNoise : Answers(a, ok, n)
    BY <1>4
  <2> DEFINE q == Head(conn[a].stdin)
             objs == conn[a].objects
             next == conn[a].nextHandleId
  <2>2. /\ n \in Nat /\ next \in Nat /\ 0 \in Nat
        /\ conn[a].running /\ conn[a].stdin # <<>>
    <3>1. n \in Nat /\ next \in Nat /\ 0 \in Nat
      BY <1>0, BridgeAssumption DEF Connection
    <3>2. \E op \in Ops : Ready(a, op)
      BY <2>1 DEF Answers, ServeNew, ServeNull, ServeUse, ServeDrop, Ops
    <3>3. QED
      BY <3>1, <3>2 DEF Ready
  <2>3. /\ \A o, p \in objs : o.id = p.id => o = p
        /\ \A o \in objs : o.id < next
        /\ objs \in SUBSET [id : Nat, token : Nat]
    BY <1>0 DEF Service, Table, Connection
  <2>4. CASE ServeNew(a, ok, n)
    <3> DEFINE new == Object(next, q.token)
               id == IF ok THEN next ELSE 0
               all == objs \cup {new}
    <3>1. /\ Respond(a, ok, id, n, all, next + 1) /\ id \in Nat
          /\ new.id = next
      BY <2>2, <2>4 DEF ServeNew, Object
    <3>2. \A o \in objs : o.id \in Nat /\ o.id < next
      BY <2>3
    <3> HIDE DEF new
    <3>3. /\ \A o, p \in all : o.id = p.id => o = p
          /\ \A o \in all : o.id < next + 1
          /\ \A o \in objs : o \in all
      BY <2>2, <2>3, <3>1, <3>2
    <3>4. ok /\ q.op = "new" => Object(id, q.token) \in all
      BY DEF new
    <3> HIDE DEF all, id
    <3> QED BY <2>2, <3>1, <3>3, <3>4, ServiceRespond
  <2>5. CASE ServeNull(a, n)
    BY <2>2, <2>3, <2>5, ServiceRespond DEF ServeNull
  <2>6. CASE ServeUse(a, ok, n)
    <3>1. Respond(a, ok, 0, n, objs, next) /\ q.op = "use"
      BY <2>6 DEF ServeUse, Ready
    <3>2. QED
      BY <2>2, <2>3, <3>1, ServiceRespond
  <2>7. CASE ServeDrop(a, n)
    <3> DEFINE left == objs \ Known(a)
               ok2 == Known(a) # {}
    <3>1. Respond(a, ok2, 0, n, left, next) /\ q.op = "drop"
          /\ ok2 \in BOOLEAN
      BY <2>7 DEF ServeDrop, Ready
    <3>2. GoodRequest(q, objs)
      <4>1. conn[a].stdin \in Seq(Request)
        BY <1>0 DEF Connection
      <4>2. 1 \in 1 .. Len(conn[a].stdin) /\ q = conn[a].stdin[1]
        BY <2>2, <4>1
      <4>3. QED
        BY <4>2 DEF Service, Requests
    <3>3. \A o \in objs : o \in left \/ o = Object(q.id, q.target)
      BY <2>3, <3>1, <3>2 DEF Known, GoodRequest, Object
    <3>4. /\ \A o, p \in left : o.id = p.id => o = p
          /\ \A o \in left : o.id < next
      BY <2>3
    <3> HIDE DEF left, ok2
    <3> QED BY <2>2, <3>1, <3>3, <3>4, ServiceRespond
  <2>8. QED
    BY <2>1, <2>4, <2>5, <2>6, <2>7 DEF Answers
<1>5. CASE \E k \in 1 .. Len(conn[a].stdio) : Flush(a, k)
  <2>1. PICK k \in 1 .. Len(conn[a].stdio) : Flush(a, k)
    BY <1>5
  <2> DEFINE c == conn[a]
             d == conn'[a]
  <2>2. /\ d.objects = c.objects /\ d.running = c.running
        /\ d.stdin = c.stdin /\ d.nextHandleId = c.nextHandleId
        /\ d.stdout = c.stdout \o SubSeq(c.stdio, 1, k)
        /\ d.stdio = Rest(c.stdio, k)
        /\ \A b \in Addrs \ {a} : conn'[b] = conn[b]
    BY <1>0, <2>1 DEF Flush, Connection
  <2>3. Unmoved(c, d)
    <3>1. k \in 1 .. Len(c.stdio) /\ c \in Connection
      BY <1>0
    <3> HIDE DEF c, d
    <3>2. NothingNew(c, d)
      BY <2>2, <3>1, AnsweredFlush
    <3>3. QED
      BY <2>2, <3>2 DEF Unmoved, KeepsTable
  <2>4. \A b \in Addrs : Unmoved(conn[b], conn'[b])
    BY <2>2, <2>3, UnmovedSame
  <2>5. QED
    BY <1>0, <1>3, <2>4, ServiceKeeps DEF Inv
<1>6. CASE Crash(a)
  <2>1. /\ conn'[a].objects = {} /\ conn'[a].stdin = <<>>
        /\ conn'[a].stdio = <<>> /\ conn'[a].stdout = conn[a].stdout
        /\ ~conn'[a].running
        /\ \A b \in Addrs \ {a} : conn'[b] = conn[b]
    BY <1>0, <1>6 DEF Crash, Connection
  <2>2. Emptied(a)
    BY <2>1 DEF Emptied, NothingNew, Answered
  <2>3. \A b \in Addrs \ {a} : Unmoved(conn[b], conn'[b])
    BY <2>1, UnmovedSame
  <2>4. QED
    BY <1>0, <1>3, <2>2, <2>3, ServiceKeeps DEF Inv
<1>7. QED
  BY <1>4, <1>5, <1>6 DEF Serves
-----------------------------------------------------------------------------
HandleInv == Claims /\ Service

LEMMA HandleNext ==
  ASSUME Inv, Inv', CallInv', HandleInv, [Next]_vars
  PROVE  HandleInv'
<1>0. Claims /\ Service /\ Claims'
  BY ClaimsNext DEF HandleInv
<1>1. ASSUME NEW t \in Threads, Starts(t) \/ Oversize(t) \/ Continues(t)
      PROVE  Service'
  BY <1>0, <1>1, ServiceStarts, ServiceInCall, ServiceWrite
<1>2. ASSUME NEW t \in Threads, NEW h \in handles, Release(t, h)
      PROVE  Service'
  BY <1>0, <1>2, ServiceRelease
<1>3. ASSUME NEW a \in Addrs, Serves(a) \/ Crash(a)
      PROVE  Service'
  BY <1>0, <1>3, ServiceHelper
<1>4. ASSUME Finished \/ UNCHANGED vars
      PROVE  Service'
  <2>1. /\ thread' = thread /\ conn' = conn /\ handles' = handles
        /\ calls' = calls
    BY <1>4 DEF Finished, vars
  <2>2. \A u \in Threads : Busy(u)' => GoesOn(u)
    BY <1>0, <2>1, SameGoesOn DEF Busy
  <2>3. Proceeds /\ Receives
    BY <2>1, <2>2, Numbers DEF Proceeds, Receives, Inv
  <2>4. \A b \in Addrs : Unmoved(conn[b], conn'[b])
    BY <2>1, UnmovedSame
  <2>5. QED
    BY <1>0, <2>3, <2>4, ServiceKeeps DEF Inv
<1>5. Service'
  BY <1>1, <1>2, <1>3, <1>4 DEF Next
<1>6. QED
  BY <1>0, <1>5 DEF HandleInv

LEMMA HandleInit == Init => HandleInv
<1> SUFFICES ASSUME Init PROVE HandleInv
  OBVIOUS
<1>1. /\ \A t \in Threads : thread[t].pc = "idle"
      /\ handles = {}
      /\ \A a \in Addrs : /\ ~conn[a].running /\ conn[a].objects = {}
                          /\ conn[a].stdin = <<>> /\ conn[a].stdio = <<>>
                          /\ conn[a].stdout = <<>>
  BY DEF Init, Idle, Free
<1>2. Claims
  BY <1>1 DEF Claims, HandleTokens, CallTokens, Borrows, Ends, NewTokens,
              DropTokens, Busy, Ending, Making, Dropping
<1>3. Table /\ Held /\ Received
  BY <1>1 DEF Table, Held, Received
<1>4. Requests
  BY <1>1 DEF Requests, LastUse
<1>5. Replies
  BY <1>1 DEF Replies, Answered
<1>6. QED
  BY <1>2, <1>3, <1>4, <1>5 DEF HandleInv, Service

LEMMA HandleInvariance == Spec => []HandleInv
BY HandleInit, HandleNext, Invariance, CallInvariance, PTL DEF Spec

(* A handle names the object it was made for as long as its helper lives:  *)
(* the object is in the table under the handle's id, and a method or a     *)
(* destructor on its way finds there the object it is meant for, whatever  *)
(* other threads release, whatever restarts and whatever the legacy code   *)
(* prints in between.                                                      *)
THEOREM HandlesGood == Spec => []HandlesResolve
<1>1. Inv /\ HandleInv => HandlesResolve
  <2> SUFFICES ASSUME Inv, HandleInv PROVE HandlesResolve
    OBVIOUS
  <2>0. TypeOK
    BY DEF Inv
  <2>1. ASSUME NEW h \in handles, conn[h.at].running
        PROVE  [id |-> h.id, token |-> h.token] \in conn[h.at].objects
    <3>1. h.at \in Addrs
      BY <2>0, Numbers
    <3>2. QED
      BY <2>1, <3>1 DEF HandleInv, Service, Held, Object
  <2>2. ASSUME NEW a \in Addrs, NEW i \in 1 .. Len(conn[a].stdin),
               conn[a].stdin[i].op # "new"
        PROVE  {o \in conn[a].objects : o.id = conn[a].stdin[i].id} =
                 {[id |-> conn[a].stdin[i].id,
                   token |-> conn[a].stdin[i].target]}
    <3> DEFINE q == conn[a].stdin[i]
    <3>1. Object(q.id, q.target) \in conn[a].objects
      BY <2>2 DEF HandleInv, Service, Requests, GoodRequest
    <3>2. \A o, p \in conn[a].objects : o.id = p.id => o = p
      BY DEF HandleInv, Service, Table
    <3>3. QED
      BY <3>1, <3>2 DEF Object
  <2>3. QED
    BY <2>1, <2>2 DEF HandlesResolve
<1>2. QED
  BY <1>1, Invariance, HandleInvariance, PTL
-----------------------------------------------------------------------------
(***************************************************************************)
(* That nothing leaks in a live helper (ObjectsAreOwned), for every number *)
(* of threads, objects, calls and restarts, under the conditions the       *)
(* property names: the legacy code leaves the stream alone, the request    *)
(* ids last, and there is memory for every response.                       *)
(*                                                                         *)
(* The argument is that the stream then stays in step.  Whoever holds the  *)
(* mutex finds both pipes empty, and in them afterwards only its request   *)
(* or the response to it; so no call fails while its helper lives, and     *)
(* what a response says of an object is what the helper's table holds.     *)
(***************************************************************************)

(* A thread outside of any function holds no Arc; one that has entered has *)
(* not asked for its request id yet.                                       *)
IdleElsewhere == \A t \in Threads : ~Busy(t) => thread[t].at = None

Waiting == {t \in Threads : thread[t].pc = "encode"}

IdsLeft ==
  /\ IsFiniteSet(Waiting)
  /\ \A a \in Addrs : conn[a].nextRequestId + Cardinality(Waiting) <= calls + 1

(* The exchange of the call that holds the mutex.                          *)
Clear(c) == c.stdin = <<>> /\ c.stdout = <<>> /\ c.stdio = <<>>

Without(c, token) == \A o \in c.objects : o.token # token

Asks(q, th) ==
  q = [rid |-> th.rid, op |-> th.op, id |-> th.arg.id, token |-> th.token,
       target |-> th.arg.token]

Asked(c, th) ==
  /\ Len(c.stdin) = 1 /\ Asks(c.stdin[1], th)
  /\ c.stdout = <<>> /\ c.stdio = <<>>
  /\ th.op = "new" => Without(c, th.token)

(* What the helper has done when r is its response.                        *)
Outcome(c, th, r) ==
  /\ r.op = th.op
  /\ th.op = "new" /\ ~r.ok => Without(c, th.token)
  /\ th.op = "drop" => Without(c, th.arg.token)

Replied(c, th) ==
  /\ c.stdin = <<>>
  /\ \E r \in Response :
       /\ r.rid = th.rid /\ Outcome(c, th, r)
       /\ c.stdout \o c.stdio = Frame(r)

Reading(c, th) ==
  /\ c.stdin = <<>> /\ Outcome(c, th, th.reply)
  /\ Len(c.stdout) + Len(c.stdio) = BodyLen(th.reply)

Exchange(c, th) ==
  \/ th.pc = "write" /\ Clear(c)
  \/ th.pc = "header" /\ (Asked(c, th) \/ Replied(c, th))
  \/ th.pc = "body" /\ Reading(c, th)

InStep(a) ==
  \/ conn[a].lock = None /\ Clear(conn[a])
  \/ \E t \in Threads :
       conn[a].lock = t /\ thread[t].at = a /\ Exchange(conn[a], thread[t])

Unmade(a) ==
  \A t \in Threads :
    thread[t].at = a /\ thread[t].pc \in {"encode", "write"}
    /\ thread[t].op = "new" => Without(conn[a], thread[t].token)

TokensOf(a) ==
  /\ \A o \in conn[a].objects : o.token <= calls
  /\ \A o, p \in conn[a].objects : o.token = p.token => o = p

HasOwner(a, token) ==
  \/ \E h \in handles : h.at = a /\ h.token = token
  \/ \E t \in Threads : thread[t].at = a /\
       \/ thread[t].op = "new" /\ thread[t].token = token
       \/ thread[t].op = "drop" /\ thread[t].arg.token = token

Owned(a) == \A o \in conn[a].objects : HasOwner(a, o.token)

Accounted(a) ==
  conn[a].running => InStep(a) /\ Unmade(a) /\ TokensOf(a) /\ Owned(a)

OwnInv == IdleElsewhere /\ IdsLeft /\ \A a \in Addrs : Accounted(a)
-----------------------------------------------------------------------------
(* Request ids: those given out and the calls that may still ask for one   *)
(* are no more than the calls there were.                                  *)
LEMMA IdsKept ==
  ASSUME TypeOK, IdsLeft, Waiting' \subseteq Waiting,
         calls \in Nat, calls' \in Nat, calls <= calls',
         \A a \in Addrs : /\ conn'[a].nextRequestId \in Nat
                          /\ conn'[a].nextRequestId <= conn[a].nextRequestId
  PROVE  IdsLeft'
<1>1. IsFiniteSet(Waiting) /\ Cardinality(Waiting) \in Nat
  BY FS_CardinalityType DEF IdsLeft
<1>2. /\ IsFiniteSet(Waiting') /\ Cardinality(Waiting') \in Nat
      /\ Cardinality(Waiting') <= Cardinality(Waiting)
  BY <1>1, FS_Subset, FS_CardinalityType
<1>3. ASSUME NEW a \in Addrs
      PROVE  conn'[a].nextRequestId + Cardinality(Waiting') <= calls' + 1
  <2>1. conn[a].nextRequestId + Cardinality(Waiting) <= calls + 1
    BY DEF IdsLeft
  <2>2. conn[a].nextRequestId \in Nat
    BY BridgeAssumption DEF TypeOK, Connection
  <2>3. QED
    BY <1>1, <1>2, <2>1, <2>2
<1>4. QED
  BY <1>2, <1>3 DEF IdsLeft

LEMMA IdsAsked ==
  ASSUME TypeOK, IdsLeft, NEW t \in Waiting, Waiting' = Waiting \ {t},
         calls \in Nat, calls' = calls,
         \A a \in Addrs :
           /\ conn'[a].nextRequestId \in Nat
           /\ conn'[a].nextRequestId <= conn[a].nextRequestId + 1
  PROVE  IdsLeft'
<1>1. IsFiniteSet(Waiting) /\ Cardinality(Waiting) \in Nat
  BY FS_CardinalityType DEF IdsLeft
<1>2. /\ IsFiniteSet(Waiting') /\ Cardinality(Waiting') \in Nat
      /\ Cardinality(Waiting') = Cardinality(Waiting) - 1
  BY <1>1, FS_RemoveElement, FS_CardinalityType
<1>3. ASSUME NEW a \in Addrs
      PROVE  conn'[a].nextRequestId + Cardinality(Waiting') <= calls' + 1
  <2>1. conn[a].nextRequestId + Cardinality(Waiting) <= calls + 1
    BY DEF IdsLeft
  <2>2. conn[a].nextRequestId \in Nat
    BY BridgeAssumption DEF TypeOK, Connection
  <2>3. QED
    BY <1>1, <1>2, <2>1, <2>2
<1>4. QED
  BY <1>2, <1>3 DEF IdsLeft

LEMMA IdsEnter ==
  ASSUME TypeOK, IdsLeft, NEW t, Waiting' = Waiting \cup {t}, t \notin Waiting,
         calls \in Nat, calls' = calls + 1,
         \A a \in Addrs : /\ conn'[a].nextRequestId \in Nat
                          /\ conn'[a].nextRequestId <= conn[a].nextRequestId
  PROVE  IdsLeft'
<1>1. IsFiniteSet(Waiting) /\ Cardinality(Waiting) \in Nat
  BY FS_CardinalityType DEF IdsLeft
<1>2. /\ IsFiniteSet(Waiting') /\ Cardinality(Waiting') \in Nat
      /\ Cardinality(Waiting') = Cardinality(Waiting) + 1
  BY <1>1, FS_AddElement, FS_CardinalityType
<1>3. ASSUME NEW a \in Addrs
      PROVE  conn'[a].nextRequestId + Cardinality(Waiting') <= calls' + 1
  <2>1. conn[a].nextRequestId + Cardinality(Waiting) <= calls + 1
    BY DEF IdsLeft
  <2>2. conn[a].nextRequestId \in Nat
    BY BridgeAssumption DEF TypeOK, Connection
  <2>3. QED
    BY <1>1, <1>2, <2>1, <2>2
<1>4. QED
  BY <1>2, <1>3 DEF IdsLeft

(* So a call that waits for the mutex will have an id.                     *)
LEMMA IdLeft ==
  ASSUME TypeOK, IdsLeft, MaxCalls < MaxRequestId, NEW t \in Waiting,
         NEW a \in Addrs
  PROVE  conn[a].nextRequestId # MaxRequestId
<1>1. IsFiniteSet(Waiting) /\ Cardinality(Waiting) \in Nat
  BY FS_CardinalityType DEF IdsLeft
<1>2. Cardinality(Waiting) # 0
  BY <1>1, FS_EmptySet
<1>3. conn[a].nextRequestId \in Nat /\ calls \in Nat /\ calls <= MaxCalls
      /\ MaxCalls \in Nat /\ MaxRequestId \in Nat
  BY BridgeAssumption DEF TypeOK, Connection
<1>4. conn[a].nextRequestId + Cardinality(Waiting) <= calls + 1
  BY DEF IdsLeft
<1>5. QED
  BY <1>1, <1>2, <1>3, <1>4
-----------------------------------------------------------------------------
(* A Connection that a step does not touch, nor its calls and handles.     *)
LEMMA Elsewhere ==
  ASSUME TypeOK, NEW a \in Addrs, Accounted(a),
         calls' \in Nat, calls <= calls',
         conn'[a].running =>
           /\ conn'[a] = conn[a]
           /\ \A u \in Threads : thread'[u].at = a \/ thread[u].at = a =>
                thread'[u] = thread[u]
           /\ \A h \in handles : h.at = a => h \in handles'
  PROVE  Accounted(a)'
<1> SUFFICES ASSUME conn'[a].running
             PROVE  InStep(a)' /\ Unmade(a)' /\ TokensOf(a)' /\ Owned(a)'
  BY DEF Accounted
<1>1. /\ conn'[a] = conn[a]
      /\ \A u \in Threads : thread'[u].at = a \/ thread[u].at = a =>
           thread'[u] = thread[u]
      /\ \A h \in handles : h.at = a => h \in handles'
  OBVIOUS
<1>2. InStep(a) /\ Unmade(a) /\ TokensOf(a) /\ Owned(a)
  BY <1>1 DEF Accounted
<1>3. InStep(a)'
  BY <1>1, <1>2 DEF InStep
<1>4. Unmade(a)'
  BY <1>1, <1>2 DEF Unmade
<1>5. TokensOf(a)'
  <2>1. \A o \in conn[a].objects : o.token \in Nat
    BY DEF TypeOK, Connection
  <2>2. calls \in Nat
    BY BridgeAssumption DEF TypeOK
  <2>3. QED
    BY <1>1, <1>2, <2>1, <2>2 DEF TokensOf
<1>6. Owned(a)'
  BY <1>1, <1>2 DEF Owned, HasOwner
<1>7. QED
  BY <1>3, <1>4, <1>5, <1>6


(* A call is entered at the Connection b, by a thread that holds no Arc; a *)
(* release owns the object of the handle it takes.                         *)
LEMMA AccountedEnter ==
  ASSUME TypeOK, Claims, IdleElsewhere, NEW t \in Threads, ~Busy(t),
         NEW op \in Ops, NEW h, NEW b, NEW g, Enter(t, op, h, b, g),
         op = "drop" => h.at = b,
         \A k \in handles : k \in handles' \/ (op = "drop" /\ k = h),
         NEW a \in Addrs, Accounted(a),
         conn'[a].running => conn'[a] = conn[a]
  PROVE  Accounted(a)'
<1> SUFFICES ASSUME conn'[a].running
             PROVE  InStep(a)' /\ Unmade(a)' /\ TokensOf(a)' /\ Owned(a)'
  BY DEF Accounted
<1>1. conn'[a] = conn[a] /\ InStep(a) /\ Unmade(a) /\ TokensOf(a) /\ Owned(a)
  BY DEF Accounted
<1>2. /\ thread'[t].pc = "encode" /\ thread'[t].op = op
      /\ thread'[t].arg = h /\ thread'[t].at = b
      /\ thread'[t].token = calls + 1
      /\ \A u \in Threads \ {t} : thread'[u] = thread[u]
      /\ calls' = calls + 1 /\ calls \in Nat
  BY Numbers DEF TypeOK, Enter
<1>3. thread[t].at = None /\ None \notin Addrs
  BY BridgeAssumption DEF IdleElsewhere
<1>4. \A o \in conn[a].objects : o.token \in Nat
  BY DEF TypeOK, Connection
<1>5. InStep(a)'
  BY <1>1, <1>2, <1>3 DEF InStep
<1>6. Unmade(a)'
  <2> SUFFICES ASSUME NEW u \in Threads, thread'[u].at = a,
                      thread'[u].pc \in {"encode", "write"},
                      thread'[u].op = "new"
               PROVE  Without(conn'[a], thread'[u].token)
    BY DEF Unmade
  <2>1. CASE u = t
    <3>1. \A o \in conn[a].objects : o.token # calls + 1
      BY <1>1, <1>2, <1>4 DEF TokensOf
    <3>2. QED
      BY <1>1, <1>2, <2>1, <3>1 DEF Without
  <2>2. CASE u # t
    BY <1>1, <1>2, <2>2 DEF Unmade
  <2>3. QED
    BY <2>1, <2>2
<1>7. TokensOf(a)'
  BY <1>1, <1>2, <1>4 DEF TokensOf
<1>8. Owned(a)'
  <2> SUFFICES ASSUME NEW o \in conn'[a].objects
               PROVE  \/ \E k \in handles' : k.at = a /\ k.token = o.token
                      \/ \E u \in Threads : thread'[u].at = a /\
                           \/ thread'[u].op = "new" /\ thread'[u].token = o.token
                           \/ /\ thread'[u].op = "drop"
                              /\ thread'[u].arg.token = o.token
    BY DEF Owned, HasOwner
  <2>1. \/ \E k \in handles : k.at = a /\ k.token = o.token
        \/ \E u \in Threads : thread[u].at = a /\
             \/ thread[u].op = "new" /\ thread[u].token = o.token
             \/ thread[u].op = "drop" /\ thread[u].arg.token = o.token
    BY <1>1 DEF Owned, HasOwner
  <2>2. CASE \E k \in handles : k.at = a /\ k.token = o.token
    BY <1>2, <2>2
  <2>3. CASE \E u \in Threads : thread[u].at = a /\
             \/ thread[u].op = "new" /\ thread[u].token = o.token
             \/ thread[u].op = "drop" /\ thread[u].arg.token = o.token
    BY <1>2, <1>3, <2>3
  <2>4. QED
    BY <2>1, <2>2, <2>3
<1>9. QED
  BY <1>5, <1>6, <1>7, <1>8

(* A call that fails before its request is out leaves no object behind.    *)
LEMMA AccountedLeave ==
  ASSUME TypeOK, NEW t \in Threads, thread[t].pc = "encode",
         thread[t].op # "drop", Return(t, conn), handles' = handles,
         NEW a \in Addrs, Accounted(a)
  PROVE  Accounted(a)'
<1> SUFFICES ASSUME conn'[a].running
             PROVE  InStep(a)' /\ Unmade(a)' /\ TokensOf(a)' /\ Owned(a)'
  BY DEF Accounted
<1>1. /\ thread'[t] = Idle /\ calls' = calls
      /\ \A u \in Threads \ {t} : thread'[u] = thread[u]
      /\ conn'[a] = IF Referenced(a)' THEN conn[a] ELSE Free
  BY DEF Return, DropUnreferenced, TypeOK
<1>2. conn'[a] = conn[a]
  BY <1>1 DEF Free
<1>3. InStep(a) /\ Unmade(a) /\ TokensOf(a) /\ Owned(a)
  BY <1>2 DEF Accounted
<1>4. thread'[t].at \notin Addrs
  BY <1>1, BridgeAssumption DEF Idle
<1>5. InStep(a)'
  BY <1>1, <1>2, <1>3 DEF InStep, Exchange
<1>6. Unmade(a)'
  BY <1>1, <1>2, <1>3, <1>4 DEF Unmade
<1>7. TokensOf(a)'
  BY <1>1, <1>2, <1>3 DEF TokensOf
<1>8. Owned(a)'
  <2> SUFFICES ASSUME NEW o \in conn[a].objects
               PROVE  HasOwner(a, o.token)'
    BY <1>2 DEF Owned
  <2>1. \/ \E k \in handles : k.at = a /\ k.token = o.token
        \/ \E u \in Threads : thread[u].at = a /\
             \/ thread[u].op = "new" /\ thread[u].token = o.token
             \/ thread[u].op = "drop" /\ thread[u].arg.token = o.token
    BY <1>3 DEF Owned, HasOwner
  <2>2. thread[t].at = a /\ thread[t].op = "new" => thread[t].token # o.token
    BY <1>3 DEF Unmade, Without
  <2>3. QED
    BY <1>1, <2>1, <2>2 DEF HasOwner
<1>9. QED
  BY <1>5, <1>6, <1>7, <1>8

(* The mutex is taken: both pipes are empty.                               *)
LEMMA AccountedLock ==
  ASSUME TypeOK, NEW t \in Threads, Lock(t), NEW a \in Addrs, Accounted(a)
  PROVE  Accounted(a)'
<1> DEFINE at == thread[t].at
<1>1. /\ thread[t].pc = "encode" /\ conn[at].lock = None
      /\ conn' = [conn EXCEPT ![at].lock = t, ![at].nextRequestId = @ + 1]
      /\ thread' = [thread EXCEPT ![t].pc = "write",
                                  ![t].rid = conn[at].nextRequestId]
      /\ calls' = calls /\ handles' = handles
  BY DEF Lock, Encoded, Keeps
<1>2. /\ thread'[t].pc = "write" /\ thread'[t].op = thread[t].op
      /\ thread'[t].at = at /\ thread'[t].token = thread[t].token
      /\ thread'[t].arg = thread[t].arg
      /\ \A u \in Threads \ {t} : thread'[u] = thread[u]
  BY <1>1 DEF TypeOK, Thread
<1>3. CASE a # at
  <2>1. conn'[a] = conn[a]
    BY <1>1, <1>3 DEF TypeOK
  <2>2. calls' \in Nat /\ calls <= calls'
    BY <1>1, Numbers
  <2>3. \A u \in Threads : thread'[u].at = a \/ thread[u].at = a =>
          thread'[u] = thread[u]
    BY <1>2, <1>3
  <2>4. \A h \in handles : h.at = a => h \in handles'
    BY <1>1
  <2>5. QED
    BY <2>1, <2>2, <2>3, <2>4, Elsewhere
<1>4. CASE a = at
  <2> SUFFICES ASSUME conn'[a].running
               PROVE  InStep(a)' /\ Unmade(a)' /\ TokensOf(a)' /\ Owned(a)'
    BY DEF Accounted
  <2>1. /\ conn'[a].lock = t /\ conn'[a].running = conn[a].running
        /\ conn'[a].stdin = conn[a].stdin /\ conn'[a].stdout = conn[a].stdout
        /\ conn'[a].stdio = conn[a].stdio /\ conn'[a].objects = conn[a].objects
    BY <1>1, <1>4 DEF TypeOK, Connection
  <2>2. InStep(a) /\ Unmade(a) /\ TokensOf(a) /\ Owned(a)
    BY <2>1 DEF Accounted
  <2>3. Clear(conn[a])
    BY <1>1, <1>4, <2>2, BridgeAssumption DEF InStep
  <2>4. InStep(a)'
    BY <1>2, <1>4, <2>1, <2>3 DEF InStep, Exchange, Clear
  <2>5. Unmade(a)'
    <3> SUFFICES ASSUME NEW u \in Threads, thread'[u].at = a,
                        thread'[u].pc \in {"encode", "write"},
                        thread'[u].op = "new"
                 PROVE  Without(conn'[a], thread'[u].token)
      BY DEF Unmade
    <3>1. /\ thread[u].at = a /\ thread[u].op = "new"
          /\ thread[u].pc \in {"encode", "write"}
          /\ thread'[u].token = thread[u].token
      BY <1>1, <1>2
    <3>2. QED
      BY <2>1, <2>2, <3>1 DEF Unmade, Without
  <2>6. TokensOf(a)'
    BY <1>1, <2>1, <2>2 DEF TokensOf
  <2>7. Owned(a)'
    <3>1. \A u \in Threads :
            /\ thread'[u].at = thread[u].at /\ thread'[u].op = thread[u].op
            /\ thread'[u].token = thread[u].token
            /\ thread'[u].arg = thread[u].arg
      BY <1>2
    <3>2. \A token : HasOwner(a, token) => HasOwner(a, token)'
      BY <1>1, <3>1 DEF HasOwner
    <3>3. QED
      BY <2>1, <2>2, <3>2 DEF Owned
  <2>8. QED
    BY <2>4, <2>5, <2>6, <2>7
<1>5. QED
  BY <1>3, <1>4


(* A step of thread t, for a Connection it is not inside of.               *)
LEMMA AccountedOther ==
  ASSUME TypeOK, NEW t \in Threads, thread'[t].at \in {thread[t].at, None},
         \A u \in Threads \ {t} : thread'[u] = thread[u],
         handles \subseteq handles', calls' = calls,
         NEW a \in Addrs, a # thread[t].at, Accounted(a),
         conn'[a] = conn[a] \/ ~conn'[a].running
  PROVE  Accounted(a)'
<1>1. calls' \in Nat /\ calls <= calls'
  BY Numbers
<1>2. \A u \in Threads : thread'[u].at = a \/ thread[u].at = a =>
        thread'[u] = thread[u]
  BY BridgeAssumption
<1>3. QED
  BY <1>1, <1>2, Elsewhere

(* The call that holds the mutex is the one the exchange is of.            *)
LEMMA OwnersExchange ==
  ASSUME CallInv, NEW t \in Threads, thread[t].pc \in Exchanging,
         thread[t].at \in Addrs, InStep(thread[t].at)
  PROVE  Exchange(conn[thread[t].at], thread[t])
<1>1. conn[thread[t].at].lock = t /\ t # None
  BY BridgeAssumption DEF CallInv, OwnExchange
<1>2. QED
  BY <1>1 DEF InStep

LEMMA AccountedWrite ==
  ASSUME Inv, CallInv, NEW t \in Threads, Write(t), NEW a \in Addrs,
         Accounted(a)
  PROVE  Accounted(a)'
<1> DEFINE at == thread[t].at
           q == [rid |-> thread[t].rid, op |-> thread[t].op,
                 id |-> thread[t].arg.id, token |-> thread[t].token,
                 target |-> thread[t].arg.token]
<1>1. /\ thread[t].pc = "write" /\ conn[at].running
      /\ conn' = [conn EXCEPT ![at].stdin = Append(@, q)]
      /\ thread' = [thread EXCEPT ![t].pc = "header"]
      /\ calls' = calls /\ handles' = handles
  BY DEF Write, Keeps
<1>2. /\ thread'[t].pc = "header" /\ thread'[t].op = thread[t].op
      /\ thread'[t].at = at /\ thread'[t].token = thread[t].token
      /\ thread'[t].arg = thread[t].arg /\ thread'[t].rid = thread[t].rid
      /\ \A u \in Threads \ {t} : thread'[u] = thread[u]
  BY <1>1 DEF Inv, TypeOK, Thread
<1>3. CASE a # at
  <2>1. conn'[a] = conn[a]
    BY <1>1, <1>3 DEF Inv, TypeOK
  <2>2. handles \subseteq handles' /\ thread'[t].at \in {thread[t].at, None}
    BY <1>1, <1>2
  <2>3. TypeOK
    BY DEF Inv
  <2>4. QED
    BY <1>1, <1>2, <1>3, <2>1, <2>2, <2>3, AccountedOther
<1>4. CASE a = at
  <2> SUFFICES ASSUME conn'[a].running
               PROVE  InStep(a)' /\ Unmade(a)' /\ TokensOf(a)' /\ Owned(a)'
    BY DEF Accounted
  <2>1. /\ conn'[a].lock = conn[a].lock
        /\ conn'[a].stdin = Append(conn[a].stdin, q)
        /\ conn'[a].stdout = conn[a].stdout
        /\ conn'[a].stdio = conn[a].stdio /\ conn'[a].objects = conn[a].objects
    <3> HIDE DEF q
    <3> QED BY <1>1, <1>4 DEF Inv, TypeOK, Connection
  <2>2. InStep(a) /\ Unmade(a) /\ TokensOf(a) /\ Owned(a)
    BY <1>1, <1>4 DEF Accounted
  <2>3. conn[a].lock = t
    BY <1>1, <1>4 DEF CallInv, OwnExchange, Exchanging
  <2>4. Clear(conn[a])
    BY <1>1, <1>4, <2>2, OwnersExchange DEF Exchange, Exchanging
  <2>5. Asked(conn'[a], thread'[t])
    <3>1. conn'[a].stdin = <<q>>
      BY <2>1, <2>4 DEF Clear
    <3>2. Asks(q, thread'[t])
      BY <1>2 DEF Asks
    <3>3. conn'[a].stdout = <<>> /\ conn'[a].stdio = <<>>
      BY <2>1, <2>4 DEF Clear
    <3>4. thread'[t].op = "new" => Without(conn'[a], thread'[t].token)
      BY <1>1, <1>2, <1>4, <2>1, <2>2 DEF Unmade, Without
    <3>5. Len(conn'[a].stdin) = 1 /\ conn'[a].stdin[1] = q
      <4> HIDE DEF q
      <4> QED BY <3>1
    <3>6. QED
      BY <3>2, <3>3, <3>4, <3>5 DEF Asked
  <2>6. InStep(a)'
    BY <1>2, <1>4, <2>1, <2>3, <2>5 DEF InStep, Exchange
  <2>7. Unmade(a)'
    <3> SUFFICES ASSUME NEW u \in Threads, thread'[u].at = a,
                        thread'[u].pc \in {"encode", "write"},
                        thread'[u].op = "new"
                 PROVE  Without(conn'[a], thread'[u].token)
      BY DEF Unmade
    <3>1. thread'[u] = thread[u]
      BY <1>2
    <3>2. QED
      BY <2>1, <2>2, <3>1 DEF Unmade, Without
  <2>8. TokensOf(a)'
    BY <1>1, <2>1, <2>2 DEF TokensOf
  <2>9. Owned(a)'
    <3>1. \A u \in Threads :
            /\ thread'[u].at = thread[u].at /\ thread'[u].op = thread[u].op
            /\ thread'[u].token = thread[u].token
            /\ thread'[u].arg = thread[u].arg
      BY <1>2
    <3>2. \A token : HasOwner(a, token) => HasOwner(a, token)'
      BY <1>1, <3>1 DEF HasOwner
    <3>3. QED
      BY <2>1, <2>2, <3>2 DEF Owned
  <2>10. QED
    BY <2>6, <2>7, <2>8, <2>9
<1>5. QED
  BY <1>3, <1>4

(* The next cells of a stream in step are those of the response.           *)
LEMMA NextCells ==
  ASSUME NEW s \in Seq(Cell), NEW u \in Seq(Cell), NEW r \in Response,
         s \o u = Frame(r), Len(s) >= HeaderLen
  PROVE  /\ \A i \in 1 .. HeaderLen : s[i] = [pos |-> i, of |-> r]
         /\ 1 \in 1 .. HeaderLen
         /\ Len(s) + Len(u) = HeaderLen + BodyLen(r)
<1>1. HeaderLen \in Nat \ {0} /\ BodyLen(r) \in Nat
  BY BridgeAssumption DEF BodyLen
<1>2. /\ Len(Frame(r)) = HeaderLen + BodyLen(r)
      /\ \A i \in 1 .. HeaderLen + BodyLen(r) :
           Frame(r)[i] = [pos |-> i, of |-> r]
  BY <1>1 DEF Frame
<1>3. /\ Len(s \o u) = Len(s) + Len(u) /\ Len(s) \in Nat /\ Len(u) \in Nat
      /\ \A i \in 1 .. Len(s) : (s \o u)[i] = s[i]
  BY ConcatProperties
<1>4. ASSUME NEW i \in 1 .. HeaderLen
      PROVE  s[i] = [pos |-> i, of |-> r]
  <2>1. i \in 1 .. Len(s) /\ i \in 1 .. HeaderLen + BodyLen(r)
    BY <1>1, <1>3
  <2>2. QED
    BY <1>2, <1>3, <2>1
<1>5. 1 \in 1 .. HeaderLen
  BY <1>1
<1>6. QED
  BY <1>2, <1>3, <1>4, <1>5

(* The header that comes next is that of the call's response.              *)
Coming(c, th, r) ==
  /\ c.stdin = <<>> /\ r.rid = th.rid /\ Outcome(c, th, r)
  /\ \A i \in 1 .. HeaderLen : c.stdout[i].pos = i /\ c.stdout[i].of = r
  /\ c.stdout[1].of = r
  /\ Len(c.stdout) + Len(c.stdio) = HeaderLen + BodyLen(r)

LEMMA ReplyNext ==
  ASSUME Inv, CallInv, NEW t \in Threads, thread[t].pc = "header",
         NEW a, a = thread[t].at, a \in Addrs, conn[a].running, Accounted(a),
         Len(conn[a].stdout) >= HeaderLen
  PROVE  \E r \in Response : Coming(conn[a], thread[t], r)
<1>1. Exchange(conn[a], thread[t])
  BY OwnersExchange DEF Accounted, Exchanging
<1>2. ~Asked(conn[a], thread[t])
  BY BridgeAssumption DEF Asked
<1>3. Replied(conn[a], thread[t])
  BY <1>1, <1>2 DEF Exchange
<1>4. conn[a].stdout \in Seq(Cell) /\ conn[a].stdio \in Seq(Cell)
  BY DEF Inv, TypeOK, Connection
<1>5. PICK r \in Response : /\ r.rid = thread[t].rid
                            /\ Outcome(conn[a], thread[t], r)
                            /\ conn[a].stdout \o conn[a].stdio = Frame(r)
  BY <1>3 DEF Replied
<1>6. conn[a].stdin = <<>>
  BY <1>3 DEF Replied
<1>7. Coming(conn[a], thread[t], r)
  <2> DEFINE s == conn[a].stdout
             u == conn[a].stdio
  <2>1. s \in Seq(Cell) /\ u \in Seq(Cell) /\ s \o u = Frame(r)
        /\ Len(s) >= HeaderLen
    BY <1>4, <1>5
  <2> HIDE DEF s, u
  <2>2. /\ \A i \in 1 .. HeaderLen : s[i] = [pos |-> i, of |-> r]
        /\ 1 \in 1 .. HeaderLen
        /\ Len(s) + Len(u) = HeaderLen + BodyLen(r)
    BY <2>1, NextCells
  <2>3. ASSUME NEW i \in 1 .. HeaderLen
        PROVE  s[i].pos = i /\ s[i].of = r
    <3>1. s[i] = [pos |-> i, of |-> r]
      BY <2>2
    <3>2. QED
      BY <3>1
  <2>4. s[1].of = r
    BY <2>2, <2>3
  <2>5. QED
    BY <1>5, <1>6, <2>2, <2>3, <2>4 DEF Coming, s, u
<1>8. QED
  BY <1>7

(* While its helper lives, a call never finds a header that is not its own.*)
LEMMA NoBadHeader ==
  ASSUME Inv, CallInv, NEW t \in Threads, BadHeader(t),
         \A a \in Addrs : Accounted(a)
  PROVE  ~conn[thread[t].at].running
<1> DEFINE a == thread[t].at
<1>1. /\ thread[t].pc = "header" /\ Len(conn[a].stdout) >= HeaderLen
      /\ ~ValidHeader(conn[a].stdout, thread[t].rid) /\ a \in Addrs
  BY DEF BadHeader, Inv, InsideHasConnection
<1>2. SUFFICES ASSUME conn[a].running PROVE FALSE
  OBVIOUS
<1>3. PICK r \in Response : Coming(conn[a], thread[t], r)
  <2>1. Accounted(a)
    BY <1>1
  <2> HIDE DEF a
  <2>2. a = thread[t].at
    BY DEF a
  <2>3. QED
    BY <1>1, <1>2, <2>1, <2>2, ReplyNext
<1>4. ValidHeader(conn[a].stdout, thread[t].rid)
  BY <1>3 DEF Coming, ValidHeader
<1>5. QED
  BY <1>1, <1>4


(* A call ends, or goes on to retire its Connection, with its helper dead. *)
LEMMA AccountedDead ==
  ASSUME Inv, NEW t \in Threads, NEW at, at = thread[t].at,
         ~conn[at].running, NEW c \in [Addrs -> Connection],
         \A b \in Addrs : b # at => c[b] = conn[b],
         ~c[at].running, handles' = handles,
         \/ Return(t, c)
         \/ /\ thread' = [thread EXCEPT ![t].pc = "retire"]
            /\ conn' = c /\ calls' = calls,
         NEW a \in Addrs, Accounted(a)
  PROVE  Accounted(a)'
<1>1. /\ thread'[t].at \in {at, None}
      /\ \A u \in Threads \ {t} : thread'[u] = thread[u]
      /\ calls' = calls
      /\ conn'[a] = c[a] \/ ~conn'[a].running
  <2>1. CASE Return(t, c)
    <3>1. /\ thread'[t] = Idle
          /\ \A u \in Threads \ {t} : thread'[u] = thread[u]
          /\ calls' = calls
          /\ conn'[a] = c[a] \/ conn'[a] = Free
      BY <2>1 DEF Inv, TypeOK, Return, DropUnreferenced
    <3>2. QED
      BY <3>1 DEF Idle, Free
  <2>2. CASE /\ thread' = [thread EXCEPT ![t].pc = "retire"]
             /\ conn' = c /\ calls' = calls
    BY <2>2 DEF Inv, TypeOK, Thread
  <2>3. QED
    BY <2>1, <2>2
<1>2. CASE a = at
  BY <1>1, <1>2 DEF Accounted
<1>3. CASE a # at
  <2>1. conn'[a] = conn[a] \/ ~conn'[a].running
    BY <1>1, <1>3
  <2>2. handles \subseteq handles' /\ TypeOK
    BY DEF Inv
  <2>3. QED
    BY <1>1, <1>3, <2>1, <2>2, AccountedOther
<1>4. QED
  BY <1>2, <1>3

(* What is unlocked, and what of it is read, is elsewhere untouched.       *)
LEMMA UnlockedTaken ==
  ASSUME TypeOK, NEW t \in Threads, NEW at, at = thread[t].at, at \in Addrs,
         NEW n \in Nat
  PROVE  /\ Unlocked(t) \in [Addrs -> Connection]
         /\ Taken(Unlocked(t), at, n) \in [Addrs -> Connection]
         /\ \A b \in Addrs : b # at =>
              /\ Unlocked(t)[b] = conn[b]
              /\ Taken(Unlocked(t), at, n)[b] = conn[b]
         /\ Unlocked(t)[at].running = conn[at].running
         /\ LET d == Taken(Unlocked(t), at, n)[at] IN
            /\ d.running = conn[at].running /\ d.lock = None
            /\ d.stdin = conn[at].stdin /\ d.stdio = conn[at].stdio
            /\ d.stdout = Rest(conn[at].stdout, n)
            /\ d.objects = conn[at].objects
<1>1. Unlocked(t) \in [Addrs -> Connection] /\ conn \in [Addrs -> Connection]
  BY UnlockedType DEF TypeOK
<1>2. Taken(Unlocked(t), at, n) \in [Addrs -> Connection]
  BY <1>1, TakenType
<1>3. /\ \A b \in Addrs : b # at => Unlocked(t)[b] = conn[b]
      /\ LET e == Unlocked(t)[at] IN
         /\ e.running = conn[at].running /\ e.lock = None
         /\ e.stdin = conn[at].stdin /\ e.stdio = conn[at].stdio
         /\ e.stdout = conn[at].stdout /\ e.objects = conn[at].objects
  BY <1>1 DEF Unlocked, Connection
<1> DEFINE c == Unlocked(t)
           d == Taken(c, at, n)
<1>4. /\ \A b \in Addrs : b # at => d[b] = c[b]
      /\ d[at].running = c[at].running /\ d[at].lock = c[at].lock
      /\ d[at].stdin = c[at].stdin /\ d[at].stdio = c[at].stdio
      /\ d[at].stdout = Rest(c[at].stdout, n)
      /\ d[at].objects = c[at].objects
  <2>1. c \in [Addrs -> Connection]
    BY <1>1
  <2> HIDE DEF c
  <2>2. QED
    BY <2>1 DEF Taken, Connection
<1>5. QED
  BY <1>1, <1>2, <1>3, <1>4

LEMMA AccountedBreak ==
  ASSUME Inv, NEW t \in Threads, NEW at, at = thread[t].at,
         ~conn[at].running, NEW c \in [Addrs -> Connection],
         \A b \in Addrs : b # at => c[b] = conn[b],
         ~c[at].running, Break(t, c),
         NEW a \in Addrs, Accounted(a)
  PROVE  Accounted(a)'
<1>1. handles' = handles
  BY DEF Break
<1>2. \/ Return(t, c)
      \/ /\ thread' = [thread EXCEPT ![t].pc = "retire"]
         /\ conn' = c /\ calls' = calls
  BY DEF Break
<1>3. QED
  BY <1>1, <1>2, AccountedDead

LEMMA AccountedReadHeader ==
  ASSUME Inv, CallInv, NEW t \in Threads, ReadHeader(t), NEW a \in Addrs,
         Accounted(a)
  PROVE  Accounted(a)'
<1> DEFINE at == thread[t].at
           s == conn[at].stdout
<1>1. /\ thread[t].pc = "header" /\ Len(s) >= HeaderLen
      /\ conn' = Taken(conn, at, HeaderLen)
      /\ thread' = [thread EXCEPT ![t].pc = "body", ![t].reply = s[1].of]
      /\ calls' = calls /\ handles' = handles /\ at \in Addrs
  BY DEF ReadHeader, Keeps, Inv, InsideHasConnection
<1>2. /\ thread'[t].pc = "body" /\ thread'[t].op = thread[t].op
      /\ thread'[t].at = at /\ thread'[t].token = thread[t].token
      /\ thread'[t].arg = thread[t].arg /\ thread'[t].reply = s[1].of
      /\ \A u \in Threads \ {t} : thread'[u] = thread[u]
  BY <1>1 DEF Inv, TypeOK, Thread
<1>3. conn \in [Addrs -> Connection]
  BY DEF Inv, TypeOK
<1>4. CASE a # at
  <2>1. conn'[a] = conn[a]
    BY <1>1, <1>3, <1>4 DEF Taken
  <2>2. handles \subseteq handles' /\ thread'[t].at \in {thread[t].at, None}
    BY <1>1, <1>2
  <2>3. TypeOK
    BY DEF Inv
  <2>4. QED
    BY <1>1, <1>2, <1>4, <2>1, <2>2, <2>3, AccountedOther
<1>5. CASE a = at
  <2> SUFFICES ASSUME conn'[a].running
               PROVE  InStep(a)' /\ Unmade(a)' /\ TokensOf(a)' /\ Owned(a)'
    BY DEF Accounted
  <2>1. /\ conn'[a].lock = conn[a].lock /\ conn'[a].running = conn[a].running
        /\ conn'[a].stdin = conn[a].stdin
        /\ conn'[a].stdout = Rest(conn[a].stdout, HeaderLen)
        /\ conn'[a].stdio = conn[a].stdio /\ conn'[a].objects = conn[a].objects
    BY <1>1, <1>3, <1>5 DEF Taken, Connection
  <2>2. InStep(a) /\ Unmade(a) /\ TokensOf(a) /\ Owned(a)
    BY <2>1 DEF Accounted
  <2>3. conn[a].lock = t
    BY <1>1, <1>5 DEF CallInv, OwnExchange, Exchanging
  <2>4. PICK r \in Response : Coming(conn[a], thread[t], r)
    <3>1. a = thread[t].at /\ conn[a].running /\ Len(conn[a].stdout) >= HeaderLen
      BY <1>1, <1>5, <2>1
    <3> HIDE DEF at
    <3>2. QED
      BY <1>1, <3>1, ReplyNext
  <2>5. thread'[t].reply = r
    BY <1>2, <1>5, <2>4 DEF Coming
  <2>6. Reading(conn'[a], thread'[t])
    <3>1. conn'[a].stdin = <<>>
      BY <2>1, <2>4 DEF Coming
    <3>2. Outcome(conn'[a], thread'[t], r)
      BY <1>2, <2>1, <2>4 DEF Coming, Outcome, Without
    <3>3. Len(conn'[a].stdout) + Len(conn'[a].stdio) = BodyLen(r)
      <4> DEFINE w == conn[a].stdout
                 v == conn[a].stdio
      <4>1. w \in Seq(Cell) /\ v \in Seq(Cell)
        BY <1>3 DEF Connection
      <4>2. Len(w) >= HeaderLen /\ Len(w) + Len(v) = HeaderLen + BodyLen(r)
        BY <1>1, <1>5, <2>4 DEF Coming
      <4>3. HeaderLen \in Nat /\ BodyLen(r) \in Nat
        BY BridgeAssumption DEF BodyLen
      <4>4. Len(w) \in Nat /\ Len(v) \in Nat
        BY <4>1
      <4> HIDE DEF w, v
      <4>5. Len(Rest(w, HeaderLen)) = Len(w) - HeaderLen
        BY <4>1, <4>2, <4>3 DEF Rest
      <4>6. Len(Rest(w, HeaderLen)) + Len(v) = BodyLen(r)
        BY <4>2, <4>3, <4>4, <4>5
      <4>7. QED
        BY <2>1, <4>6 DEF w, v
    <3>4. QED
      BY <2>5, <3>1, <3>2, <3>3 DEF Reading
  <2>7. InStep(a)'
    BY <1>2, <1>5, <2>1, <2>3, <2>6 DEF InStep, Exchange
  <2>8. Unmade(a)'
    <3> SUFFICES ASSUME NEW u \in Threads, thread'[u].at = a,
                        thread'[u].pc \in {"encode", "write"},
                        thread'[u].op = "new"
                 PROVE  Without(conn'[a], thread'[u].token)
      BY DEF Unmade
    <3>1. thread'[u] = thread[u]
      BY <1>2
    <3>2. QED
      BY <2>1, <2>2, <3>1 DEF Unmade, Without
  <2>9. TokensOf(a)'
    BY <1>1, <2>1, <2>2 DEF TokensOf
  <2>10. Owned(a)'
    <3>1. \A u \in Threads :
            /\ thread'[u].at = thread[u].at /\ thread'[u].op = thread[u].op
            /\ thread'[u].token = thread[u].token
            /\ thread'[u].arg = thread[u].arg
      BY <1>2
    <3>2. \A token : HasOwner(a, token) => HasOwner(a, token)'
      BY <1>1, <3>1 DEF HasOwner
    <3>3. QED
      BY <2>1, <2>2, <3>2 DEF Owned
  <2>11. QED
    BY <2>7, <2>8, <2>9, <2>10
<1>6. QED
  BY <1>4, <1>5


(* A call returns: a new object has its handle, a discarded one is gone.   *)
LEMMA AccountedReadBody ==
  ASSUME Inv, CallInv, NEW t \in Threads, ReadBody(t), NEW a \in Addrs,
         Accounted(a)
  PROVE  Accounted(a)'
<1> DEFINE at == thread[t].at
           r == thread[t].reply
           new == [at |-> at, gen |-> thread[t].gen, id |-> r.id,
                   token |-> thread[t].token]
           c == Taken(Unlocked(t), at, BodyLen(r))
<1>1. /\ thread[t].pc = "body" /\ at \in Addrs
      /\ Len(conn[at].stdout) >= BodyLen(r)
      /\ handles' = IF thread[t].op = "new" /\ r.ok THEN handles \cup {new}
                    ELSE handles
      /\ Return(t, c)
  BY DEF ReadBody, Inv, InsideHasConnection
<1>2. BodyLen(r) \in Nat /\ TypeOK
  BY DEF BodyLen, Inv
<1>3. /\ \A b \in Addrs : b # at => c[b] = conn[b]
      /\ c[at].running = conn[at].running /\ c[at].lock = None
      /\ c[at].stdin = conn[at].stdin /\ c[at].stdio = conn[at].stdio
      /\ c[at].stdout = Rest(conn[at].stdout, BodyLen(r))
      /\ c[at].objects = conn[at].objects
  BY <1>1, <1>2, UnlockedTaken
<1>4. /\ thread'[t] = Idle /\ calls' = calls
      /\ \A u \in Threads \ {t} : thread'[u] = thread[u]
      /\ conn'[a] = IF Referenced(a)' THEN c[a] ELSE Free
  <2> HIDE DEF c
  <2> QED BY <1>1 DEF Return, DropUnreferenced, Inv, TypeOK
<1>5. thread'[t].at = None /\ ~Free.running
  BY <1>4 DEF Idle, Free
<1> HIDE DEF c
<1>6. CASE a # at
  <2>1. conn'[a] = conn[a] \/ ~conn'[a].running
    BY <1>3, <1>4, <1>5, <1>6
  <2>2. handles \subseteq handles'
    BY <1>1
  <2>3. thread'[t].at \in {thread[t].at, None}
    BY <1>5
  <2>4. QED
    BY <1>2, <1>4, <1>6, <2>1, <2>2, <2>3, AccountedOther
<1>7. CASE a = at
  <2> SUFFICES ASSUME conn'[a].running
               PROVE  InStep(a)' /\ Unmade(a)' /\ TokensOf(a)' /\ Owned(a)'
    BY DEF Accounted
  <2>1. conn'[a] = c[a] /\ conn[a].running
    BY <1>3, <1>4, <1>5, <1>7
  <2>2. InStep(a) /\ Unmade(a) /\ TokensOf(a) /\ Owned(a)
    BY <2>1 DEF Accounted
  <2>3. Reading(conn[a], thread[t])
    <3>1. Exchange(conn[at], thread[t])
      BY <1>1, <1>7, <2>2, OwnersExchange DEF Exchanging
    <3>2. QED
      BY <1>1, <1>7, <3>1 DEF Exchange
  <2>4. Clear(conn'[a])
    <3> DEFINE w == conn[a].stdout
               v == conn[a].stdio
    <3>1. w \in Seq(Cell) /\ v \in Seq(Cell)
      BY <1>2 DEF TypeOK, Connection
    <3>2. Len(w) >= BodyLen(r) /\ Len(w) + Len(v) = BodyLen(r)
      BY <1>1, <1>7, <2>3 DEF Reading
    <3>3. Len(w) \in Nat /\ Len(v) \in Nat
      BY <3>1
    <3>4. conn'[a].stdout = Rest(w, BodyLen(r)) /\ conn'[a].stdio = v
          /\ conn'[a].stdin = <<>>
      BY <1>3, <1>7, <2>1, <2>3 DEF Reading
    <3> HIDE DEF w, v, r
    <3>5. Len(v) = 0 /\ Len(w) = BodyLen(r)
      BY <1>2, <3>2, <3>3
    <3>6. v = <<>>
      BY <3>1, <3>5, EmptySeq
    <3>7. Rest(w, BodyLen(r)) = <<>>
      BY <1>2, <3>1, <3>5 DEF Rest
    <3>8. QED
      BY <3>4, <3>6, <3>7 DEF Clear
  <2>5. InStep(a)'
    BY <1>3, <1>7, <2>1, <2>4 DEF InStep
  <2>6. conn'[a].objects = conn[a].objects
    BY <1>3, <1>7, <2>1
  <2>7. Unmade(a)'
    <3> SUFFICES ASSUME NEW u \in Threads, thread'[u].at = a,
                        thread'[u].pc \in {"encode", "write"},
                        thread'[u].op = "new"
                 PROVE  Without(conn'[a], thread'[u].token)
      BY DEF Unmade
    <3>1. thread'[u] = thread[u]
      BY <1>4, <1>5, BridgeAssumption
    <3>2. QED
      BY <2>2, <2>6, <3>1 DEF Unmade, Without
  <2>8. TokensOf(a)'
    BY <1>4, <2>2, <2>6 DEF TokensOf
  <2>9. Owned(a)'
    <3> SUFFICES ASSUME NEW o \in conn[a].objects
                 PROVE  HasOwner(a, o.token)'
      BY <2>6 DEF Owned
    <3>1. HasOwner(a, o.token)
      BY <2>2 DEF Owned
    <3>2. Outcome(conn[a], thread[t], r)
      BY <2>3 DEF Reading
    <3>3. CASE \E k \in handles : k.at = a /\ k.token = o.token
      BY <1>1, <3>3 DEF HasOwner
    <3>4. CASE \E u \in Threads \ {t} : thread[u].at = a /\
                 \/ thread[u].op = "new" /\ thread[u].token = o.token
                 \/ thread[u].op = "drop" /\ thread[u].arg.token = o.token
      BY <1>4, <3>4 DEF HasOwner
    <3>5. CASE thread[t].op = "new" /\ thread[t].token = o.token
      <4>1. r.ok
        BY <3>2, <3>5 DEF Outcome, Without
      <4>2. new \in handles'
        BY <1>1, <3>5, <4>1
      <4>3. new.at = a /\ new.token = o.token
        BY <1>7, <3>5
      <4>4. QED
        BY <4>2, <4>3 DEF HasOwner
    <3>6. ~(thread[t].op = "drop" /\ thread[t].arg.token = o.token)
      BY <3>2 DEF Outcome, Without
    <3>7. QED
      BY <3>1, <3>3, <3>4, <3>5, <3>6 DEF HasOwner
  <2>10. QED
    BY <2>5, <2>7, <2>8, <2>9
<1>8. QED
  BY <1>6, <1>7

(* What a call does after it was entered.                                  *)
LEMMA AccountedInCall ==
  ASSUME Inv, CallInv, IdsLeft, MaxCalls < MaxRequestId, NEW t \in Threads,
         Oversize(t) \/ Continues(t), \A b \in Addrs : Accounted(b),
         NEW a \in Addrs
  PROVE  Accounted(a)'
<1> DEFINE at == thread[t].at
<1>0. TypeOK /\ conn \in [Addrs -> Connection] /\ Accounted(a)
  BY DEF Inv, TypeOK
<1>1. CASE Oversize(t) \/ WrongConnection(t)
  <2>1. /\ thread[t].pc = "encode" /\ thread[t].op # "drop"
        /\ Return(t, conn) /\ handles' = handles
    BY <1>1 DEF Oversize, WrongConnection, Keeps
  <2>2. QED
    BY <1>0, <2>1, AccountedLeave
<1>2. CASE Exhausted(t)
  <2>1. thread[t].pc = "encode" /\ conn[at].nextRequestId = MaxRequestId
        /\ at \in Addrs
    BY <1>2 DEF Exhausted, Encoded, Inv, InsideHasConnection
  <2>2. t \in Waiting
    BY <2>1 DEF Waiting
  <2>3. QED
    BY <1>0, <2>1, <2>2, IdLeft
<1>3. CASE Retire(t)
  <2>1. ~conn[at].running /\ Return(t, conn) /\ handles' = handles
    BY <1>3 DEF Retire, Inv, RetiresDead
  <2>2. QED
    BY <1>0, <2>1, AccountedDead
<1>4. CASE WriteFails(t)
  <2>1. ~conn[at].running /\ Break(t, Unlocked(t)) /\ at \in Addrs
    BY <1>4 DEF WriteFails, Inv, InsideHasConnection
  <2>2. /\ Unlocked(t) \in [Addrs -> Connection]
        /\ \A b \in Addrs : b # at => Unlocked(t)[b] = conn[b]
        /\ ~Unlocked(t)[at].running
    BY <1>0, <2>1, UnlockedTaken
  <2>3. QED
    BY <1>0, <2>1, <2>2, AccountedBreak
<1>5. CASE ReadEof(t)
  <2> DEFINE n == Len(conn[at].stdout)
             c == Taken(Unlocked(t), at, n)
  <2>1. ~conn[at].running /\ Break(t, c) /\ at \in Addrs
    BY <1>5 DEF ReadEof, Inv, InsideHasConnection
  <2>2. n \in Nat
    BY <1>0, <2>1 DEF Connection
  <2>3. /\ c \in [Addrs -> Connection]
        /\ \A b \in Addrs : b # at => c[b] = conn[b]
        /\ ~c[at].running
    BY <1>0, <2>1, <2>2, UnlockedTaken
  <2> HIDE DEF c
  <2>4. QED
    BY <1>0, <2>1, <2>3, AccountedBreak
<1>6. CASE BadHeader(t)
  <2> DEFINE c == Taken(Unlocked(t), at, HeaderLen)
  <2>1. ~conn[at].running /\ Return(t, c) /\ at \in Addrs /\ handles' = handles
    BY <1>6, NoBadHeader DEF BadHeader, Inv, InsideHasConnection
  <2>2. HeaderLen \in Nat
    BY BridgeAssumption
  <2>3. /\ c \in [Addrs -> Connection]
        /\ \A b \in Addrs : b # at => c[b] = conn[b]
        /\ ~c[at].running
    BY <1>0, <2>1, <2>2, UnlockedTaken
  <2> HIDE DEF c
  <2>4. QED
    BY <1>0, <2>1, <2>3, AccountedDead
<1>7. QED
  BY <1>0, <1>1, <1>2, <1>3, <1>4, <1>5, <1>6, AccountedLock, AccountedWrite,
     AccountedReadHeader, AccountedReadBody DEF Continues

LEMMA AccountedStarts ==
  ASSUME Inv, Claims, IdleElsewhere, NEW t \in Threads, Starts(t),
         NEW a \in Addrs, Accounted(a)
  PROVE  Accounted(a)'
<1>1. PICK op \in {"new", "use"}, h \in handles \cup {NoHandle} :
        \/ Connect(t, op, h)
        \/ \E b \in Addrs : Spawn(t, op, h, b)
        \/ SpawnFails(t, op, h)
  BY DEF Starts
<1>2. op # "drop" /\ op \in Ops /\ TypeOK
  BY DEF Ops, Inv
<1>3. CASE Connect(t, op, h)
  <2>1. /\ Enter(t, op, h, current, conn[current].gen) /\ ~Busy(t)
        /\ conn' = conn /\ handles' = handles
    BY <1>3 DEF Connect, CallWith, Busy, Keeps
  <2>2. conn'[a] = conn[a] /\ \A k \in handles : k \in handles'
    BY <2>1
  <2>3. QED
    BY <1>2, <2>1, <2>2, AccountedEnter
<1>4. CASE \E b \in Addrs : Spawn(t, op, h, b)
  <2>1. PICK b \in Addrs : Spawn(t, op, h, b)
    BY <1>4
  <2>2. /\ Enter(t, op, h, b, spawned + 1) /\ ~Busy(t) /\ handles' = handles
        /\ conn[b].gen = 0
        /\ conn' = [conn EXCEPT ![b] =
             [Free EXCEPT !.gen = spawned + 1, !.running = TRUE]]
    BY <2>1 DEF Spawn, CallWith, Busy
  <2>3. /\ conn'[b].objects = {} /\ conn'[b].stdin = <<>>
        /\ conn'[b].stdio = <<>> /\ conn'[b].stdout = <<>>
        /\ conn'[b].lock = None
        /\ \A d \in Addrs \ {b} : conn'[d] = conn[d]
    BY <2>2, FreeType DEF Inv, TypeOK, Connection, Free
  <2>4. CASE a = b
    <3>1. InStep(a)'
      BY <2>3, <2>4 DEF InStep, Clear
    <3>2. Unmade(a)' /\ TokensOf(a)' /\ Owned(a)'
      BY <2>3, <2>4 DEF Unmade, TokensOf, Owned, Without
    <3>3. QED
      BY <3>1, <3>2 DEF Accounted
  <2>5. CASE a # b
    <3>1. conn'[a] = conn[a] /\ \A k \in handles : k \in handles'
      BY <2>2, <2>3, <2>5
    <3>2. QED
      BY <1>2, <2>2, <3>1, AccountedEnter
  <2>6. QED
    BY <2>4, <2>5
<1>5. CASE SpawnFails(t, op, h)
  <2>1. /\ thread' = thread /\ conn' = conn /\ handles' = handles
        /\ calls' = calls + 1 /\ calls \in Nat
    BY <1>5, Numbers DEF SpawnFails, Keeps, Inv
  <2>2. calls' \in Nat /\ calls <= calls'
    BY <2>1
  <2>3. QED
    BY <1>2, <2>1, <2>2, Elsewhere
<1>6. QED
  BY <1>1, <1>3, <1>4, <1>5

LEMMA AccountedRelease ==
  ASSUME Inv, Claims, IdleElsewhere, NEW t \in Threads, NEW h \in handles,
         Release(t, h), NEW a \in Addrs, Accounted(a)
  PROVE  Accounted(a)'
<1>1. /\ Enter(t, "drop", h, h.at, h.gen) /\ ~Busy(t)
      /\ conn'[a] = conn[a] /\ handles' = handles \ {h}
  BY DEF Release, Busy
<1>2. "drop" \in Ops /\ TypeOK
  BY DEF Ops, Inv
<1>3. \A k \in handles : k \in handles' \/ k = h
  BY <1>1
<1>4. QED
  BY <1>1, <1>2, <1>3, AccountedEnter

-----------------------------------------------------------------------------
(* The helper.  A request it reads is the one the call that holds the      *)
(* mutex has written and waits for.                                        *)
LEMMA AskedBy ==
  ASSUME NEW a \in Addrs, Accounted(a), conn[a].running,
         conn[a].stdin # <<>>
  PROVE  \E t \in Threads :
           /\ conn[a].lock = t /\ thread[t].at = a
           /\ thread[t].pc = "header" /\ Asked(conn[a], thread[t])
BY DEF Accounted, InStep, Exchange, Clear, Replied, Reading

LEMMA AccountedRespond ==
  ASSUME Inv, Claims, NEW a \in Addrs, Accounted(a), conn[a].running,
         NEW t \in Threads, conn[a].lock = t, thread[t].at = a,
         thread[t].pc = "header", Asked(conn[a], thread[t]),
         NEW ok \in BOOLEAN, NEW id \in Nat, NEW objects, NEW next,
         Respond(a, ok, id, 0, objects, next),
         \A o \in objects :
           \/ o \in conn[a].objects
           \/ thread[t].op = "new" /\ o.token = thread[t].token,
         \A o, p \in objects : o.token = p.token => o = p,
         thread[t].op = "new" /\ ~ok =>
           \A o \in objects : o.token # thread[t].token,
         thread[t].op = "drop" =>
           \A o \in objects : o.token # thread[t].arg.token
  PROVE  Accounted(a)'
<1> DEFINE q == Head(conn[a].stdin)
           r == [rid |-> q.rid, op |-> q.op, ok |-> ok, id |-> id,
                 token |-> q.token]
<1>1. /\ conn[a] \in Connection /\ conn \in [Addrs -> Connection]
      /\ thread[t] \in Thread
  BY DEF Inv, TypeOK
<1>2. /\ conn[a].stdin \in Seq(Request) /\ Len(conn[a].stdin) = 1
      /\ conn[a].stdin # <<>> /\ conn[a].stdout = <<>>
      /\ Asks(conn[a].stdin[1], thread[t])
      /\ thread[t].op = "new" => Without(conn[a], thread[t].token)
  BY <1>1 DEF Asked, Connection
<1>3. q = conn[a].stdin[1] /\ Tail(conn[a].stdin) = <<>>
  <2> DEFINE s == conn[a].stdin
  <2>1. s \in Seq(Request) /\ Len(s) = 1 /\ s # <<>>
    BY <1>2
  <2> HIDE DEF s
  <2>2. Head(s) = s[1]
    BY <2>1
  <2>3. Tail(s) \in Seq(Request) /\ Len(Tail(s)) = 0
    BY <2>1
  <2>4. Tail(s) = <<>>
    BY <2>3, EmptySeq
  <2>5. QED
    BY <2>2, <2>4 DEF s
<1>4. /\ q.rid = thread[t].rid /\ q.op = thread[t].op
      /\ q.token = thread[t].token /\ q.id = thread[t].arg.id
      /\ q.target = thread[t].arg.token
  BY <1>2, <1>3 DEF Asks
<1>5. r \in Response
  BY <1>1, <1>4 DEF Response, Thread
<1>6. Noises(0) \o Frame(r) = Frame(r)
  <2>1. Noises(0) \in Seq(Cell) /\ Len(Noises(0)) = 0
    BY NoisesType DEF Noises
  <2>2. Noises(0) = <<>>
    BY <2>1, EmptySeq
  <2>3. QED
    BY <1>5, <2>2, FrameType, ConcatEmptySeq
<1>7. /\ conn'[a].stdin = Tail(conn[a].stdin)
      /\ conn'[a].stdio = Noises(0) \o Frame(r)
      /\ conn'[a].stdout = conn[a].stdout /\ conn'[a].objects = objects
      /\ conn'[a].lock = conn[a].lock
      /\ thread' = thread /\ handles' = handles /\ calls' = calls
  <2> DEFINE frame == Noises(0) \o Frame(r)
  <2>1. /\ conn' = [conn EXCEPT ![a].stdin = Tail(@), ![a].stdio = frame,
                       ![a].objects = objects, ![a].nextHandleId = next]
        /\ HelperStep
    BY DEF Respond
  <2> HIDE DEF frame
  <2>2. /\ conn'[a].stdin = Tail(conn[a].stdin)
        /\ conn'[a].stdio = frame
        /\ conn'[a].stdout = conn[a].stdout /\ conn'[a].objects = objects
        /\ conn'[a].lock = conn[a].lock
    BY <1>1, <2>1 DEF Connection
  <2>3. QED
    BY <2>1, <2>2 DEF HelperStep, frame
<1> HIDE DEF q
<1>8. Outcome(conn'[a], thread[t], r)
  BY <1>4, <1>7 DEF Outcome, Without
<1>9. Replied(conn'[a], thread[t])
  <2>1. r.rid = thread[t].rid
    BY <1>4
  <2>2. conn'[a].stdout \o conn'[a].stdio = Frame(r)
    <3> HIDE DEF r
    <3>1. conn'[a].stdout = <<>> /\ conn'[a].stdio = Frame(r)
      BY <1>2, <1>6, <1>7
    <3>2. QED
      BY <1>5, <3>1, FrameType, ConcatEmptySeq
  <2> HIDE DEF r
  <2>3. conn'[a].stdin = <<>>
    BY <1>3, <1>7
  <2>4. QED
    BY <1>5, <1>8, <2>1, <2>2, <2>3 DEF Replied
<1>10. Unmade(a) /\ TokensOf(a) /\ Owned(a)
  BY DEF Accounted
<1>11. InStep(a)'
  BY <1>7, <1>9 DEF InStep, Exchange
<1>12. Unmade(a)'
  <2> SUFFICES ASSUME NEW u \in Threads, thread[u].at = a,
                      thread[u].pc \in {"encode", "write"},
                      thread[u].op = "new"
               PROVE  \A o \in objects : o.token # thread[u].token
    BY <1>7 DEF Unmade, Without
  <2>1. u # t /\ Busy(u) /\ Busy(t)
    BY DEF Busy
  <2>2. thread[u].token # thread[t].token
    BY <2>1 DEF Claims, CallTokens
  <2>3. QED
    BY <1>10, <2>2 DEF Unmade, Without
<1>13. TokensOf(a)'
  <2>1. thread[t].token <= calls
    <3>1. Busy(t)
      BY DEF Busy
    <3>2. thread[t].token \in 1 .. calls
      BY <3>1 DEF Claims, CallTokens
    <3>3. calls \in Nat
      BY Numbers DEF Inv
    <3>4. QED
      BY <3>2, <3>3
  <2>2. QED
    BY <1>7, <1>10, <2>1 DEF TokensOf
<1>14. Owned(a)'
  <2>1. \A o \in objects : HasOwner(a, o.token)
    BY <1>10 DEF Owned, HasOwner
  <2>2. \A token : HasOwner(a, token) => HasOwner(a, token)'
    BY <1>7 DEF HasOwner
  <2>3. QED
    BY <1>7, <2>1, <2>2 DEF Owned
<1>15. QED
  BY <1>11, <1>12, <1>13, <1>14 DEF Accounted

LEMMA AccountedAnswers ==
  ASSUME Inv, Claims, Service, LowMemory = FALSE, NEW a \in Addrs,
         Accounted(a), NEW ok \in BOOLEAN, Answers(a, ok, 0)
  PROVE  Accounted(a)'
<1> DEFINE q == Head(conn[a].stdin)
           objs == conn[a].objects
           next == conn[a].nextHandleId
<1>1. conn[a].running /\ conn[a].stdin # <<>>
  <2>1. \E op \in Ops : Ready(a, op)
    BY DEF Answers, ServeNew, ServeNull, ServeUse, ServeDrop, Ops
  <2>2. QED
    BY <2>1 DEF Ready
<1>2. PICK t \in Threads :
        /\ conn[a].lock = t /\ thread[t].at = a
        /\ thread[t].pc = "header" /\ Asked(conn[a], thread[t])
  BY <1>1, AskedBy
<1>3. conn[a] \in Connection /\ conn[a].stdin \in Seq(Request)
  BY DEF Inv, TypeOK, Connection
<1>4. Len(conn[a].stdin) = 1 /\ q = conn[a].stdin[1]
  BY <1>1, <1>2, <1>3, HeadTailProperties DEF Asked
<1>5. /\ q.op = thread[t].op /\ q.token = thread[t].token
      /\ q.id = thread[t].arg.id /\ q.target = thread[t].arg.token
  BY <1>2, <1>4 DEF Asked, Asks
<1>6. /\ next \in Nat /\ 0 \in Nat
      /\ \A o, p \in objs : o.token = p.token => o = p
      /\ q.op = "new" => \A o \in objs : o.token # q.token
  <2>1. TokensOf(a)
    BY <1>1 DEF Accounted
  <2>2. QED
    BY <1>2, <1>3, <1>5, <2>1 DEF TokensOf, Asked, Without, Connection
<1>7. CASE ServeNew(a, ok, 0)
  <2> DEFINE new == [id |-> next, token |-> q.token]
             all == objs \cup {new}
             after == next + 1
  <2>1. ok = TRUE
    BY <1>7 DEF ServeNew
  <2>2. /\ Respond(a, TRUE, next, 0, all, after)
        /\ q.op = "new" /\ new.token = q.token
    BY <1>7, <2>1 DEF ServeNew, Ready
  <2> HIDE DEF new, q, after
  <2>3. \A o, p \in all : o.token = p.token => o = p
    BY <1>6, <2>2
  <2>4. \A o \in all :
          \/ o \in conn[a].objects
          \/ thread[t].op = "new" /\ o.token = thread[t].token
    BY <1>5, <2>2
  <2> HIDE DEF all
  <2>5. thread[t].op # "drop" /\ TRUE \in BOOLEAN
    BY <1>5, <2>2
  <2>6. QED
    BY <1>1, <1>2, <1>6, <2>2, <2>3, <2>4, <2>5, AccountedRespond
<1>8. CASE ServeNull(a, 0)
  <2>1. Respond(a, FALSE, 0, 0, objs, next) /\ q.op = "new"
    BY <1>8 DEF ServeNull, Ready
  <2>2. /\ \A o \in objs : o.token # thread[t].token
        /\ thread[t].op # "drop"
    BY <1>5, <1>6, <2>1
  <2>3. FALSE \in BOOLEAN
    OBVIOUS
  <2>4. QED
    BY <1>1, <1>2, <1>6, <2>1, <2>2, <2>3, AccountedRespond
<1>9. CASE ServeUse(a, ok, 0)
  <2>1. Respond(a, ok, 0, 0, objs, next) /\ q.op = "use"
    BY <1>9 DEF ServeUse, Ready
  <2>2. thread[t].op # "new" /\ thread[t].op # "drop"
    BY <1>5, <2>1
  <2>3. QED
    BY <1>1, <1>2, <1>6, <2>1, <2>2, AccountedRespond
<1>10. CASE ServeDrop(a, 0)
  <2> DEFINE found == Known(a) # {}
             left == objs \ Known(a)
  <2>1. /\ Respond(a, found, 0, 0, left, next) /\ q.op = "drop"
        /\ found \in BOOLEAN
    BY <1>10 DEF ServeDrop, Ready
  <2>2. Object(q.id, q.target) \in objs
    <3>1. GoodRequest(conn[a].stdin[1], conn[a].objects)
      BY <1>4 DEF Service, Requests
    <3>2. QED
      BY <1>4, <2>1, <3>1 DEF GoodRequest
  <2>3. \A o \in left : o.token # thread[t].arg.token
    <3>1. Object(q.id, q.target).token = q.target
          /\ Object(q.id, q.target).id = q.id
      BY DEF Object
    <3>2. Object(q.id, q.target) \in Known(a)
      BY <2>2, <3>1 DEF Known
    <3> HIDE DEF q
    <3>3. QED
      BY <1>5, <1>6, <2>2, <3>1, <3>2
  <2>4. \A o, p \in left : o.token = p.token => o = p
    BY <1>6
  <2>5. \A o \in left : o \in conn[a].objects
    OBVIOUS
  <2> HIDE DEF found, left
  <2>6. thread[t].op # "new"
    BY <1>5, <2>1
  <2>7. QED
    BY <1>1, <1>2, <1>6, <2>1, <2>3, <2>4, <2>5, <2>6, AccountedRespond
<1>11. QED
  BY <1>7, <1>8, <1>9, <1>10 DEF Answers

(* What is flushed moves from the buffer to the pipe, in its order.        *)
LEMMA FlushJoins ==
  ASSUME NEW s \in Seq(Cell), NEW u \in Seq(Cell), NEW k \in 1 .. Len(u)
  PROVE  /\ (s \o SubSeq(u, 1, k)) \o Rest(u, k) = s \o u
         /\ Len(s \o SubSeq(u, 1, k)) + Len(Rest(u, k)) = Len(s) + Len(u)
<1> DEFINE head == SubSeq(u, 1, k)
           rest == SubSeq(u, k + 1, Len(u))
<1>1. Len(u) \in Nat /\ k \in Nat /\ 1 <= k /\ k <= Len(u) /\ Len(s) \in Nat
  OBVIOUS
<1>2. /\ head \in Seq(Cell) /\ Len(head) = k
      /\ rest \in Seq(Cell) /\ Len(rest) = Len(u) - k
  BY <1>1
<1>3. head \o rest = u
  <2>1. head \o rest = SubSeq(u, 1, Len(u))
    <3>1. 1 \in 1 .. Len(u) + 1 /\ Len(u) \in 1 - 1 .. Len(u)
          /\ k \in 1 - 1 .. Len(u) /\ Len(u) \in k .. Len(u)
      BY <1>1
    <3>2. QED
      BY <3>1, ConcatAdjacentSubSeq
  <2>2. QED
    BY <2>1, SubSeqFull
<1> HIDE DEF head, rest
<1>4. (s \o head) \o rest = s \o (head \o rest)
  <2>1. s \in Seq(Cell) /\ head \in Seq(Cell) /\ rest \in Seq(Cell)
    BY <1>2
  <2>2. QED
    BY <2>1, ConcatAssociative
<1>5. Len(s \o head) = Len(s) + Len(head)
  BY <1>2, ConcatProperties
<1>6. /\ (s \o head) \o rest = s \o u
      /\ Len(s \o head) + Len(rest) = Len(s) + Len(u)
  BY <1>1, <1>2, <1>3, <1>4, <1>5
<1>7. QED
  BY <1>6 DEF head, rest, Rest

LEMMA AccountedFlush ==
  ASSUME Inv, NEW a \in Addrs, Accounted(a),
         NEW k \in 1 .. Len(conn[a].stdio), Flush(a, k)
  PROVE  Accounted(a)'
<1> DEFINE s == conn[a].stdout
           u == conn[a].stdio
<1>1. conn[a] \in Connection /\ conn \in [Addrs -> Connection]
  BY DEF Inv, TypeOK
<1>2. s \in Seq(Cell) /\ u \in Seq(Cell) /\ k \in 1 .. Len(u)
  BY <1>1 DEF Connection
<1>3. /\ conn[a].running /\ conn'[a].stdin = conn[a].stdin
      /\ conn'[a].stdout = s \o SubSeq(u, 1, k) /\ conn'[a].stdio = Rest(u, k)
      /\ conn'[a].objects = conn[a].objects /\ conn'[a].lock = conn[a].lock
  BY <1>1 DEF Flush, Connection
<1>4. thread' = thread /\ handles' = handles /\ calls' = calls
  BY DEF Flush, HelperStep
<1> HIDE DEF s, u
<1>5. /\ conn'[a].stdout \o conn'[a].stdio = s \o u
      /\ Len(conn'[a].stdout) + Len(conn'[a].stdio) = Len(s) + Len(u)
  <2>1. /\ (s \o SubSeq(u, 1, k)) \o Rest(u, k) = s \o u
        /\ Len(s \o SubSeq(u, 1, k)) + Len(Rest(u, k)) = Len(s) + Len(u)
    BY <1>2, FlushJoins, Zenon
  <2>2. conn'[a].stdout = s \o SubSeq(u, 1, k) /\ conn'[a].stdio = Rest(u, k)
    BY <1>3
  <2>3. QED
    BY <2>1, <2>2, Zenon
<1>6. u # <<>>
  <2>1. Len(u) # 0
    BY <1>2
  <2>2. QED
    BY <1>2, <2>1, EmptySeq
<1>7. InStep(a) /\ Unmade(a) /\ TokensOf(a) /\ Owned(a)
  BY <1>3 DEF Accounted
<1>8. PICK t \in Threads :
        conn[a].lock = t /\ thread[t].at = a /\ Exchange(conn[a], thread[t])
  BY <1>6, <1>7 DEF InStep, Clear, u
<1>9. Exchange(conn'[a], thread[t])
  <2>1. CASE thread[t].pc = "header" /\ Replied(conn[a], thread[t])
    <3>1. PICK r \in Response :
            /\ r.rid = thread[t].rid /\ Outcome(conn[a], thread[t], r)
            /\ s \o u = Frame(r)
      BY <2>1 DEF Replied, s, u
    <3>2. Outcome(conn'[a], thread[t], r)
      BY <1>3, <3>1 DEF Outcome, Without
    <3>3. conn'[a].stdin = <<>>
      BY <1>3, <2>1 DEF Replied
    <3>4. Replied(conn'[a], thread[t])
      BY <1>5, <3>1, <3>2, <3>3 DEF Replied
    <3>5. QED
      BY <2>1, <3>4 DEF Exchange
  <2>2. CASE thread[t].pc = "body" /\ Reading(conn[a], thread[t])
    <3>1. Outcome(conn'[a], thread[t], thread[t].reply)
      BY <1>3, <2>2 DEF Reading, Outcome, Without
    <3>2. /\ conn'[a].stdin = <<>>
          /\ Len(conn'[a].stdout) + Len(conn'[a].stdio)
               = BodyLen(thread[t].reply)
      BY <1>3, <1>5, <2>2 DEF Reading, s, u
    <3>3. QED
      BY <2>2, <3>1, <3>2 DEF Exchange, Reading
  <2>3. QED
    BY <1>6, <1>8, <2>1, <2>2 DEF Exchange, Clear, Asked, u
<1>10. InStep(a)'
  BY <1>3, <1>4, <1>8, <1>9 DEF InStep
<1>11. Unmade(a)'
  BY <1>3, <1>4, <1>7 DEF Unmade, Without
<1>12. TokensOf(a)'
  BY <1>3, <1>4, <1>7 DEF TokensOf
<1>13. Owned(a)'
  <2>1. \A token : HasOwner(a, token) => HasOwner(a, token)'
    BY <1>4 DEF HasOwner
  <2>2. QED
    BY <1>3, <1>7, <2>1 DEF Owned
<1>14. QED
  BY <1>10, <1>11, <1>12, <1>13 DEF Accounted

LEMMA AccountedHelper ==
  ASSUME Inv, Claims, Service, LowMemory = FALSE, MaxNoise = 0,
         NEW a \in Addrs, Serves(a) \/ Crash(a),
         NEW b \in Addrs, Accounted(b)
  PROVE  Accounted(b)'
<1>1. HelperStep
  BY DEF Serves, Answers, Crash, ServeNew, ServeNull, ServeUse, ServeDrop,
         Respond, Flush
<1>2. /\ thread' = thread /\ handles' = handles /\ calls' = calls
      /\ TypeOK /\ conn \in [Addrs -> Connection]
  BY <1>1 DEF HelperStep, Inv, TypeOK
<1>3. CASE b # a
  <2>1. conn'[b] = conn[b]
    BY <1>2, <1>3 DEF Serves, Answers, Crash, ServeNew, ServeNull, ServeUse,
                      ServeDrop, Respond, Flush
  <2>2. calls' \in Nat /\ calls <= calls'
    BY <1>2, Numbers
  <2>3. QED
    BY <1>2, <2>1, <2>2, Elsewhere
<1>4. CASE b = a
  <2>1. CASE \E ok \in BOOLEAN, n \in 0 .. MaxNoise : Answers(a, ok, n)
    <3>1. PICK ok \in BOOLEAN, n \in 0 .. MaxNoise : Answers(a, ok, n)
      BY <2>1
    <3>2. n = 0
      OBVIOUS
    <3>3. Answers(a, ok, 0)
      BY <3>1, <3>2
    <3>4. QED
      BY <1>4, <3>3, AccountedAnswers
  <2>2. CASE \E k \in 1 .. Len(conn[a].stdio) : Flush(a, k)
    BY <1>4, <2>2, AccountedFlush
  <2>3. CASE Crash(a)
    <3>1. ~conn'[a].running
      BY <1>2, <2>3 DEF Crash, Connection
    <3>2. QED
      BY <1>4, <3>1 DEF Accounted
  <2>4. QED
    BY <2>1, <2>2, <2>3 DEF Serves
<1>5. QED
  BY <1>3, <1>4

-----------------------------------------------------------------------------
(* Request ids and idle threads, by the kind of step.                      *)
LEMMA NextIdTypes ==
  ASSUME Inv, Inv'
  PROVE  /\ calls \in Nat /\ calls' \in Nat
         /\ \A a \in Addrs : /\ conn[a].nextRequestId \in Nat
                             /\ conn[a].nextRequestId >= 1
                             /\ conn'[a].nextRequestId \in Nat
<1>1. /\ \A a \in Addrs : conn[a] \in Connection /\ conn'[a] \in Connection
      /\ calls \in 0 .. MaxCalls /\ calls' \in 0 .. MaxCalls
  BY DEF Inv, TypeOK
<1>2. \A c \in Connection : c.nextRequestId \in 1 .. MaxRequestId
  BY DEF Connection
<1>3. QED
  BY <1>1, <1>2, BridgeAssumption

LEMMA IdsGoOn ==
  ASSUME Inv, Inv', IdsLeft, NEW t \in Threads,
         \A u \in Threads \ {t} : thread'[u] = thread[u],
         thread'[t].pc # "encode", calls' = calls, NEW c,
         \A a \in Addrs : c[a].nextRequestId = conn[a].nextRequestId,
         \A a \in Addrs : conn'[a] = c[a] \/ conn'[a] = Free
  PROVE  IdsLeft'
<1>1. TypeOK /\ calls \in Nat /\ calls' \in Nat /\ calls <= calls'
  BY NextIdTypes DEF Inv
<1>2. Waiting' \subseteq Waiting
  BY DEF Waiting
<1>3. ASSUME NEW a \in Addrs
      PROVE  /\ conn'[a].nextRequestId \in Nat
             /\ conn'[a].nextRequestId <= conn[a].nextRequestId
  <2>1. /\ conn[a].nextRequestId \in Nat /\ conn[a].nextRequestId >= 1
        /\ conn'[a].nextRequestId \in Nat
    BY NextIdTypes
  <2>2. conn'[a].nextRequestId \in {conn[a].nextRequestId, 1}
    BY DEF Free
  <2>3. QED
    BY <2>1, <2>2
<1>4. QED
  BY <1>1, <1>2, <1>3, IdsKept

LEMMA IdsReturn ==
  ASSUME Inv, Inv', IdsLeft, IdleElsewhere, NEW t \in Threads, NEW c,
         Return(t, c),
         \A a \in Addrs : c[a].nextRequestId = conn[a].nextRequestId
  PROVE  IdsLeft' /\ IdleElsewhere'
<1>1. /\ thread'[t] = Idle /\ calls' = calls
      /\ \A u \in Threads \ {t} : thread'[u] = thread[u]
      /\ \A a \in Addrs : conn'[a] = c[a] \/ conn'[a] = Free
  BY DEF Return, DropUnreferenced, Inv, TypeOK
<1>2. thread'[t].pc # "encode" /\ thread'[t].at = None
  BY <1>1 DEF Idle
<1>3. IdleElsewhere'
  BY <1>1, <1>2 DEF IdleElsewhere, Busy
<1>4. QED
  BY <1>1, <1>2, <1>3, IdsGoOn

LEMMA IdsBreak ==
  ASSUME Inv, Inv', IdsLeft, IdleElsewhere, NEW t \in Threads, NEW c,
         Break(t, c),
         \A a \in Addrs : c[a].nextRequestId = conn[a].nextRequestId
  PROVE  IdsLeft' /\ IdleElsewhere'
<1>1. CASE thread[t].op = "drop"
  BY <1>1, IdsReturn DEF Break
<1>2. CASE thread[t].op # "drop"
  <2>1. /\ thread' = [thread EXCEPT ![t].pc = "retire"]
        /\ conn' = c /\ calls' = calls
    BY <1>2 DEF Break
  <2>2. /\ thread'[t].pc = "retire"
        /\ \A u \in Threads \ {t} : thread'[u] = thread[u]
    BY <2>1 DEF Inv, TypeOK, Thread
  <2>3. IdleElsewhere'
    BY <2>2 DEF IdleElsewhere, Busy
  <2>4. QED
    BY <2>1, <2>2, <2>3, IdsGoOn
<1>3. QED
  BY <1>1, <1>2

LEMMA IdsTaken ==
  ASSUME TypeOK, NEW t \in Threads, NEW at, at = thread[t].at, at \in Addrs,
         NEW n \in Nat, NEW a \in Addrs
  PROVE  /\ Unlocked(t)[a].nextRequestId = conn[a].nextRequestId
         /\ Taken(conn, at, n)[a].nextRequestId = conn[a].nextRequestId
         /\ Taken(Unlocked(t), at, n)[a].nextRequestId = conn[a].nextRequestId
<1>1. conn \in [Addrs -> Connection]
  BY DEF TypeOK
<1>2. Unlocked(t)[a].nextRequestId = conn[a].nextRequestId
  BY <1>1 DEF Unlocked, Connection
<1>3. Taken(conn, at, n)[a].nextRequestId = conn[a].nextRequestId
  BY <1>1 DEF Taken, Connection
<1>4. Taken(Unlocked(t), at, n)[a].nextRequestId = Unlocked(t)[a].nextRequestId
  <2> DEFINE c == Unlocked(t)
  <2>1. c \in [Addrs -> Connection]
    BY UnlockedType
  <2> HIDE DEF c
  <2>2. Taken(c, at, n)[a].nextRequestId = c[a].nextRequestId
    BY <2>1 DEF Taken, Connection
  <2>3. QED
    BY <2>2 DEF c
<1>5. QED
  BY <1>2, <1>3, <1>4

LEMMA IdsInCall ==
  ASSUME Inv, Inv', IdsLeft, IdleElsewhere, NEW t \in Threads,
         Oversize(t) \/ Continues(t)
  PROVE  IdsLeft' /\ IdleElsewhere'
<1> DEFINE at == thread[t].at
<1>0. /\ TypeOK /\ conn \in [Addrs -> Connection] /\ thread[t] \in Thread
      /\ thread \in [Threads -> Thread]
  BY DEF Inv, TypeOK
<1>1. CASE Oversize(t) \/ WrongConnection(t) \/ Exhausted(t) \/ Retire(t)
  BY <1>1, IdsReturn DEF Oversize, WrongConnection, Exhausted, Retire
<1>2. CASE Lock(t)
  <2>1. /\ thread[t].pc = "encode" /\ at \in Addrs /\ calls' = calls
        /\ conn' = [conn EXCEPT ![at].lock = t, ![at].nextRequestId = @ + 1]
        /\ thread' = [thread EXCEPT ![t].pc = "write",
                                    ![t].rid = conn[at].nextRequestId]
    BY <1>2 DEF Lock, Encoded, Inv, InsideHasConnection
  <2>2. /\ thread'[t].pc = "write" /\ thread'[t].at = at
        /\ \A u \in Threads \ {t} : thread'[u] = thread[u]
    BY <1>0, <2>1 DEF Thread
  <2>3. t \in Waiting /\ Waiting' = Waiting \ {t}
    BY <2>1, <2>2 DEF Waiting
  <2>4. ASSUME NEW a \in Addrs
        PROVE  /\ conn'[a].nextRequestId \in Nat
               /\ conn'[a].nextRequestId <= conn[a].nextRequestId + 1
    <3>1. /\ conn[a].nextRequestId \in Nat /\ conn'[a].nextRequestId \in Nat
      BY NextIdTypes
    <3>2. \/ conn'[a].nextRequestId = conn[a].nextRequestId
          \/ conn'[a].nextRequestId = conn[a].nextRequestId + 1
      BY <1>0, <2>1 DEF Connection
    <3>3. QED
      BY <3>1, <3>2
  <2>5. calls \in Nat
    BY NextIdTypes
  <2>6. IdsLeft'
    BY <1>0, <2>1, <2>3, <2>4, <2>5, IdsAsked
  <2>7. IdleElsewhere'
    BY <2>2 DEF IdleElsewhere, Busy
  <2>8. QED
    BY <2>6, <2>7
<1>3. CASE WriteFails(t)
  <2>1. Break(t, Unlocked(t)) /\ at \in Addrs /\ 0 \in Nat
    BY <1>3 DEF WriteFails, Inv, InsideHasConnection
  <2>2. \A a \in Addrs : Unlocked(t)[a].nextRequestId = conn[a].nextRequestId
    BY <1>0, <2>1, IdsTaken
  <2>3. QED
    BY <2>1, <2>2, IdsBreak
<1>4. CASE ReadEof(t)
  <2> DEFINE n == Len(conn[at].stdout)
             c == Taken(Unlocked(t), at, n)
  <2>1. Break(t, c) /\ at \in Addrs
    BY <1>4 DEF ReadEof, Inv, InsideHasConnection
  <2>2. n \in Nat
    BY <1>0, <2>1 DEF Connection
  <2>3. \A a \in Addrs : c[a].nextRequestId = conn[a].nextRequestId
    BY <1>0, <2>1, <2>2, IdsTaken
  <2> HIDE DEF c
  <2>4. QED
    BY <2>1, <2>3, IdsBreak
<1>5. CASE BadHeader(t)
  <2> DEFINE c == Taken(Unlocked(t), at, HeaderLen)
  <2>1. Return(t, c) /\ at \in Addrs
    BY <1>5 DEF BadHeader, Inv, InsideHasConnection
  <2>2. HeaderLen \in Nat
    BY BridgeAssumption
  <2>3. \A a \in Addrs : c[a].nextRequestId = conn[a].nextRequestId
    BY <1>0, <2>1, <2>2, IdsTaken
  <2> HIDE DEF c
  <2>4. QED
    BY <2>1, <2>3, IdsReturn
<1>6. CASE ReadBody(t)
  <2> DEFINE n == BodyLen(thread[t].reply)
             c == Taken(Unlocked(t), at, n)
  <2>1. Return(t, c) /\ at \in Addrs
    BY <1>6 DEF ReadBody, Inv, InsideHasConnection
  <2>2. n \in Nat
    BY DEF BodyLen
  <2>3. \A a \in Addrs : c[a].nextRequestId = conn[a].nextRequestId
    BY <1>0, <2>1, <2>2, IdsTaken
  <2> HIDE DEF c
  <2>4. QED
    BY <2>1, <2>3, IdsReturn
<1>7. CASE Write(t) \/ ReadHeader(t)
  <2>1. /\ at \in Addrs /\ calls' = calls /\ HeaderLen \in Nat
        /\ thread'[t].pc \notin {"encode", "idle"}
        /\ \A u \in Threads \ {t} : thread'[u] = thread[u]
    BY <1>0, <1>7, BridgeAssumption
    DEF Write, ReadHeader, Inv, InsideHasConnection, Thread
  <2>2. \A a \in Addrs : conn'[a].nextRequestId = conn[a].nextRequestId
    <3>1. CASE Write(t)
      BY <1>0, <3>1 DEF Write, Connection
    <3>2. CASE ReadHeader(t)
      BY <1>0, <2>1, <3>2, IdsTaken DEF ReadHeader
    <3>3. QED
      BY <1>7, <3>1, <3>2
  <2>3. IdleElsewhere'
    BY <2>1 DEF IdleElsewhere, Busy
  <2>4. QED
    BY <2>1, <2>2, <2>3, IdsGoOn
<1>8. QED
  BY <1>1, <1>2, <1>3, <1>4, <1>5, <1>6, <1>7 DEF Continues

LEMMA IdsNext ==
  ASSUME Inv, Inv', IdsLeft, IdleElsewhere, [Next]_vars
  PROVE  IdsLeft' /\ IdleElsewhere'
<1>0. TypeOK /\ calls \in Nat /\ calls' \in Nat
  BY NextIdTypes DEF Inv
<1>1. ASSUME NEW t \in Threads, NEW op, NEW h, NEW b, NEW g, ~Busy(t),
             Enter(t, op, h, b, g),
             \A a \in Addrs :
               conn'[a].nextRequestId \in {conn[a].nextRequestId, 1}
      PROVE  IdsLeft' /\ IdleElsewhere'
  <2>1. /\ thread'[t].pc = "encode" /\ calls' = calls + 1
        /\ \A u \in Threads \ {t} : thread'[u] = thread[u]
    BY <1>1 DEF Enter, Inv, TypeOK
  <2>2. t \notin Waiting /\ Waiting' = Waiting \cup {t}
    BY <1>1, <2>1 DEF Waiting, Busy
  <2>3. ASSUME NEW a \in Addrs
        PROVE  /\ conn'[a].nextRequestId \in Nat
               /\ conn'[a].nextRequestId <= conn[a].nextRequestId
    <3>1. /\ conn[a].nextRequestId \in Nat /\ conn[a].nextRequestId >= 1
          /\ conn'[a].nextRequestId \in Nat
      BY NextIdTypes
    <3>2. QED
      BY <1>1, <3>1
  <2>4. IdsLeft'
    BY <1>0, <2>1, <2>2, <2>3, IdsEnter
  <2>5. IdleElsewhere'
    BY <2>1 DEF IdleElsewhere, Busy
  <2>6. QED
    BY <2>4, <2>5
<1>2. ASSUME thread' = thread, calls <= calls',
             \A a \in Addrs : conn'[a].nextRequestId = conn[a].nextRequestId
      PROVE  IdsLeft' /\ IdleElsewhere'
  <2>1. Waiting' \subseteq Waiting /\ IdleElsewhere'
    BY <1>2 DEF Waiting, IdleElsewhere, Busy
  <2>2. \A a \in Addrs : /\ conn'[a].nextRequestId \in Nat
                         /\ conn'[a].nextRequestId <= conn[a].nextRequestId
    BY <1>2, NextIdTypes
  <2>3. QED
    BY <1>0, <1>2, <2>1, <2>2, IdsKept
<1>3. ASSUME NEW t \in Threads, Starts(t)
      PROVE  IdsLeft' /\ IdleElsewhere'
  <2>1. PICK op \in {"new", "use"}, h \in handles \cup {NoHandle} :
          \/ Connect(t, op, h)
          \/ \E b \in Addrs : Spawn(t, op, h, b)
          \/ SpawnFails(t, op, h)
    BY <1>3 DEF Starts
  <2>2. CASE Connect(t, op, h)
    <3>1. /\ Enter(t, op, h, current, conn[current].gen) /\ ~Busy(t)
          /\ conn' = conn
      BY <2>2 DEF Connect, CallWith, Busy
    <3>2. QED
      BY <1>1, <3>1
  <2>3. CASE \E b \in Addrs : Spawn(t, op, h, b)
    <3>1. PICK b \in Addrs : Spawn(t, op, h, b)
      BY <2>3
    <3>2. /\ Enter(t, op, h, b, spawned + 1) /\ ~Busy(t)
          /\ conn' = [conn EXCEPT ![b] =
               [Free EXCEPT !.gen = spawned + 1, !.running = TRUE]]
      BY <3>1 DEF Spawn, CallWith, Busy
    <3>3. \A a \in Addrs :
            conn'[a].nextRequestId \in {conn[a].nextRequestId, 1}
      BY <3>2 DEF Inv, TypeOK, Free
    <3>4. QED
      BY <1>1, <3>2, <3>3
  <2>4. CASE SpawnFails(t, op, h)
    <3>1. thread' = thread /\ conn' = conn /\ calls' = calls + 1
      BY <2>4 DEF SpawnFails
    <3>2. calls <= calls'
      BY <1>0, <3>1
    <3>3. QED
      BY <1>2, <3>1, <3>2
  <2>5. QED
    BY <2>1, <2>2, <2>3, <2>4
<1>4. ASSUME NEW t \in Threads, NEW h \in handles, Release(t, h)
      PROVE  IdsLeft' /\ IdleElsewhere'
  <2>1. Enter(t, "drop", h, h.at, h.gen) /\ ~Busy(t) /\ conn' = conn
    BY <1>4 DEF Release, Busy
  <2>2. QED
    BY <1>1, <2>1
<1>5. ASSUME NEW a \in Addrs, Serves(a) \/ Crash(a)
      PROVE  IdsLeft' /\ IdleElsewhere'
  <2>1. HelperStep
    BY <1>5 DEF Serves, Answers, Crash, ServeNew, ServeNull, ServeUse,
                ServeDrop, Respond, Flush
  <2>2. thread' = thread /\ calls <= calls'
    BY <1>0, <2>1 DEF HelperStep
  <2>3. conn \in [Addrs -> Connection]
    BY DEF Inv, TypeOK
  <2>4. \A b \in Addrs : conn'[b].nextRequestId = conn[b].nextRequestId
    <3>1. ASSUME NEW ok, NEW id, NEW n, NEW objects, NEW next,
                 Respond(a, ok, id, n, objects, next)
          PROVE  \A b \in Addrs :
                   conn'[b].nextRequestId = conn[b].nextRequestId
      <4> DEFINE frame == Noises(n) \o Frame(
             [rid |-> Head(conn[a].stdin).rid, op |-> Head(conn[a].stdin).op,
              ok |-> ok, id |-> id, token |-> Head(conn[a].stdin).token])
      <4>1. conn' = [conn EXCEPT ![a].stdin = Tail(@), ![a].stdio = frame,
                       ![a].objects = objects, ![a].nextHandleId = next]
        BY <3>1 DEF Respond
      <4> HIDE DEF frame
      <4>2. QED
        BY <2>3, <4>1 DEF Connection
    <3>2. CASE \E ok \in BOOLEAN, n \in 0 .. MaxNoise : Answers(a, ok, n)
      <4>1. PICK ok \in BOOLEAN, n \in 0 .. MaxNoise : Answers(a, ok, n)
        BY <3>2
      <4>2. \E ok2, id, objects, next : Respond(a, ok2, id, n, objects, next)
        BY <4>1 DEF Answers, ServeNew, ServeNull, ServeUse, ServeDrop
      <4>3. QED
        BY <3>1, <4>2
    <3>3. CASE \E k \in 1 .. Len(conn[a].stdio) : Flush(a, k)
      BY <2>3, <3>3 DEF Flush, Connection
    <3>4. CASE Crash(a)
      BY <2>3, <3>4 DEF Crash, Connection
    <3>5. QED
      BY <1>5, <3>2, <3>3, <3>4 DEF Serves
  <2>5. QED
    BY <1>2, <2>2, <2>4
<1>6. CASE Finished \/ UNCHANGED vars
  <2>1. thread' = thread /\ calls' = calls /\ conn' = conn
    BY <1>6 DEF Finished, vars
  <2>2. QED
    BY <1>0, <1>2, <2>1
<1>7. QED
  BY <1>3, <1>4, <1>5, <1>6, IdsInCall DEF Next

-----------------------------------------------------------------------------
LEMMA OwnInit == Init => OwnInv
<1> SUFFICES ASSUME Init PROVE OwnInv
  OBVIOUS
<1>1. /\ \A t \in Threads : thread[t].pc = "idle" /\ thread[t].at = None
      /\ \A a \in Addrs : ~conn[a].running /\ conn[a].nextRequestId = 1
      /\ calls = 0
  BY DEF Init, Idle, Free
<1>2. Waiting = {}
  BY <1>1 DEF Waiting
<1>3. IdsLeft
  BY <1>1, <1>2, FS_EmptySet DEF IdsLeft
<1>4. QED
  BY <1>1, <1>3 DEF OwnInv, IdleElsewhere, Accounted

LEMMA OwnNext ==
  ASSUME MaxNoise = 0, LowMemory = FALSE, MaxCalls < MaxRequestId,
         Inv, Inv', CallInv, HandleInv, OwnInv, [Next]_vars
  PROVE  OwnInv'
<1>1. /\ IdleElsewhere /\ IdsLeft /\ \A a \in Addrs : Accounted(a)
      /\ Claims /\ Service /\ TypeOK
  BY DEF OwnInv, HandleInv, Inv
<1>2. IdsLeft' /\ IdleElsewhere'
  BY <1>1, IdsNext
<1>3. ASSUME NEW a \in Addrs PROVE Accounted(a)'
  <2>1. ASSUME NEW t \in Threads, Starts(t) PROVE Accounted(a)'
    BY <1>1, <2>1, AccountedStarts
  <2>2. ASSUME NEW t \in Threads, Oversize(t) \/ Continues(t)
        PROVE  Accounted(a)'
    BY <1>1, <2>2, AccountedInCall
  <2>3. ASSUME NEW t \in Threads, NEW h \in handles, Release(t, h)
        PROVE  Accounted(a)'
    BY <1>1, <2>3, AccountedRelease
  <2>4. ASSUME NEW b \in Addrs, Serves(b) \/ Crash(b) PROVE Accounted(a)'
    BY <1>1, <2>4, AccountedHelper
  <2>5. CASE Finished \/ UNCHANGED vars
    <3>1. thread' = thread /\ conn' = conn /\ handles' = handles
          /\ calls' = calls
      BY <2>5 DEF Finished, vars
    <3>2. calls' \in Nat /\ calls <= calls'
      BY <1>1, <3>1, Numbers
    <3>3. QED
      BY <1>1, <3>1, <3>2, Elsewhere
  <2>6. QED
    BY <2>1, <2>2, <2>3, <2>4, <2>5 DEF Next
<1>4. QED
  BY <1>2, <1>3 DEF OwnInv

(* A release that still owns an object of a live helper has not sent its   *)
(* request, or holds the mutex and the request is all there is in the pipe.*)
LEMMA ReleaseOwns ==
  ASSUME Inv, CallInv, Claims, Service, NEW a \in Addrs, conn[a].running,
         Accounted(a), IdleElsewhere, NEW o \in conn[a].objects,
         NEW t \in Threads, thread[t].at = a, thread[t].op = "drop",
         thread[t].arg.token = o.token
  PROVE  \/ Dropping(t)
         \/ /\ conn[a].lock = t
            /\ \A h \in handles : h.token # o.token
            /\ \A u \in Threads : Dropping(u) => thread[u].arg.token # o.token
<1>1. thread[t].pc # "idle" /\ thread[t].pc # "retire"
  BY BridgeAssumption DEF IdleElsewhere, Busy, Inv, RetiresDead
<1>2. thread[t].pc \in PCs
  BY DEF Inv, TypeOK, Thread
<1>3. CASE thread[t].pc \in {"encode", "write"}
  BY <1>3 DEF Dropping
<1>4. CASE thread[t].pc \in {"header", "body"}
  <2>1. Exchange(conn[a], thread[t])
    BY <1>4, OwnersExchange DEF Accounted, Exchanging
  <2>2. ~Without(conn[a], thread[t].arg.token)
    BY DEF Without
  <2>3. Asked(conn[a], thread[t])
    BY <1>4, <2>1, <2>2 DEF Exchange, Replied, Reading, Outcome
  <2> DEFINE q == conn[a].stdin[1]
  <2>4. Len(conn[a].stdin) = 1 /\ q.op = "drop" /\ q.target = o.token
    BY <2>3 DEF Asked, Asks
  <2>5. GoodRequest(q, conn[a].objects)
    BY <2>4 DEF Service, Requests
  <2>6. conn[a].lock = t
    BY <1>4 DEF CallInv, OwnExchange, Exchanging
  <2>7. QED
    BY <2>4, <2>5, <2>6 DEF GoodRequest
<1>5. QED
  BY <1>1, <1>2, <1>3, <1>4 DEF PCs

LEMMA OneOwner ==
  ASSUME Inv, CallInv, Claims, Service, IdleElsewhere, NEW a \in Addrs,
         conn[a].running, Accounted(a), NEW o \in conn[a].objects
  PROVE  Cardinality(Owners(a, o)) = 1
<1> DEFINE Keeper(x) == x \in handles /\ x.at = a /\ x.token = o.token
           Maker(x) == /\ x \in Threads /\ thread[x].at = a
                       /\ thread[x].op = "new" /\ thread[x].token = o.token
           Ender(x) == /\ x \in Threads /\ thread[x].at = a
                       /\ thread[x].op = "drop"
                       /\ thread[x].arg.token = o.token
<1>1. \A x : x \in Owners(a, o) <=> Keeper(x) \/ Maker(x) \/ Ender(x)
  BY DEF Owners
<1>2. \A x \in Threads : thread[x].at = a => Busy(x)
  BY BridgeAssumption DEF IdleElsewhere
<1>3. ASSUME NEW x, Ender(x)
      PROVE  \/ Dropping(x)
             \/ /\ conn[a].lock = x
                /\ \A h \in handles : h.token # o.token
                /\ \A u \in Threads : Dropping(u) =>
                     thread[u].arg.token # o.token
  BY <1>3, ReleaseOwns
<1>4. ASSUME NEW x, NEW y, Keeper(x), Keeper(y) PROVE x = y
  BY <1>4 DEF Claims, HandleTokens
<1>5. ASSUME NEW x, NEW y, Maker(x), Maker(y) PROVE x = y
  BY <1>2, <1>5 DEF Claims, CallTokens
<1>6. ASSUME NEW x, NEW y, Maker(x), Keeper(y) \/ Ender(y) PROVE FALSE
  <2>1. Making(x)
    BY <1>2, <1>6 DEF Making
  <2>2. Ender(y) => Ending(y)
    BY <1>2 DEF Ending
  <2>3. QED
    BY <1>6, <2>1, <2>2 DEF Claims, NewTokens
<1>7. ASSUME NEW x, NEW y, Keeper(x), Ender(y) PROVE FALSE
  BY <1>3, <1>7 DEF Claims, DropTokens
<1>8. ASSUME NEW x, NEW y, Ender(x), Ender(y) PROVE x = y
  BY <1>3, <1>8 DEF Claims, DropTokens
<1>9. \E x : x \in Owners(a, o)
  <2>1. HasOwner(a, o.token)
    BY DEF Accounted, Owned
  <2>2. QED
    BY <1>1, <2>1 DEF HasOwner
<1> HIDE DEF Keeper, Maker, Ender
<1>10. PICK x : Owners(a, o) = {x}
  BY <1>1, <1>4, <1>5, <1>6, <1>7, <1>8, <1>9
<1>11. QED
  BY <1>10, FS_Singleton

(* Nothing leaks in a live helper.  When the legacy code leaves stdout to  *)
(* the protocol, the request ids outlast the calls and memory for the      *)
(* responses does not run out, every object of a live helper has exactly   *)
(* one owner in the program: a handle, the constructor call that is still  *)
(* making it, or the release on its way.  So no object is left without a   *)
(* way to its destructor and none has two, however calls, releases,        *)
(* crashes and restarts overlap.                                           *)
THEOREM NothingLeaks ==
  ASSUME MaxNoise = 0, LowMemory = FALSE, MaxCalls < MaxRequestId
  PROVE  Spec => []ObjectsAreOwned
<1>1. Inv /\ Inv' /\ CallInv /\ HandleInv /\ OwnInv /\ [Next]_vars => OwnInv'
  BY OwnNext
<1>2. Inv /\ CallInv /\ HandleInv /\ OwnInv => ObjectsAreOwned
  BY OneOwner DEF HandleInv, OwnInv, ObjectsAreOwned
<1>3. QED
  BY <1>1, <1>2, OwnInit, Invariance, CallInvariance, HandleInvariance, PTL
  DEF Spec
=============================================================================
