------------------------------- MODULE Bridge -------------------------------
(***************************************************************************)
(* The run time of one generated bridge module: the static `Bridge` and    *)
(* its Mutex<Option<Arc<Connection>>>, the `Connection`s it starts, their  *)
(* helper processes, the generated free functions that several threads     *)
(* call, and the opaque handles those functions return.                    *)
(*                                                                         *)
(* A Connection is named by the ADDRESS its Arc points to, because         *)
(* pointer equality (Arc::ptr_eq) is all that the code compares.           *)
(* Addresses are reused once the last Arc is gone, so `gen`, a ghost       *)
(* number that no two Connections share, tells them apart.                 *)
(*                                                                         *)
(* The stdout pipe carries CELLS.  A response is HeaderLen header cells    *)
(* (20 bytes in the code) followed by its body cells, so that a frame can  *)
(* be cut by a crash and the reader can lose its place in the stream when  *)
(* the legacy code itself prints to stdout.                                *)
(***************************************************************************)
EXTENDS Naturals, Sequences, FiniteSets

CONSTANTS
  Threads,       \* threads of the Rust program
  Addrs,         \* heap addresses an Arc<Connection> may have
  None,          \* no address / no thread
  HeaderLen,     \* cells in a response header
  MaxRequestId,  \* u64::MAX, scaled down
  MaxSpawns,     \* bound: helper processes started in a behaviour
  MaxCalls,      \* bound: generated functions called in a behaviour
  MaxNoise,      \* bound: cells the legacy code prints during one request
  LowMemory      \* may the helper's allocation of a response fail?

ASSUME BridgeAssumption ==
  /\ None \notin Threads \cup Addrs
  /\ HeaderLen \in Nat \ {0}
  /\ MaxRequestId \in Nat \ {0}
  /\ MaxSpawns \in Nat /\ MaxCalls \in Nat /\ MaxNoise \in Nat
  /\ LowMemory \in BOOLEAN

VARIABLES
  current,   \* Bridge.connection
  conn,      \* Addrs -> the Connection there, with its helper and pipes
  thread,    \* Threads -> the generated function the thread is inside
  handles,   \* opaque handles the program owns
  spawned,   \* helpers started so far (the source of `gen`)
  calls,     \* functions called so far (the source of `token`)
  reported   \* ghost: which Connections a returned call reported as broken

vars == <<current, conn, thread, handles, spawned, calls, reported>>
-----------------------------------------------------------------------------
(* Generated operations: a constructor, a method and the destructor of an  *)
(* opaque type.  `token` is a ghost that names the call; an object and the *)
(* handle to it carry the token of the constructor call that made them,    *)
(* and `target` is the token of the object a request is meant for.         *)
Ops == {"new", "use", "drop"}

Handle == [at : Addrs, gen : Nat, id : Nat, token : Nat]
NoHandle == [at |-> None, gen |-> 0, id |-> 0, token |-> 0]

Request  == [rid : Nat, op : Ops, id : Nat, token : Nat, target : Nat]
Response == [rid : Nat, op : Ops, ok : BOOLEAN, id : Nat, token : Nat]
NoResponse == [rid |-> 0, op |-> "new", ok |-> FALSE, id |-> 0, token |-> 0]

Cell  == [pos : Nat, of : Response]
Noise == [pos |-> 0, of |-> NoResponse]

(* A destructor's success has an empty payload; a value, an id or an error *)
(* message is one cell.                                                    *)
BodyLen(r) == IF r.op = "drop" /\ r.ok THEN 0 ELSE 1

Frame(r) == [i \in 1 .. HeaderLen + BodyLen(r) |-> [pos |-> i, of |-> r]]
Noises(n) == [i \in 1 .. n |-> Noise]

(* struct Connection, struct Process, the helper behind it and its pipes.  *)
Connection ==
  [gen : Nat, running : BOOLEAN, lock : Threads \cup {None},
   nextRequestId : 1 .. MaxRequestId, stdin : Seq(Request), stdout : Seq(Cell),
   stdio : Seq(Cell), objects : SUBSET [id : Nat, token : Nat],
   nextHandleId : Nat]

Free ==
  [gen |-> 0, running |-> FALSE, lock |-> None, nextRequestId |-> 1,
   stdin |-> <<>>, stdout |-> <<>>, stdio |-> <<>>, objects |-> {},
   nextHandleId |-> 1]

PCs == {"idle", "encode", "write", "header", "body", "retire"}

Thread ==
  [pc : PCs, op : Ops, at : Addrs \cup {None}, gen : Nat,
   arg : Handle \cup {NoHandle}, rid : Nat, token : Nat, reply : Response]

Idle ==
  [pc |-> "idle", op |-> "new", at |-> None, gen |-> 0, arg |-> NoHandle,
   rid |-> 0, token |-> 0, reply |-> NoResponse]

Report == [gen : Nat, by : {"call", "release"}, why : {"dead", "corrupt"}]

Init ==
  /\ current = None
  /\ conn = [a \in Addrs |-> Free]
  /\ thread = [t \in Threads |-> Idle]
  /\ handles = {}
  /\ spawned = 0
  /\ calls = 0
  /\ reported = {}
-----------------------------------------------------------------------------
(* Arc<Connection>: the Bridge, every thread inside a function and every   *)
(* handle hold one.                                                        *)
Referenced_WeakHandles(a) ==   \* mutant: handles do not keep it alive
  \/ current = a
  \/ \E t \in Threads : thread[t].at = a

Referenced(a) ==
  \/ current = a
  \/ \E t \in Threads : thread[t].at = a
  \/ \E h \in handles : h.at = a

(* Drop for Process, at the last Arc: the helper is killed and reaped, and *)
(* the memory becomes free.  c is the connections after the rest of the    *)
(* step; current', thread' and handles' say which Arcs survive it.         *)
DropUnreferenced(c) ==
  [a \in Addrs |-> IF Referenced(a)' THEN c[a] ELSE Free]

(* The call of thread t is over: its Arc goes, and c is what it leaves.    *)
Return(t, c) ==
  /\ thread' = [thread EXCEPT ![t] = Idle]
  /\ conn' = DropUnreferenced(c)
  /\ UNCHANGED <<spawned, calls>>

Reports(t, why) ==
  reported' = reported \cup
    {[gen |-> thread[t].gen, why |-> why,
      by |-> IF thread[t].op = "drop" THEN "release" ELSE "call"]}

Unlocked(t) == [conn EXCEPT ![thread[t].at].lock = None]

(* A step of thread t that changes neither the Bridge slot nor any handle. *)
Keeps == UNCHANGED <<current, handles, reported>>
-----------------------------------------------------------------------------
(* Bridge::connection, the first statement of every generated function:    *)
(* one critical section of the Bridge's mutex.  The function borrows the   *)
(* handle it was given.                                                    *)
Enter(t, op, h, a, g) ==
  /\ thread' = [thread EXCEPT ![t] =
       [pc |-> "encode", op |-> op, at |-> a, gen |-> g, arg |-> h,
        rid |-> 0, token |-> calls + 1, reply |-> NoResponse]]
  /\ calls' = calls + 1

CallWith(t, op, h) ==
  /\ thread[t].pc = "idle"
  /\ calls < MaxCalls
  /\ \/ op = "new" /\ h = NoHandle
     \/ op = "use" /\ h \in handles

Connect(t, op, h) ==
  /\ CallWith(t, op, h)
  /\ current # None
  /\ Enter(t, op, h, current, conn[current].gen)
  /\ UNCHANGED <<conn, spawned>>
  /\ Keeps

Spawn(t, op, h, a) ==
  /\ CallWith(t, op, h)
  /\ current = None
  /\ spawned < MaxSpawns
  /\ conn[a].gen = 0
  /\ conn' = [conn EXCEPT ![a] =
       [Free EXCEPT !.gen = spawned + 1, !.running = TRUE]]
  /\ current' = a
  /\ spawned' = spawned + 1
  /\ Enter(t, op, h, a, spawned + 1)
  /\ UNCHANGED <<handles, reported>>

(* Command::spawn fails; the error is the function's result.               *)
SpawnFails(t, op, h) ==
  /\ CallWith(t, op, h)
  /\ current = None
  /\ calls' = calls + 1
  /\ UNCHANGED <<conn, thread, spawned>>
  /\ Keeps

(* handle.release(), from the consuming function or from Drop: takes the   *)
(* id and goes straight to the handle's own Connection.  Ownership rules   *)
(* out a handle that some thread is borrowing.                             *)
Release(t, h) ==
  /\ thread[t].pc = "idle"
  /\ calls < MaxCalls
  /\ \A u \in Threads : thread[u].arg # h
  /\ handles' = handles \ {h}
  /\ Enter(t, "drop", h, h.at, h.gen)
  /\ UNCHANGED <<current, conn, spawned, reported>>
-----------------------------------------------------------------------------
(* id_for: the handle of a method must belong to the Connection the call   *)
(* obtained.                                                               *)
SameConnection_Unchecked(t) == TRUE   \* mutant: id_for without ptr_eq

SameConnection(t) == thread[t].arg.at = thread[t].at

WrongConnection(t) ==
  /\ thread[t].pc = "encode"
  /\ thread[t].op = "use"
  /\ ~SameConnection(t)
  /\ Keeps
  /\ Return(t, conn)

Oversize_Release(t) ==   \* mutant: a release can be refused as well
  /\ thread[t].pc = "encode"
  /\ thread[t].op = "use" => SameConnection(t)
  /\ Keeps
  /\ Return(t, conn)

(* Connection::call refuses a payload over max_frame_bytes, before the     *)
(* lock.  A release is too short for that.                                 *)
Oversize(t) ==
  /\ thread[t].pc = "encode"
  /\ thread[t].op # "drop"
  /\ thread[t].op = "use" => SameConnection(t)
  /\ Keeps
  /\ Return(t, conn)

Encoded(t) ==
  /\ thread[t].pc = "encode"
  /\ thread[t].op = "use" => SameConnection(t)
  /\ conn[thread[t].at].lock = None

(* The Process mutex and the next request id (checked_add).                *)
Lock_Unchecked(t) ==   \* mutant: the request id is not checked_add
  LET a == thread[t].at IN
  /\ Encoded(t)
  /\ conn' = [conn EXCEPT ![a].lock = t, ![a].nextRequestId = @ + 1]
  /\ thread' = [thread EXCEPT ![t].pc = "write",
                              ![t].rid = conn[a].nextRequestId]
  /\ UNCHANGED <<spawned, calls>>
  /\ Keeps

Lock(t) ==
  LET a == thread[t].at IN
  /\ Encoded(t)
  /\ conn[a].nextRequestId < MaxRequestId
  /\ conn' = [conn EXCEPT ![a].lock = t, ![a].nextRequestId = @ + 1]
  /\ thread' = [thread EXCEPT ![t].pc = "write",
                              ![t].rid = conn[a].nextRequestId]
  /\ UNCHANGED <<spawned, calls>>
  /\ Keeps

Exhausted(t) ==
  /\ Encoded(t)
  /\ conn[thread[t].at].nextRequestId = MaxRequestId
  /\ Keeps
  /\ Return(t, conn)

Break_NoRetire(t, c) ==   \* mutant: the call returns without retiring
  /\ UNCHANGED <<current, handles>>
  /\ Return(t, c)
  /\ Reports(t, "dead")

(* An error that breaks the connection: Bridge::call retires it, release   *)
(* returns.                                                                *)
Break(t, c) ==
  /\ UNCHANGED <<current, handles>>
  /\ IF thread[t].op = "drop"
     THEN /\ Return(t, c)
          /\ Reports(t, "dead")
     ELSE /\ thread' = [thread EXCEPT ![t].pc = "retire"]
          /\ conn' = c
          /\ UNCHANGED <<spawned, calls, reported>>

(* write_all and flush, with room in the pipe: here it has no bound.  A    *)
(* full pipe makes a write wait, which FairSpec allows for; see Transport. *)
Write(t) ==
  LET a == thread[t].at IN
  /\ thread[t].pc = "write"
  /\ conn[a].running
  /\ conn' = [conn EXCEPT ![a].stdin = Append(@,
       [rid |-> thread[t].rid, op |-> thread[t].op,
        id |-> thread[t].arg.id, token |-> thread[t].token,
        target |-> thread[t].arg.token])]
  /\ thread' = [thread EXCEPT ![t].pc = "header"]
  /\ UNCHANGED <<spawned, calls>>
  /\ Keeps

(* EPIPE.                                                                  *)
WriteFails(t) ==
  /\ thread[t].pc = "write"
  /\ ~conn[thread[t].at].running
  /\ Break(t, Unlocked(t))

(* read_exact takes n cells off the pipe.                                  *)
Rest(s, n) == SubSeq(s, n + 1, Len(s))
Taken(c, a, n) == [c EXCEPT ![a].stdout = Rest(@, n)]

ValidHeader_AnyRequest(s, rid) ==   \* mutant: request id not compared
  \A i \in 1 .. HeaderLen : s[i].pos = i /\ s[i].of = s[1].of

(* validate_response_header on the next HeaderLen cells.                   *)
ValidHeader(s, rid) ==
  /\ \A i \in 1 .. HeaderLen : s[i].pos = i /\ s[i].of = s[1].of
  /\ s[1].of.rid = rid

ReadHeader(t) ==
  LET a == thread[t].at
      s == conn[a].stdout
  IN
  /\ thread[t].pc = "header"
  /\ Len(s) >= HeaderLen
  /\ ValidHeader(s, thread[t].rid)
  /\ conn' = Taken(conn, a, HeaderLen)
  /\ thread' = [thread EXCEPT ![t].pc = "body", ![t].reply = s[1].of]
  /\ UNCHANGED <<spawned, calls>>
  /\ Keeps

(* Error::Protocol: the connection stays where it is, and so does whatever *)
(* follows the bad header in the pipe.                                     *)
BadHeader(t) ==
  LET a == thread[t].at
      s == conn[a].stdout
  IN
  /\ thread[t].pc = "header"
  /\ Len(s) >= HeaderLen
  /\ ~ValidHeader(s, thread[t].rid)
  /\ UNCHANGED <<current, handles>>
  /\ Return(t, Taken(Unlocked(t), a, HeaderLen))
  /\ Reports(t, "corrupt")

ReadEof_Partial(t) ==   \* mutant: a frame cut short is waited for
  LET a == thread[t].at IN
  /\ thread[t].pc \in {"header", "body"}
  /\ ~conn[a].running
  /\ conn[a].stdout = <<>>
  /\ Break(t, Unlocked(t))

(* UnexpectedEof in the header (HelperExited) or in the body (Io).         *)
ReadEof(t) ==
  LET a == thread[t].at
      need == IF thread[t].pc = "header" THEN HeaderLen
              ELSE BodyLen(thread[t].reply)
  IN
  /\ thread[t].pc \in {"header", "body"}
  /\ ~conn[a].running
  /\ Len(conn[a].stdout) < need
  /\ Break(t, Taken(Unlocked(t), a, Len(conn[a].stdout)))

(* The body arrives, the lock is released and the generated function       *)
(* decodes: a constructor's Ok moves the Arc into the new handle.          *)
ReadBody(t) ==
  LET a == thread[t].at
      r == thread[t].reply
  IN
  /\ thread[t].pc = "body"
  /\ Len(conn[a].stdout) >= BodyLen(r)
  /\ handles' = IF thread[t].op = "new" /\ r.ok
                THEN handles \cup {[at |-> a, gen |-> thread[t].gen,
                                    id |-> r.id, token |-> thread[t].token]}
                ELSE handles
  /\ UNCHANGED <<current, reported>>
  /\ Return(t, Taken(Unlocked(t), a, BodyLen(r)))

Retire_AnyCurrent(t) ==   \* mutant: retire without ptr_eq
  /\ thread[t].pc = "retire"
  /\ current' = None
  /\ UNCHANGED handles
  /\ Return(t, conn)
  /\ Reports(t, "dead")

(* Bridge::retire: a critical section of the Bridge's mutex; then the call *)
(* returns its error.                                                      *)
Retire(t) ==
  /\ thread[t].pc = "retire"
  /\ current' = IF current = thread[t].at THEN None ELSE current
  /\ UNCHANGED handles
  /\ Return(t, conn)
  /\ Reports(t, "dead")
-----------------------------------------------------------------------------
(* The helper.  Its main loop takes one request at a time, dispatches it   *)
(* and sends one response; `stdio` is what fwrite has not yet passed on.   *)
HelperStep ==
  UNCHANGED <<current, thread, handles, spawned, calls, reported>>

Respond(a, ok, id, n, objects, next) ==
  LET q == Head(conn[a].stdin)
      r == [rid |-> q.rid, op |-> q.op, ok |-> ok, id |-> id,
            token |-> q.token]
  IN
  /\ conn' = [conn EXCEPT ![a].stdin = Tail(@),
                          ![a].stdio = Noises(n) \o Frame(r),
                          ![a].objects = objects,
                          ![a].nextHandleId = next]
  /\ HelperStep

Ready(a, op) ==
  /\ conn[a].running
  /\ conn[a].stdio = <<>>
  /\ conn[a].stdin # <<>>
  /\ Head(conn[a].stdin).op = op

Known(a) == {o \in conn[a].objects : o.id = Head(conn[a].stdin).id}

(* The object is retained before its id is put into the response; when     *)
(* that fails the error goes out and the object stays.                     *)
ServeNew(a, ok, n) ==
  LET id == conn[a].nextHandleId IN
  /\ Ready(a, "new")
  /\ ok \/ LowMemory
  /\ Respond(a, ok, IF ok THEN id ELSE 0, n,
             conn[a].objects \cup
               {[id |-> id, token |-> Head(conn[a].stdin).token]},
             id + 1)

(* The constructor returned NULL: "could not retain opaque handle".        *)
ServeNull(a, n) ==
  /\ Ready(a, "new")
  /\ Respond(a, FALSE, 0, n, conn[a].objects, conn[a].nextHandleId)

(* The result of a method may be too long for a response.                  *)
ServeUse(a, ok, n) ==
  /\ Ready(a, "use")
  /\ ok => Known(a) # {}
  /\ Respond(a, ok, 0, n, conn[a].objects, conn[a].nextHandleId)

ServeDrop(a, n) ==
  /\ Ready(a, "drop")
  /\ Respond(a, Known(a) # {}, 0, n, conn[a].objects \ Known(a),
             conn[a].nextHandleId)

(* Part or all of the buffered output reaches the pipe, where it has room  *)
(* (as for Write).                                                         *)
Flush(a, k) ==
  /\ conn[a].running
  /\ k \in 1 .. Len(conn[a].stdio)
  /\ conn' = [conn EXCEPT ![a].stdout = @ \o SubSeq(conn[a].stdio, 1, k),
                          ![a].stdio = Rest(@, k)]
  /\ HelperStep

(* Fil-C stops the helper, something kills it, or its main loop gives up.  *)
(* Output that reached the pipe can still be read.                         *)
Crash(a) ==
  /\ conn[a].running
  /\ conn' = [conn EXCEPT ![a].running = FALSE, ![a].stdin = <<>>,
                          ![a].stdio = <<>>, ![a].objects = {}]
  /\ HelperStep
-----------------------------------------------------------------------------
(* The program has no more calls to make.                                  *)
Finished ==
  /\ calls = MaxCalls
  /\ \A t \in Threads : thread[t].pc = "idle"
  /\ UNCHANGED vars

Starts(t) ==
  \E op \in {"new", "use"}, h \in handles \cup {NoHandle} :
    \/ Connect(t, op, h)
    \/ \E a \in Addrs : Spawn(t, op, h, a)
    \/ SpawnFails(t, op, h)

Continues(t) ==
  \/ WrongConnection(t) \/ Lock(t) \/ Exhausted(t)
  \/ Write(t) \/ WriteFails(t)
  \/ ReadHeader(t) \/ BadHeader(t) \/ ReadEof(t) \/ ReadBody(t)
  \/ Retire(t)

Answers(a, ok, n) ==
  \/ ServeNew(a, ok, n) \/ ServeNull(a, n)
  \/ ServeUse(a, ok, n) \/ ServeDrop(a, n)

Serves(a) ==
  \/ \E ok \in BOOLEAN, n \in 0 .. MaxNoise : Answers(a, ok, n)
  \/ \E k \in 1 .. Len(conn[a].stdio) : Flush(a, k)

Next ==
  \/ \E t \in Threads : Starts(t) \/ Oversize(t) \/ Continues(t)
  \/ \E t \in Threads : \E h \in handles : Release(t, h)
  \/ \E a \in Addrs : Serves(a) \/ Crash(a)
  \/ Finished

Spec == Init /\ [][Next]_vars

(* Once a call has taken stray output for its response the real one stays  *)
(* in the pipe, and a later writer may find its pipe full, caller and      *)
(* helper alike, for as long as the helper lives: Transport's Standoff.    *)
(* Until then no writer waits for good, which is Transport's NoStandoff.   *)
MayBlock(a) ==
  /\ a # None
  /\ conn[a].running
  /\ \E r \in reported : r.gen = conn[a].gen /\ r.why = "corrupt"

(* A Rust thread inside a function runs on, and takes the mutex when its   *)
(* turn comes; a live helper reads its requests and the legacy functions   *)
(* return.  Nothing obliges a thread to call, a payload to be oversized, a *)
(* helper to crash, or a pipe that may be full to have room.               *)
FairSpec ==
  /\ Spec
  /\ \A t \in Threads :
       WF_vars(Continues(t) /\
                 (thread[t].pc = "write" => ~MayBlock(thread[t].at)))
  /\ \A a \in Addrs :
       WF_vars(Serves(a) /\ (conn[a].stdio # <<>> => ~MayBlock(a)))
-----------------------------------------------------------------------------
TypeOK ==
  /\ current \in Addrs \cup {None}
  /\ conn \in [Addrs -> Connection]
  /\ thread \in [Threads -> Thread]
  /\ handles \subseteq Handle
  /\ spawned \in 0 .. MaxSpawns
  /\ calls \in 0 .. MaxCalls
  /\ reported \subseteq Report

(* However the retirement of a broken connection races with the restart    *)
(* that another thread does, the Bridge never forgets a helper that still  *)
(* runs: a live helper is the one the next call uses, so there is at most  *)
(* one (Bridge::retire's ptr_eq against Bridge::connection).               *)
LiveHelperIsCurrent ==
  \A a \in Addrs : conn[a].running => current = a

(* Pointer equality stands for identity: the Connection at an address that *)
(* a handle or a running function holds is the one it was given, never a   *)
(* later one at a reused address.  id_for and retire rest on it.           *)
ArcIdentity ==
  /\ \A h \in handles : conn[h.at].gen = h.gen
  /\ \A t \in Threads :
       thread[t].at # None => conn[thread[t].at].gen = thread[t].gen

(* A handle stays good for as long as its helper lives, and only there:    *)
(* the object it was made for is in the live helper's table under its id,  *)
(* and every method or destructor on its way to the helper names the       *)
(* object of the handle it was called with, whatever restarts, releases    *)
(* and borrowed handles came between.                                      *)
HandlesResolve ==
  /\ \A h \in handles : conn[h.at].running =>
       [id |-> h.id, token |-> h.token] \in conn[h.at].objects
  /\ \A a \in Addrs : \A i \in 1 .. Len(conn[a].stdin) :
       LET q == conn[a].stdin[i] IN
       q.op # "new" =>
         {o \in conn[a].objects : o.id = q.id} =
           {[id |-> q.id, token |-> q.target]}

(* The response a call takes off the pipe is the one to its own request,   *)
(* also when the legacy code has put the stream out of step.               *)
ReplyMatchesCall ==
  \A t \in Threads :
    thread[t].pc = "body" => thread[t].reply.token = thread[t].token

(* Nothing leaks in a live helper: each of its objects has exactly one     *)
(* owner in the program, a handle, the constructor call still under way,   *)
(* or the release on its way.  For a stream the legacy code leaves alone,  *)
(* request ids that do not run out and memory for every response.          *)
Owners(a, o) ==
  {h \in handles : h.at = a /\ h.token = o.token} \cup
  {t \in Threads : thread[t].at = a /\
     \/ thread[t].op = "new" /\ thread[t].token = o.token
     \/ thread[t].op = "drop" /\ thread[t].arg.token = o.token}

ObjectsAreOwned ==
  \A a \in Addrs : conn[a].running =>
    \A o \in conn[a].objects : Cardinality(Owners(a, o)) = 1

(* Once a call has returned the death of its helper, the Bridge does not   *)
(* hand that Connection out again: "next call launches a new helper".      *)
BrokenIsNotReused ==
  current # None =>
    [gen |-> conn[current].gen, by |-> "call", why |-> "dead"] \notin reported

(* A step that empties the Bridge's slot gives up no live helper, and the  *)
(* slot never passes from one Connection to another without being empty.   *)
OnlyDeadIsRetired ==
  [][current # None /\ current' # current =>
       current' = None /\ ~conn[current].running]_vars

(* Every function that was entered returns, unless its helper lives on     *)
(* after a call has reported that stray output was taken for a response:   *)
(* no crash, partial frame, stale connection or first corruption of the    *)
(* stream leaves a caller, or one that waits for the mutex, behind.  The   *)
(* death of a helper also ends the calls that a corrupt stream holds up.   *)
CallReturns ==
  \A t \in Threads :
    thread[t].pc # "idle" ~> thread[t].pc = "idle" \/ MayBlock(thread[t].at)

(* What the documentation of Bridge says: "When a helper terminates or     *)
(* corrupts its transport, the failed connection is discarded".  Neither   *)
(* half holds: Error::Protocol does not break a connection, and a release  *)
(* that finds its helper dead retires nothing.                             *)
CorruptIsDiscarded ==
  current # None =>
    [gen |-> conn[current].gen, by |-> "call", why |-> "corrupt"] \notin reported

DeadAtReleaseIsDiscarded ==
  current # None =>
    [gen |-> conn[current].gen, by |-> "release", why |-> "dead"] \notin reported
=============================================================================
