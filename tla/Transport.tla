----------------------------- MODULE Transport ------------------------------
(***************************************************************************)
(* One connection at the level of its two pipes, which are bounded: a      *)
(* write waits while its pipe is full.  Process::call writes all of a      *)
(* request before it reads; the helper reads all of it before it writes,   *)
(* through stdio, as does what the legacy code prints.  A frame is a       *)
(* header cell and cells that follow it, and strays come in cells.         *)
(***************************************************************************)
EXTENDS Naturals, Sequences

CONSTANTS
  Capacity,   \* of a pipe
  ReadAhead,  \* of BufReader
  Stdio,      \* of the helper's stdout buffer
  MaxRequest, MaxReply,  \* bounds: cells after a header
  MaxStray,   \* bound: cells the legacy code prints in a call
  MaxCalls    \* bound: calls on the connection

ASSUME TransportAssumption ==
  /\ {Capacity, ReadAhead, Stdio} \subseteq Nat \ {0}
  /\ {MaxRequest, MaxReply, MaxStray, MaxCalls} \subseteq Nat

VARIABLES
  pc,         \* where the Process::call that holds the mutex is
  calls,      \* calls so far: the request id
  todo,       \* what it still has to write
  ahead,      \* BufReader
  need,       \* cells of the response body it still waits for
  corrupted,  \* ghost: a call reported Error::Protocol
  broken,     \* a call reported another error: the connection is retired
  stdin, stdout,  \* the pipes
  hpc,        \* where main is
  serving,    \* request_id: the one it read last
  rest,       \* cells of that request it still waits for
  out,        \* stdio's buffer
  reply,      \* what it still has to put there
  strays,     \* what the legacy function has printed
  alive       \* the helper runs

client == <<pc, calls, todo, ahead, need, corrupted, broken>>
helper == <<hpc, serving, rest, out, reply, strays>>
vars == <<client, stdin, stdout, helper, alive>>
-----------------------------------------------------------------------------
Other == [id |-> 0, size |-> 0]
Header(id, size) == [id |-> id, size |-> size]
Frame(id, size) == <<Header(id, size)>> \o [c \in 1 .. size |-> Other]

Init ==
  /\ pc = "idle" /\ calls = 0 /\ todo = <<>> /\ ahead = <<>> /\ need = 0
  /\ corrupted = FALSE /\ broken = FALSE
  /\ stdin = <<>> /\ stdout = <<>>
  /\ hpc = "header" /\ serving = 0 /\ rest = 0 /\ out = <<>> /\ reply = <<>> /\ strays = 0
  /\ alive = TRUE
-----------------------------------------------------------------------------
Call(size) ==
  /\ pc = "idle" /\ ~broken /\ calls < MaxCalls
  /\ pc' = "write" /\ calls' = calls + 1
  /\ todo' = Frame(calls + 1, size)
  /\ UNCHANGED <<ahead, need, corrupted, broken, stdin, stdout, helper, alive>>

(* write_all                                                               *)
Write ==
  /\ pc = "write" /\ alive /\ Len(stdin) < Capacity
  /\ stdin' = Append(stdin, Head(todo))
  /\ todo' = Tail(todo)
  /\ pc' = IF Len(todo) = 1 THEN "header" ELSE "write"
  /\ UNCHANGED <<calls, ahead, need, corrupted, broken, stdout, helper, alive>>

(* BufReader takes what there is.                                          *)
Fill ==
  /\ pc \in {"header", "body"} /\ ahead = <<>> /\ stdout # <<>>
  /\ LET k == IF Len(stdout) < ReadAhead THEN Len(stdout) ELSE ReadAhead IN
     /\ ahead' = SubSeq(stdout, 1, k)
     /\ stdout' = SubSeq(stdout, k + 1, Len(stdout))
  /\ UNCHANGED <<pc, calls, todo, need, corrupted, broken, stdin, helper,
                 alive>>

(* validate_response_header: not this connection's end if it is not one.   *)
ReadHeader ==
  /\ pc = "header" /\ ahead # <<>>
  /\ ahead' = Tail(ahead)
  /\ IF Head(ahead).id = calls
     THEN /\ pc' = IF Head(ahead).size = 0 THEN "idle" ELSE "body"
          /\ need' = Head(ahead).size
          /\ UNCHANGED corrupted
     ELSE /\ pc' = "idle" /\ corrupted' = TRUE
          /\ UNCHANGED need
  /\ UNCHANGED <<calls, todo, broken, stdin, stdout, helper, alive>>

ReadBody ==
  /\ pc = "body" /\ ahead # <<>>
  /\ ahead' = Tail(ahead) /\ need' = need - 1
  /\ pc' = IF need = 1 THEN "idle" ELSE "body"
  /\ UNCHANGED <<calls, todo, corrupted, broken, stdin, stdout, helper, alive>>

(* EPIPE, or the end of the stream.                                        *)
Fails ==
  /\ ~alive
  /\ \/ pc = "write"
     \/ pc \in {"header", "body"} /\ ahead = <<>> /\ stdout = <<>>
  /\ pc' = "idle" /\ broken' = TRUE /\ todo' = <<>>
  /\ UNCHANGED <<calls, ahead, need, corrupted, stdin, stdout, helper, alive>>
-----------------------------------------------------------------------------
TakeCell ==
  /\ alive /\ stdin # <<>>
  /\ stdin' = Tail(stdin)
  /\ UNCHANGED <<client, stdout, out, reply, strays, alive>>

(* read_exact of the header, then of the payload it announces.             *)
HelperHeader_NoEmpty ==   \* mutant: an empty payload is waited for
  /\ hpc = "header" /\ TakeCell
  /\ serving' = Head(stdin).id /\ rest' = Head(stdin).size
  /\ hpc' = "payload"

HelperHeader ==
  /\ hpc = "header" /\ TakeCell
  /\ serving' = Head(stdin).id /\ rest' = Head(stdin).size
  /\ hpc' = IF rest' = 0 THEN "call" ELSE "payload"

HelperPayload_One ==   \* mutant: a short read is taken for all of it
  /\ hpc = "payload" /\ TakeCell
  /\ rest' = rest - 1 /\ hpc' = "call"
  /\ UNCHANGED serving

HelperPayload ==
  /\ hpc = "payload" /\ TakeCell
  /\ rest' = rest - 1
  /\ hpc' = IF rest' = 0 THEN "call" ELSE "payload"
  /\ UNCHANGED serving

(* fwrite: into the buffer, which is written when it is full.              *)
Put(cell) == Len(out) < Stdio /\ out' = Append(out, cell)

Drain ==
  /\ alive /\ out # <<>> /\ Len(stdout) < Capacity
  /\ Len(out) = Stdio \/ hpc = "flush"
  /\ stdout' = Append(stdout, Head(out))
  /\ out' = Tail(out)
  /\ UNCHANGED <<client, stdin, hpc, serving, rest, reply, strays, alive>>

(* The legacy function runs, and may print.                                *)
Stray ==
  /\ alive /\ hpc = "call" /\ strays < MaxStray
  /\ Put(Other)
  /\ strays' = strays + 1
  /\ UNCHANGED <<client, stdin, stdout, hpc, serving, rest, reply, alive>>

Return(size) ==
  /\ alive /\ hpc = "call"
  /\ hpc' = "reply" /\ strays' = 0
  /\ reply' = Frame(serving, size)
  /\ UNCHANGED <<client, stdin, stdout, serving, rest, out, alive>>

(* send_response: write_exact twice and fflush.                            *)
PutReply ==
  /\ alive /\ hpc = "reply" /\ reply # <<>>
  /\ Put(Head(reply))
  /\ reply' = Tail(reply)
  /\ UNCHANGED <<client, stdin, stdout, hpc, serving, rest, strays, alive>>

Flush ==
  /\ alive /\ hpc = "reply" /\ reply = <<>>
  /\ hpc' = "flush"
  /\ UNCHANGED <<client, stdin, stdout, serving, rest, out, reply, strays, alive>>

Flushed_Not ==   \* mutant: no fflush
  /\ alive /\ hpc = "flush"
  /\ hpc' = "header"
  /\ UNCHANGED <<client, stdin, stdout, serving, rest, out, reply, strays, alive>>

Flushed ==
  /\ alive /\ hpc = "flush" /\ out = <<>>
  /\ hpc' = "header"
  /\ UNCHANGED <<client, stdin, stdout, serving, rest, out, reply, strays, alive>>

HelperDies ==
  /\ alive /\ alive' = FALSE
  /\ UNCHANGED <<client, stdin, stdout, helper>>
-----------------------------------------------------------------------------
Client == Write \/ Fill \/ ReadHeader \/ ReadBody \/ Fails

Legacy == Stray \/ \E size \in 0 .. MaxReply : Return(size)

Main == HelperHeader \/ HelperPayload \/ PutReply \/ Flush \/ Flushed

Next ==
  \/ \E size \in 0 .. MaxRequest : Call(size)
  \/ Client
  \/ Main \/ Drain \/ Legacy
  \/ HelperDies

Spec == Init /\ [][Next]_vars

(* Threads that can go on do, and what is called returns in the end: it    *)
(* prints no more than MaxStray.                                           *)
FairSpec ==
  Spec /\ WF_vars(Client) /\ WF_vars(Main) /\ WF_vars(Drain) /\ WF_vars(Legacy)
-----------------------------------------------------------------------------
(* Types, and no pipe or buffer holds more than it can.                    *)
TypeOK ==
  /\ pc \in {"idle", "write", "header", "body"}
  /\ hpc \in {"header", "payload", "call", "reply", "flush"}
  /\ calls \in 0 .. MaxCalls /\ serving \in 0 .. calls
  /\ need \in Nat /\ rest \in 0 .. MaxRequest /\ strays \in 0 .. MaxStray
  /\ {corrupted, broken, alive} \subseteq BOOLEAN
  /\ \A pipe \in {stdin, stdout} : Len(pipe) <= Capacity
  /\ Len(ahead) <= ReadAhead /\ Len(out) <= Stdio
  /\ pc = "write" <=> todo # <<>>

(* Each waits for the other: the caller for room in stdin, the helper for  *)
(* room in stdout.                                                         *)
Standoff ==
  /\ alive /\ pc = "write" /\ Len(stdin) = Capacity
  /\ Len(stdout) = Capacity
  /\ \/ hpc \in {"call", "reply"} /\ Len(out) = Stdio
     \/ hpc = "flush" /\ out # <<>>

(* The caller writes all of a request before it reads and the helper all   *)
(* of a response before it reads, whatever their lengths, and the two      *)
(* still never wait for each other: unless what the legacy code prints was *)
(* taken for a response, since the real one is then left in the pipe.      *)
NoStandoff == Standoff => corrupted

(* A call returns, its helper dead or alive, with the same exception.      *)
CallReturns == pc # "idle" ~> pc = "idle" \/ corrupted

(* A call that found no fault leaves nothing behind, in the pipe or in     *)
(* BufReader, that the next could take for the beginning of its response.  *)
NothingLeft ==
  pc = "idle" /\ ~corrupted /\ ~broken => ahead = <<>> /\ stdout = <<>>
=============================================================================
