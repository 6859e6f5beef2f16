------------------------------- MODULE Helper -------------------------------
(***************************************************************************)
(* The helper program that filc-build generates: main's loop, which reads  *)
(* one request frame, dispatches it, sends one response and, when the      *)
(* input ends or something is wrong with it, releases all handles and      *)
(* exits.  The table of handles is the one HandleStore promises.           *)
(*                                                                         *)
(* The interface has a constructor, a method, a function that returns text *)
(* with a declared release function, and the destructor of the opaque      *)
(* type.                                                                   *)
(***************************************************************************)
EXTENDS Naturals, Sequences, FiniteSets

CONSTANTS
  Objects, Null, MaxId,  \* as in HandleStore
  MaxRequests            \* bound: frames the parent sends

ASSUME HelperAssumption ==
  /\ Null \notin Objects
  /\ MaxId \in Nat /\ MaxRequests \in Nat

VARIABLES
  store, next, destroyed, closed, answer,  \* the table: HandleStore
  stdin,     \* frames in the pipe
  open,      \* the parent has not closed the pipe
  pc,        \* where main is
  result,    \* what the legacy constructor returned
  buffer,    \* Buffer response: its parts
  exitCode,  \* what main returns
  accepted,  \* ghost: the frames whose header main accepted
  ran,       \* ghost: which of them ran their function, in order
  made,      \* ghost: objects the constructor made
  refused,   \* ghost: objects that went to the destructor, not the table
  texts,     \* ghost: texts the legacy code allocated and has not got back
  sent       \* ghost: the responses that were sent

Table == INSTANCE HandleStore

table == <<store, next, destroyed, closed, answer>>
input == <<stdin, open>>
ghosts == <<accepted, ran, made, refused, texts, sent>>
vars == <<table, input, pc, result, buffer, exitCode, ghosts>>
-----------------------------------------------------------------------------
Ops == {"new", "use", "text", "drop"}

(* The first thing that main or dispatch finds wrong with a frame: magic,  *)
(* version or kind; a length over MAX_FRAME_BYTES; an input that ends      *)
(* inside the header or the payload; the schema of another build; no such  *)
(* operation; arguments that do not decode; bytes left over after them.    *)
Defects == {"none", "header", "size", "cut header", "cut payload", "schema",
            "operation", "argument", "trailing"}

Request == [op : Ops, id : Table!RequestIds, defect : Defects]

(* One value for what is never looked at.                                  *)
Requests ==
  {r \in Request :
     /\ r.op \in {"new", "text"} \/ r.defect # "none" => r.id = 0
     /\ r.defect # "none" => r.op = "text"}

Parts == {"id", "value", "length", "data", "message"}
Response == [of : Nat, ok : BOOLEAN, body : Seq(Parts)]

(* What a success carries.                                                 *)
Body(op) ==
  CASE op = "new"  -> <<"id">>
    [] op = "use"  -> <<"value">>
    [] op = "text" -> <<"length", "data">>
    [] op = "drop" -> <<>>

Current == accepted[Len(accepted)]

PCs == {"header", "payload", "dispatch", "retain", "encode", "send ok",
        "send error", "release", "exited", "aborted"}

Init ==
  /\ Table!Init
  /\ stdin = <<>> /\ open = TRUE
  /\ pc = "header" /\ result = Null /\ buffer = <<>> /\ exitCode = 0
  /\ accepted = <<>> /\ ran = <<>> /\ sent = <<>>
  /\ made = 0 /\ refused = 0 /\ texts = 0

Goto(from, to) == pc = from /\ pc' = to
-----------------------------------------------------------------------------
(* The parent: one frame at a time, and one that is cut ends the input.    *)
Send(r) ==
  /\ open
  /\ stdin = <<>>
  /\ Len(accepted) < MaxRequests
  /\ stdin' = <<r>>
  /\ open' = (r.defect \notin {"cut header", "cut payload"})
  /\ UNCHANGED <<table, pc, result, buffer, exitCode, ghosts>>

CloseInput ==
  /\ open
  /\ open' = FALSE
  /\ UNCHANGED <<table, stdin, pc, result, buffer, exitCode, ghosts>>
-----------------------------------------------------------------------------
(* break: leave the loop with an exit code.                                *)
Break(from, code) ==
  /\ Goto(from, "release")
  /\ exitCode' = code
  /\ UNCHANGED <<table, open, result, buffer, ghosts>>

Eof_Waits ==   \* mutant: end of file is retried like EINTR
  /\ ~open /\ stdin = <<>>
  /\ pc = "header"
  /\ UNCHANGED vars

Eof ==
  /\ ~open /\ stdin = <<>>
  /\ Break("header", 0)
  /\ UNCHANGED stdin

BadHeader ==
  /\ stdin # <<>>
  /\ Head(stdin).defect \in {"header", "size", "cut header"}
  /\ Break("header", 2)
  /\ stdin' = Tail(stdin)

Accept ==
  /\ stdin # <<>>
  /\ Head(stdin).defect \notin {"header", "size", "cut header"}
  /\ Goto("header", "payload")
  /\ accepted' = Append(accepted, Head(stdin))
  /\ stdin' = Tail(stdin)
  /\ buffer' = <<>> /\ result' = Null
  /\ UNCHANGED <<table, open, exitCode, ran, made, refused, texts, sent>>

PayloadNoMemory ==
  /\ Break("payload", 3)
  /\ UNCHANGED stdin

PayloadCut ==
  /\ Break("payload", 2)
  /\ Current.defect = "cut payload"
  /\ UNCHANGED stdin

Payload ==
  /\ Goto("payload", "dispatch")
  /\ Current.defect # "cut payload"
  /\ UNCHANGED <<table, input, result, buffer, exitCode, ghosts>>
-----------------------------------------------------------------------------
(* buffer_error: what was encoded so far goes; the message may not fit.    *)
Error_Appends(from) ==   \* mutant: the buffer is not reset
  /\ Goto(from, "send error")
  /\ buffer' \in {Append(buffer, "message"), buffer}
  /\ UNCHANGED <<input, exitCode, accepted, made, sent>>

Error(from) ==
  /\ Goto(from, "send error")
  /\ buffer' \in {<<"message">>, <<>>}
  /\ UNCHANGED <<input, exitCode, accepted, made, sent>>

Reject ==
  /\ Error("dispatch")
  /\ Current.defect # "none"
  /\ UNCHANGED <<table, result, ran, refused, texts>>

Runs_Trailing(op) ==   \* mutant: trailing bytes are not looked for
  /\ Current.op = op
  /\ Current.defect \in {"none", "trailing"}
  /\ ran' = Append(ran, Len(accepted))
  /\ UNCHANGED <<input, exitCode, accepted, refused, sent>>

(* Everything decoded: the legacy function is called.                      *)
Runs(op) ==
  /\ Current.op = op
  /\ Current.defect = "none"
  /\ ran' = Append(ran, Len(accepted))
  /\ UNCHANGED <<input, exitCode, accepted, refused, sent>>

CallNew(v) ==
  /\ Goto("dispatch", "retain")
  /\ Runs("new")
  /\ result' = v
  /\ made' = IF v = Null THEN made ELSE made + 1
  /\ UNCHANGED <<table, buffer, texts>>

CallUse ==
  /\ Goto("dispatch", "encode")
  /\ Runs("use")
  /\ Table!Find(Current.id)
  /\ answer'.value # Null
  /\ UNCHANGED <<result, buffer, made, texts>>

CallText ==
  /\ Goto("dispatch", "encode")
  /\ Runs("text")
  /\ texts' = texts + 1
  /\ UNCHANGED <<table, result, buffer, made>>

Drop ==
  /\ Goto("dispatch", "send ok")
  /\ Runs("drop")
  /\ Table!Discard(Current.id)
  /\ UNCHANGED <<result, buffer, made, texts>>

UnknownObject ==
  /\ Error("dispatch")
  /\ Current.defect = "none"
  /\ \/ Current.op = "use" /\ Table!Find(Current.id) /\ answer'.value = Null
     \/ Current.op = "drop" /\ Table!DiscardUnknown(Current.id)
  /\ UNCHANGED <<result, ran, refused, texts>>
-----------------------------------------------------------------------------
Retain ==
  /\ Goto("retain", "encode")
  /\ result # Null
  /\ Table!Retain(result)
  /\ UNCHANGED <<input, result, buffer, exitCode, ghosts>>

Refuse_Leaks ==   \* mutant: the refused object is left alone
  /\ Table!Refuse
  /\ Error("retain")
  /\ UNCHANGED <<result, ran, refused, texts>>

(* No id for it: NULL, no id left or no memory for a slot.  What the       *)
(* constructor returned goes to the destructor, NULL too.                  *)
Refuse ==
  /\ Table!Refuse
  /\ Error("retain")
  /\ refused' = IF result = Null THEN refused ELSE refused + 1
  /\ UNCHANGED <<result, ran, texts>>

(* buffer_append, if there is room.                                        *)
EncodePart ==
  /\ pc = "encode"
  /\ Len(buffer) < Len(Body(Current.op))
  /\ buffer' = Append(buffer, Body(Current.op)[Len(buffer) + 1])
  /\ UNCHANGED <<table, input, pc, result, exitCode, ghosts>>

FreeText_Always == texts' = texts - 1   \* mutant: whatever the result is

(* The text goes back to the legacy code whether it was encoded or not.    *)
FreeText == texts' = IF Current.op = "text" THEN texts - 1 ELSE texts

Encoded ==
  /\ Goto("encode", "send ok")
  /\ buffer = Body(Current.op)
  /\ FreeText
  /\ UNCHANGED <<table, input, result, buffer, exitCode, accepted, ran, made,
                 refused, sent>>

EncodeFails_Leaks ==   \* mutant: the error returns before the release
  /\ Error("encode")
  /\ Len(buffer) < Len(Body(Current.op))
  /\ UNCHANGED <<table, result, ran, refused, texts>>

EncodeFails ==
  /\ Error("encode")
  /\ Len(buffer) < Len(Body(Current.op))
  /\ FreeText
  /\ UNCHANGED <<table, result, ran, refused>>

Respond ==
  /\ pc \in {"send ok", "send error"}
  /\ pc' = "header"
  /\ sent' = Append(sent,
       [of |-> Len(accepted), ok |-> pc = "send ok", body |-> buffer])
  /\ UNCHANGED <<table, input, result, buffer, exitCode, accepted, ran, made,
                 refused, texts>>

SendFails_Continues ==   \* mutant: the loop goes on
  /\ pc \in {"send ok", "send error"}
  /\ pc' = "header"
  /\ UNCHANGED <<table, input, result, buffer, exitCode, ghosts>>

(* stdout is closed or full; a part of the frame may be out.               *)
SendFails ==
  /\ Break("send ok", 2) \/ Break("send error", 2)
  /\ UNCHANGED stdin
-----------------------------------------------------------------------------
(* release_all_handles and return exit_code.                               *)
ReleaseAll ==
  /\ Goto("release", "exited")
  /\ Table!Close
  /\ UNCHANGED <<input, result, buffer, exitCode, ghosts>>

(* Fil-C stops the helper, or a signal does: nothing is released.          *)
Abort ==
  /\ pc \notin {"exited", "aborted"}
  /\ pc' = "aborted"
  /\ UNCHANGED <<table, input, result, buffer, exitCode, ghosts>>

Ended ==
  /\ pc \in {"exited", "aborted"}
  /\ UNCHANGED vars

Main ==
  \/ Eof \/ BadHeader \/ Accept
  \/ PayloadNoMemory \/ PayloadCut \/ Payload
  \/ Reject \/ UnknownObject
  \/ \E v \in Objects \cup {Null} : CallNew(v)
  \/ CallUse \/ CallText \/ Drop
  \/ Retain \/ Refuse
  \/ EncodePart \/ Encoded \/ EncodeFails
  \/ Respond \/ SendFails
  \/ ReleaseAll

Next ==
  \/ Main
  \/ \E r \in Requests : Send(r)
  \/ CloseInput
  \/ Abort
  \/ Ended

Spec == Init /\ [][Next]_vars

(* main runs on, and the legacy functions it calls return.                 *)
FairSpec == Spec /\ WF_vars(Main)
-----------------------------------------------------------------------------
TableOK ==
  /\ store \in [Table!Ids -> Objects \cup {Null}]
  /\ next \in 1 .. MaxId + 1
  /\ destroyed \in [Table!Ids -> Nat]
  /\ closed \in BOOLEAN

TypeOK ==
  /\ TableOK
  /\ stdin \in Seq(Request) /\ open \in BOOLEAN
  /\ pc \in PCs
  /\ result \in Objects \cup {Null}
  /\ buffer \in Seq(Parts)
  /\ exitCode \in {0, 2, 3}
  /\ accepted \in Seq(Request) /\ Len(accepted) <= MaxRequests
  /\ ran \in Seq(Nat)
  /\ made \in Nat /\ refused \in Nat /\ texts \in Nat
  /\ sent \in Seq(Response)

(* One response per request, in order: main reads the next header only     *)
(* after it has answered the frame before, and sends no response twice,    *)
(* whatever goes wrong in between.  The Rust side counts on this when it   *)
(* writes one request and reads one response.                              *)
OneResponseEach ==
  /\ \A i \in 1 .. Len(sent) : sent[i].of = i
  /\ IF pc = "header" THEN Len(sent) = Len(accepted)
     ELSE Len(sent) \in {Len(accepted) - 1, Len(accepted)}

(* A legacy function runs at most once for a request, and only for one     *)
(* that dispatch found nothing wrong with; a success is sent only if it    *)
(* did.  An error does not say that it did not: dispatch and encoding.     *)
RunsOnceIfValid ==
  /\ \A i, j \in 1 .. Len(ran) : i < j => ran[i] < ran[j]
  /\ \A i \in 1 .. Len(ran) : accepted[ran[i]].defect = "none"
  /\ \A i \in 1 .. Len(sent) : sent[i].ok =>
       \E j \in 1 .. Len(ran) : ran[j] = sent[i].of

(* A success carries the whole result and an error none of it: bytes that  *)
(* were encoded before buffer_append failed never reach the Rust decoder.  *)
BodiesWhole ==
  \A i \in 1 .. Len(sent) :
    IF sent[i].ok THEN sent[i].body = Body(accepted[sent[i].of].op)
    ELSE sent[i].body \in {<<"message">>, <<>>}

(* The text a function returned is back with the legacy code before its    *)
(* response goes out, when it did not fit as well, and only once.          *)
TextsReleased ==
  pc # "aborted" =>
    texts = IF pc = "encode" /\ Current.op = "text" THEN 1 ELSE 0

(* No object the constructor made is lost or destroyed twice: it is in the *)
(* table, on its way there, or has had its destructor, through the table   *)
(* or because the table refused it; and when main returns, whatever the    *)
(* exit code, none is left.                                                *)
Live == {id \in Table!Ids : store[id] # Null}
Gone == {id \in Table!Ids : destroyed[id] = 1}
InHand == IF pc = "retain" /\ result # Null THEN 1 ELSE 0

ObjectsAccounted ==
  /\ \A id \in Table!Ids : destroyed[id] <= 1
  /\ Live \cap Gone = {}
  /\ pc # "aborted" =>
       made = Cardinality(Live) + Cardinality(Gone) + refused + InHand
  /\ pc = "exited" => Live = {}

(* A helper whose input ends answers what it was sent before, or gives up  *)
(* on it, and exits: none is left behind when its parent is gone.          *)
EndsWithInput == ~open ~> pc \in {"exited", "aborted"}
=============================================================================
