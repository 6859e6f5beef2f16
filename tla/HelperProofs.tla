---------------------------- MODULE HelperProofs ----------------------------
(***************************************************************************)
(* Proofs about the helper's main loop.                                    *)
(***************************************************************************)
EXTENDS Helper, SequenceTheorems, FiniteSetTheorems, TLAPS

(* What holds at each place of main and dispatch: which frame is being     *)
(* served, what is in the buffer, and whether its function has run.        *)
Busy == {"payload", "dispatch", "retain", "encode", "send ok", "send error"}

Place ==
  /\ Len(stdin) <= 1
  /\ stdin # <<>> => Len(accepted) < MaxRequests
  /\ pc \in Busy => Len(accepted) = Len(sent) + 1
  /\ pc \in {"payload", "dispatch"} =>
       \A i \in 1 .. Len(ran) : ran[i] < Len(accepted)
  /\ pc \in {"payload", "dispatch", "retain"} => buffer = <<>>
  /\ pc \in {"retain", "encode", "send ok"} =>
       /\ Current.defect = "none"
       /\ \E j \in 1 .. Len(ran) : ran[j] = Len(accepted)
  /\ pc = "retain" => Current.op = "new"
  /\ pc = "encode" =>
       /\ Len(buffer) <= Len(Body(Current.op))
       /\ \A i \in 1 .. Len(buffer) : buffer[i] = Body(Current.op)[i]
  /\ pc = "send ok" => buffer = Body(Current.op)
  /\ pc = "send error" => buffer \in {<<"message">>, <<>>}

RanAccepted == \A i \in 1 .. Len(ran) : ran[i] \in 1 .. Len(accepted)

Inv ==
  /\ TypeOK
  /\ Place
  /\ RanAccepted
  /\ OneResponseEach
  /\ RunsOnceIfValid
  /\ BodiesWhole
  /\ TextsReleased
-----------------------------------------------------------------------------
LEMMA BodyType ==
  /\ \A op \in Ops : Body(op) \in Seq(Parts)
  /\ Body("new") = <<"id">>
  /\ Body("use") = <<"value">>
  /\ Body("text") = <<"length", "data">>
  /\ Body("drop") = <<>>
<1>1. /\ Body("new") = <<"id">>
      /\ Body("use") = <<"value">>
      /\ Body("text") = <<"length", "data">>
      /\ Body("drop") = <<>>
  BY DEF Body
<1>2. /\ <<"id">> \in Seq(Parts) /\ <<"value">> \in Seq(Parts)
      /\ <<"length", "data">> \in Seq(Parts) /\ <<>> \in Seq(Parts)
  BY DEF Parts
<1>3. \A op \in Ops : Body(op) \in Seq(Parts)
  BY <1>1, <1>2, Zenon DEF Ops
<1>4. QED
  BY <1>1, <1>3

LEMMA InitInv == Init => Inv
<1> SUFFICES ASSUME Init PROVE Inv
  OBVIOUS
<1>1. TableOK
  <2>1. /\ store = [id \in Table!Ids |-> Null] /\ next = 1
        /\ destroyed = [id \in Table!Ids |-> 0] /\ closed = FALSE
    BY DEF Init, Table!Init
  <2>2. next \in 1 .. MaxId + 1
    BY <2>1, HelperAssumption
  <2>3. QED
    BY <2>1, <2>2, Zenon DEF TableOK
<1>2. TypeOK
  <2>1. /\ stdin = <<>> /\ buffer = <<>> /\ accepted = <<>>
        /\ ran = <<>> /\ sent = <<>>
    BY DEF Init
  <2>2. /\ stdin \in Seq(Request) /\ buffer \in Seq(Parts)
        /\ accepted \in Seq(Request) /\ ran \in Seq(Nat)
        /\ sent \in Seq(Response) /\ Len(accepted) <= MaxRequests
    BY <2>1, HelperAssumption
  <2>3. QED
    BY <1>1, <2>2 DEF Init, TypeOK, PCs
<1>3. QED
  BY <1>1, <1>2 DEF Init, Inv, Place, Busy, RanAccepted, OneResponseEach,
                    RunsOnceIfValid, BodiesWhole, TextsReleased

(* The table keeps its types: every step leaves it alone or is an          *)
(* operation of HandleStore.                                               *)
LEMMA TableType ==
  ASSUME TypeOK, [Next]_vars
  PROVE  TableOK'
<1>1. CASE UNCHANGED table
  BY <1>1 DEF table, TypeOK, TableOK, Table!Ids
<1>2. CASE Table!Retain(result)
  BY <1>2, HelperAssumption DEF Table!Retain, TypeOK, TableOK, Table!Ids
<1>3. CASE Table!Refuse
  BY <1>3 DEF Table!Refuse, TypeOK, TableOK, Table!Ids
<1>4. CASE Table!Find(Current.id)
  BY <1>4 DEF Table!Find, TypeOK, TableOK, Table!Ids
<1>5. CASE Table!Discard(Current.id)
  BY <1>5 DEF Table!Discard, TypeOK, TableOK, Table!Ids
<1>6. CASE Table!DiscardUnknown(Current.id)
  BY <1>6 DEF Table!DiscardUnknown, TypeOK, TableOK, Table!Ids
<1>7. CASE Table!Close
  BY <1>7 DEF Table!Close, TypeOK, TableOK, Table!Ids
<1>8. QED
  BY <1>1, <1>2, <1>3, <1>4, <1>5, <1>6, <1>7
     DEF Next, Main, Send, CloseInput, Abort, Ended, vars, Eof, BadHeader,
         Accept, PayloadNoMemory, PayloadCut, Payload, Break, Reject,
         UnknownObject, CallNew, CallUse, CallText, Drop, Retain, Refuse,
         EncodePart, Encoded, EncodeFails, Respond, SendFails, ReleaseAll

(* free(result.ptr), where there is a text to free.                        *)
LEMMA FreedText ==
  ASSUME TextsReleased, pc = "encode", FreeText
  PROVE  texts' = 0
<1>1. CASE Current.op = "text"
  <2>1. texts = 1 /\ texts' = texts - 1
    BY <1>1 DEF FreeText, TextsReleased
  <2>2. QED
    BY <2>1
<1>2. CASE Current.op # "text"
  BY <1>2 DEF FreeText, TextsReleased
<1>3. QED
  BY <1>1, <1>2

(* The pipe holds one frame at a time.                                     *)
LEMMA LastFrame ==
  ASSUME TypeOK, Place, stdin # <<>>
  PROVE  /\ Head(stdin) \in Request
         /\ Tail(stdin) = <<>>
<1>1. stdin \in Seq(Request) /\ Len(stdin) <= 1
  BY DEF TypeOK, Place
<1>2. Len(stdin) \in Nat \ {0}
  BY <1>1, EmptySeq, Zenon
<1>3. \A n \in Nat \ {0} : n <= 1 => n = 1
  OBVIOUS
<1>4. Len(stdin) = 1
  BY <1>1, <1>2, <1>3, Zenon
<1>5. Head(stdin) \in Request /\ Tail(stdin) \in Seq(Request)
  BY <1>1, <1>4
<1>6. Len(Tail(stdin)) = 0
  BY <1>1, <1>4
<1>7. QED
  BY <1>5, <1>6, EmptySeq
-----------------------------------------------------------------------------
(* The program's steps.                                                    *)
LEMMA StepInv ==
  ASSUME Inv, [Next]_vars
  PROVE  Inv'
<1> USE DEF Inv
<1>0. TableOK'
  BY TableType
<1>1. ASSUME NEW r \in Requests, Send(r) PROVE Inv'
  <2>1. r \in Request
    BY Zenon DEF Requests
  <2>2. stdin' = <<r>> /\ open' \in BOOLEAN
    BY <1>1 DEF Send
  <2>3. stdin' \in Seq(Request) /\ Len(stdin') = 1
    BY <2>1, <2>2
  <2>4. /\ Len(accepted) < MaxRequests
        /\ pc' = pc /\ result' = result /\ buffer' = buffer
        /\ exitCode' = exitCode /\ accepted' = accepted /\ ran' = ran
        /\ made' = made /\ refused' = refused /\ texts' = texts
        /\ sent' = sent
    BY <1>1 DEF Send, ghosts
  <2>5. TypeOK'
    BY <1>0, <2>2, <2>3, <2>4 DEF TypeOK
  <2>6. Place'
    <3>1. Current' = Current
      BY <2>4 DEF Current
    <3>2. Len(stdin') <= 1 /\ Len(accepted') < MaxRequests
      BY <2>3, <2>4
    <3>3. QED
      BY <2>4, <3>1, <3>2, Zenon DEF Place, Busy
  <2>7. QED
    BY <2>4, <2>5, <2>6 DEF RanAccepted, OneResponseEach, RunsOnceIfValid,
                            BodiesWhole, TextsReleased, Current
<1>2. CASE CloseInput
  BY <1>0, <1>2 DEF CloseInput, ghosts, TypeOK, Place, Busy, RanAccepted,
       OneResponseEach, RunsOnceIfValid, BodiesWhole, TextsReleased, Current
<1>3. CASE Abort
  BY <1>0, <1>3 DEF Abort, ghosts, input, TypeOK, PCs, Place, Busy, RanAccepted,
       OneResponseEach, RunsOnceIfValid, BodiesWhole, TextsReleased, Current
<1>4. CASE UNCHANGED vars
  BY <1>0, <1>4 DEF vars, ghosts, input, TypeOK, Place, Busy, RanAccepted,
       OneResponseEach, RunsOnceIfValid, BodiesWhole, TextsReleased, Current
<1>5. ASSUME NEW from \in {"header", "payload", "send ok", "send error"},
             NEW code \in {0, 2, 3}, Break(from, code),
             stdin' \in Seq(Request), Len(stdin') <= 1,
             stdin' # <<>> => Len(accepted) < MaxRequests
      PROVE  Inv'
  <2>1. /\ pc = from /\ pc' = "release" /\ exitCode' = code
        /\ open' = open /\ result' = result /\ buffer' = buffer
        /\ accepted' = accepted /\ ran' = ran
        /\ made' = made /\ refused' = refused /\ texts' = texts
        /\ sent' = sent
    BY <1>5 DEF Break, Goto, ghosts
  <2>2. TypeOK'
    BY <1>0, <1>5, <2>1 DEF TypeOK, PCs
  <2>3. Place'
    BY <1>5, <2>1 DEF Place, Busy
  <2>4. OneResponseEach' /\ TextsReleased'
    BY <1>5, <2>1 DEF OneResponseEach, TextsReleased, Place, Busy, TypeOK
  <2>5. QED
    BY <2>1, <2>2, <2>3, <2>4 DEF RanAccepted, RunsOnceIfValid, BodiesWhole
<1>6. CASE Accept
  <2>1. /\ stdin \in Seq(Request) /\ stdin # <<>>
        /\ accepted \in Seq(Request)
        /\ accepted' = Append(accepted, Head(stdin))
        /\ stdin' = Tail(stdin) /\ Len(stdin) <= 1
    BY <1>6 DEF Accept, TypeOK, Place
  <2>2. /\ Head(stdin) \in Request /\ stdin' = <<>>
        /\ stdin' \in Seq(Request)
    BY <2>1, LastFrame
  <2>3. /\ accepted' \in Seq(Request)
        /\ Len(accepted') = Len(accepted) + 1
        /\ \A i \in 1 .. Len(accepted) : accepted'[i] = accepted[i]
    BY <2>1, <2>2
  <2>4. /\ pc = "header" /\ pc' = "payload" /\ buffer' = <<>>
        /\ result' = Null /\ ran' = ran /\ sent' = sent
        /\ open' = open /\ exitCode' = exitCode /\ made' = made
        /\ refused' = refused /\ texts' = texts
    BY <1>6 DEF Accept, Goto
  <2>5. TypeOK'
    <3>1. Len(accepted) < MaxRequests
      BY <2>1 DEF Place
    <3>2. Len(accepted') <= MaxRequests /\ buffer' \in Seq(Parts)
      BY <2>1, <2>3, <2>4, <3>1, HelperAssumption
    <3>3. QED
      BY <1>0, <2>2, <2>3, <2>4, <3>2 DEF TypeOK, PCs
  <2>6. Place' /\ RanAccepted'
    BY <2>2, <2>3, <2>4 DEF TypeOK, Place, Busy, RanAccepted, OneResponseEach
  <2>7. OneResponseEach' /\ TextsReleased'
    BY <2>3, <2>4 DEF TypeOK, OneResponseEach, TextsReleased
  <2>8. RunsOnceIfValid'
    BY <2>3, <2>4 DEF RunsOnceIfValid, RanAccepted
  <2>9. BodiesWhole'
    BY <2>3, <2>4 DEF TypeOK, BodiesWhole, OneResponseEach
  <2>10. QED
    BY <2>5, <2>6, <2>7, <2>8, <2>9
<1>7. CASE Payload
  BY <1>0, <1>7 DEF Payload, Goto, ghosts, input, TypeOK, PCs, Place, Busy,
       RanAccepted,
       OneResponseEach, RunsOnceIfValid, BodiesWhole, TextsReleased, Current
<1>8. CASE ReleaseAll
  BY <1>0, <1>8 DEF ReleaseAll, Goto, ghosts, input, TypeOK, PCs, Place, Busy,
       RanAccepted,
       OneResponseEach, RunsOnceIfValid, BodiesWhole, TextsReleased, Current
<1>9. ASSUME NEW from \in {"dispatch", "retain", "encode"}, Error(from),
             sent' = sent, result' = result, refused' \in Nat,
             ran' = ran, texts' \in Nat, texts' = 0
      PROVE  Inv'
  <2>1. /\ pc = from /\ pc' = "send error"
        /\ buffer' \in {<<"message">>, <<>>}
        /\ stdin' = stdin /\ open' = open /\ exitCode' = exitCode
        /\ accepted' = accepted /\ made' = made
    BY <1>9 DEF Error, Goto, input
  <2>2. buffer' \in Seq(Parts)
    <3>1. <<"message">> \in Seq(Parts) /\ <<>> \in Seq(Parts)
      BY DEF Parts
    <3>2. QED
      BY <2>1, <3>1
  <2>3. TypeOK'
    BY <1>0, <1>9, <2>1, <2>2 DEF TypeOK, PCs
  <2>4. Place'
    BY <1>9, <2>1 DEF Place, Busy
  <2>5. OneResponseEach' /\ TextsReleased'
    BY <1>9, <2>1 DEF OneResponseEach, TextsReleased
  <2>6. QED
    BY <1>9, <2>1, <2>3, <2>4, <2>5
       DEF RanAccepted, RunsOnceIfValid, BodiesWhole
<1>10. ASSUME NEW op \in Ops, Runs(op), pc = "dispatch",
              pc' \in {"retain", "encode", "send ok"},
              pc' = "retain" <=> op = "new",
              pc' = "send ok" <=> op = "drop",
              buffer' = buffer, sent' = sent, result' \in Objects \cup {Null},
              made' \in Nat,
              op = "text" => texts' = texts + 1,
              op # "text" => texts' = texts
       PROVE  Inv'
  <2>1. /\ ran' = Append(ran, Len(accepted))
        /\ stdin' = stdin /\ open' = open /\ exitCode' = exitCode
        /\ accepted' = accepted /\ refused' = refused
        /\ Current.op = op /\ Current.defect = "none"
    BY <1>10 DEF Runs, input
  <2>2. /\ accepted \in Seq(Request) /\ ran \in Seq(Nat)
        /\ Len(accepted) \in Nat /\ texts \in Nat
    BY DEF TypeOK
  <2>3. /\ ran' \in Seq(Nat) /\ Len(ran') = Len(ran) + 1
        /\ Len(ran) \in Nat
        /\ \A i \in 1 .. Len(ran) : ran'[i] = ran[i]
        /\ ran'[Len(ran) + 1] = Len(accepted)
    BY <2>1, <2>2
  <2>4. Len(accepted) = Len(sent) + 1 /\ buffer = <<>>
    BY <1>10 DEF Place, Busy
  <2>5. sent \in Seq(Response) /\ Len(sent) \in Nat
    BY DEF TypeOK
  <2>6. TypeOK'
    <3>1. texts' \in Nat
      <4>1. texts' \in {texts, texts + 1}
        BY <1>10, Zenon
      <4>2. texts \in Nat /\ texts + 1 \in Nat
        BY <2>2
      <4>3. QED
        BY <4>1, <4>2, Zenon
    <3>2. pc' \in PCs
      BY <1>10 DEF PCs
    <3>3. QED
      BY <1>0, <1>10, <2>1, <2>3, <3>1, <3>2, Zenon DEF TypeOK
  <2>7. Current' = Current
    BY <2>1 DEF Current
  <2>8. \E j \in 1 .. Len(ran') : ran'[j] = Len(accepted')
    BY <2>1, <2>2, <2>3
  <2>9. Place'
    <3>1. buffer' = <<>> /\ Len(buffer') = 0
      BY <1>10, <2>4
    <3>2. Len(Body(Current.op)) \in Nat
      <4>1. Body(Current.op) \in Seq(Parts)
        BY <2>1, BodyType, Zenon
      <4>2. QED
        BY <4>1
    <3>3. Len(stdin') <= 1 /\ (stdin' # <<>> => Len(accepted') < MaxRequests)
      BY <2>1 DEF Place
    <3>4. /\ Len(buffer') <= Len(Body(Current'.op))
          /\ \A i \in 1 .. Len(buffer') : buffer'[i] = Body(Current'.op)[i]
      BY <2>7, <3>1, <3>2
    <3>5. pc' = "send ok" => buffer' = Body(Current'.op)
      BY <1>10, <2>1, <2>7, <3>1, BodyType
    <3>6. pc' = "retain" => Current'.op = "new"
      BY <1>10, <2>1, <2>7
    <3>7. pc' \notin {"payload", "dispatch", "send error"}
      BY <1>10
    <3>8. QED
      BY <1>10, <2>1, <2>4, <2>7, <2>8, <3>1, <3>3, <3>4, <3>5, <3>6, <3>7,
         Zenon DEF Place
  <2>10. OneResponseEach'
    BY <1>10, <2>1, <2>4, <2>5 DEF OneResponseEach
  <2>11. RanAccepted'
    BY <2>1, <2>2, <2>3, <2>4, <2>5 DEF RanAccepted
  <2>12. RunsOnceIfValid'
    <3>1. \A i, j \in 1 .. Len(ran') : i < j => ran'[i] < ran'[j]
      <4>1. /\ \A i \in 1 .. Len(ran) : ran[i] < Len(accepted)
            /\ \A i, j \in 1 .. Len(ran) : i < j => ran[i] < ran[j]
        BY <1>10 DEF Place, RunsOnceIfValid
      <4>2. SUFFICES ASSUME NEW i \in 1 .. Len(ran'), NEW j \in 1 .. Len(ran'),
                            i < j
                     PROVE  ran'[i] < ran'[j]
        OBVIOUS
      <4>3. i \in 1 .. Len(ran)
        BY <2>3, <4>2
      <4>4. CASE j \in 1 .. Len(ran)
        BY <2>3, <4>1, <4>2, <4>3, <4>4
      <4>5. CASE j = Len(ran) + 1
        BY <2>3, <4>1, <4>3, <4>5
      <4>6. QED
        BY <2>3, <4>4, <4>5
    <3>2. \A i \in 1 .. Len(ran') : accepted'[ran'[i]].defect = "none"
      BY <2>1, <2>2, <2>3 DEF RunsOnceIfValid, Current
    <3>3. \A i \in 1 .. Len(sent') : sent'[i].ok =>
            \E j \in 1 .. Len(ran') : ran'[j] = sent'[i].of
      <4>1. sent' = sent
        BY <1>10
      <4>2. QED
        BY <2>3, <4>1 DEF RunsOnceIfValid
    <3>4. QED
      BY <3>1, <3>2, <3>3 DEF RunsOnceIfValid
  <2>13. BodiesWhole'
    BY <1>10, <2>1 DEF BodiesWhole
  <2>14. TextsReleased'
    <3>1. texts = 0
      BY <1>10 DEF TextsReleased
    <3>2. Current'.op = op
      BY <2>1, <2>7
    <3>3. CASE op = "text"
      <4>1. texts' = 1 /\ pc' = "encode"
        <5>1. texts' = texts + 1 /\ pc' # "retain" /\ pc' # "send ok"
          BY <1>10, <3>3, Zenon
        <5>2. texts' = 1
          <6>1. \A n : n = 0 => n + 1 = 1
            OBVIOUS
          <6>2. QED
            BY <3>1, <5>1, <6>1, Zenon
        <5>3. QED
          BY <1>10, <5>1, <5>2, Zenon
      <4>2. QED
        BY <3>2, <3>3, <4>1 DEF TextsReleased
    <3>4. CASE op # "text"
      BY <1>10, <3>1, <3>2, <3>4 DEF TextsReleased
    <3>5. QED
      BY <3>3, <3>4
  <2>15. QED
    BY <2>6, <2>9, <2>10, <2>11, <2>12, <2>13, <2>14
<1>11. CASE Retain
  <2>1. /\ pc = "retain" /\ pc' = "encode"
        /\ stdin' = stdin /\ open' = open /\ result' = result
        /\ buffer' = buffer /\ exitCode' = exitCode
        /\ accepted' = accepted /\ ran' = ran /\ made' = made
        /\ refused' = refused /\ texts' = texts /\ sent' = sent
    BY <1>11 DEF Retain, Goto, input, ghosts
  <2>2. Current' = Current /\ Current.op = "new" /\ buffer = <<>>
    BY <2>1 DEF Current, Place
  <2>3. TypeOK'
    BY <1>0, <2>1 DEF TypeOK, PCs
  <2>4. /\ Len(buffer) <= Len(Body(Current.op))
        /\ \A i \in 1 .. Len(buffer) : buffer[i] = Body(Current.op)[i]
    BY <2>2, BodyType
  <2>5. Place'
    BY <2>1, <2>2, <2>4, Zenon DEF Place, Busy
  <2>6. OneResponseEach' /\ TextsReleased'
    BY <2>1, <2>2 DEF OneResponseEach, TextsReleased
  <2>7. QED
    BY <2>1, <2>3, <2>5, <2>6 DEF RanAccepted, RunsOnceIfValid, BodiesWhole
<1>12. CASE EncodePart
  <2>1. /\ pc = "encode" /\ pc' = pc
        /\ stdin' = stdin /\ open' = open /\ result' = result
        /\ buffer' = Append(buffer, Body(Current.op)[Len(buffer) + 1])
        /\ exitCode' = exitCode
        /\ accepted' = accepted /\ ran' = ran /\ made' = made
        /\ refused' = refused /\ texts' = texts /\ sent' = sent
        /\ Len(buffer) < Len(Body(Current.op))
    BY <1>12 DEF EncodePart, input, ghosts
  <2>2. Current' = Current
    BY <2>1 DEF Current
  <2>3. Body(Current.op) \in Seq(Parts) /\ buffer \in Seq(Parts)
    <3>1. accepted \in Seq(Request) /\ Len(accepted) \in 1 .. Len(accepted)
      BY <2>1 DEF TypeOK, Place, Busy
    <3>2. Current \in Request
      BY <3>1 DEF Current
    <3>3. Current.op \in Ops
      BY <3>2 DEF Request
    <3>4. QED
      BY <3>3, BodyType DEF TypeOK
  <2>4. \A i \in 1 .. Len(buffer) : buffer[i] = Body(Current.op)[i]
    BY <2>1 DEF Place
  <2>5. /\ buffer' \in Seq(Parts)
        /\ Len(buffer') <= Len(Body(Current.op))
        /\ \A i \in 1 .. Len(buffer') : buffer'[i] = Body(Current.op)[i]
    <3> DEFINE b == Body(Current.op)
    <3>1. /\ b \in Seq(Parts) /\ buffer \in Seq(Parts) /\ Len(buffer) < Len(b)
          /\ buffer' = Append(buffer, b[Len(buffer) + 1])
          /\ \A i \in 1 .. Len(buffer) : buffer[i] = b[i]
      BY <2>1, <2>3, <2>4
    <3> HIDE DEF b
    <3>2. b[Len(buffer) + 1] \in Parts
      BY <3>1
    <3>3. /\ buffer' \in Seq(Parts)
          /\ Len(buffer') <= Len(b)
          /\ \A i \in 1 .. Len(buffer') : buffer'[i] = b[i]
      BY <3>1, <3>2
    <3>4. QED
      BY <3>3 DEF b
  <2>6. TypeOK'
    BY <1>0, <2>1, <2>5 DEF TypeOK
  <2>7. Place'
    BY <2>1, <2>2, <2>5, Zenon DEF Place, Busy
  <2>8. OneResponseEach' /\ TextsReleased'
    BY <2>1, <2>2 DEF OneResponseEach, TextsReleased
  <2>9. QED
    BY <2>1, <2>6, <2>7, <2>8 DEF RanAccepted, RunsOnceIfValid, BodiesWhole
<1>13. CASE Encoded
  <2>1. /\ pc = "encode" /\ pc' = "send ok"
        /\ stdin' = stdin /\ open' = open /\ result' = result
        /\ buffer' = buffer /\ exitCode' = exitCode
        /\ accepted' = accepted /\ ran' = ran /\ made' = made
        /\ refused' = refused /\ sent' = sent
        /\ buffer = Body(Current.op)
    BY <1>13 DEF Encoded, Goto, input
  <2>2. texts' = 0
    BY <1>13, <2>1, FreedText DEF Encoded
  <2>3. Current' = Current
    BY <2>1 DEF Current
  <2>4. TypeOK'
    BY <1>0, <2>1, <2>2 DEF TypeOK, PCs
  <2>5. Place'
    BY <2>1, <2>3, Zenon DEF Place, Busy
  <2>6. OneResponseEach' /\ TextsReleased'
    BY <2>1, <2>2 DEF OneResponseEach, TextsReleased
  <2>7. QED
    BY <2>1, <2>4, <2>5, <2>6 DEF RanAccepted, RunsOnceIfValid, BodiesWhole
<1>14. CASE Respond
  <2> DEFINE r == [of |-> Len(accepted), ok |-> pc = "send ok",
                   body |-> buffer]
  <2>1. /\ pc \in {"send ok", "send error"} /\ pc' = "header"
        /\ stdin' = stdin /\ open' = open /\ result' = result
        /\ buffer' = buffer /\ exitCode' = exitCode
        /\ accepted' = accepted /\ ran' = ran /\ made' = made
        /\ refused' = refused /\ texts' = texts
        /\ sent' = Append(sent, r)
    BY <1>14 DEF Respond, input
  <2>2. /\ accepted \in Seq(Request) /\ sent \in Seq(Response)
        /\ Len(accepted) = Len(sent) + 1
    BY <2>1 DEF TypeOK, Place, Busy
  <2>3. r \in Response
    BY <2>2 DEF Response, TypeOK
  <2>4. /\ r.of = Len(accepted)
        /\ r.ok <=> pc = "send ok"
        /\ r.body = buffer
    OBVIOUS
  <2> HIDE DEF r
  <2>5. /\ sent' \in Seq(Response) /\ Len(sent') = Len(sent) + 1
        /\ \A i \in 1 .. Len(sent) : sent'[i] = sent[i]
        /\ sent'[Len(sent) + 1] = r
    <3>1. /\ Append(sent, r) \in Seq(Response)
          /\ Len(Append(sent, r)) = Len(sent) + 1
          /\ \A i \in 1 .. Len(sent) : Append(sent, r)[i] = sent[i]
          /\ Append(sent, r)[Len(sent) + 1] = r
      BY <2>2, <2>3, AppendProperties
    <3>2. QED
      BY <2>1, <3>1, Zenon
  <2>6. TypeOK'
    BY <1>0, <2>1, <2>5 DEF TypeOK, PCs
  <2>7. Place'
    BY <2>1 DEF Place, Busy
  <2>8. OneResponseEach'
    <3>1. Len(sent) \in Nat /\ r.of = Len(sent) + 1
      <4>1. r.of = Len(sent) + 1
        BY <2>2, <2>4, Zenon
      <4>2. QED
        BY <2>2, <4>1
    <3>2. /\ \A i \in 1 .. Len(sent') : sent'[i].of = i
          /\ Len(sent') = Len(accepted)
      BY <2>2, <2>5, <3>1 DEF OneResponseEach
    <3>3. QED
      BY <2>1, <3>2, Zenon DEF OneResponseEach
  <2>9. TextsReleased'
    BY <2>1 DEF TextsReleased
  <2>10. RunsOnceIfValid'
    <3>1. r.ok => \E j \in 1 .. Len(ran) : ran[j] = r.of
      BY <2>1, <2>4 DEF Place
    <3>2. \A i \in 1 .. Len(sent') : sent'[i].ok =>
            \E j \in 1 .. Len(ran) : ran[j] = sent'[i].of
      BY <2>2, <2>5, <3>1 DEF RunsOnceIfValid
    <3>3. QED
      BY <2>1, <3>2, Zenon DEF RunsOnceIfValid
  <2>11. BodiesWhole'
    <3>1. IF r.ok THEN r.body = Body(accepted[r.of].op)
          ELSE r.body \in {<<"message">>, <<>>}
      BY <2>1, <2>4 DEF Place, Current
    <3>2. SUFFICES ASSUME NEW i \in 1 .. Len(sent')
                   PROVE  IF sent'[i].ok
                          THEN sent'[i].body = Body(accepted[sent'[i].of].op)
                          ELSE sent'[i].body \in {<<"message">>, <<>>}
      BY <2>1 DEF BodiesWhole
    <3>3. CASE i \in 1 .. Len(sent)
      BY <2>5, <3>3 DEF BodiesWhole
    <3>4. CASE i = Len(sent) + 1
      BY <2>5, <3>1, <3>4
    <3>5. QED
      BY <2>2, <2>5, <3>3, <3>4
  <2>12. QED
    BY <2>1, <2>6, <2>7, <2>8, <2>9, <2>10, <2>11 DEF RanAccepted
<1>15. CASE Main
  <2>1. CASE Eof
    BY <1>5, <2>1 DEF Eof, Place, TypeOK
  <2>2. CASE PayloadNoMemory
    BY <1>5, <2>2 DEF PayloadNoMemory, Place, TypeOK
  <2>3. CASE PayloadCut
    BY <1>5, <2>3 DEF PayloadCut, Place, TypeOK
  <2>4. CASE SendFails
    BY <1>5, <2>4 DEF SendFails, Place, TypeOK
  <2>5. CASE BadHeader
    <3>1. stdin' = <<>>
      BY <2>5, LastFrame DEF BadHeader
    <3>2. /\ Len(stdin') <= 1 /\ stdin' \in Seq(Request)
          /\ stdin' # <<>> => Len(accepted) < MaxRequests
      BY <3>1
    <3>3. Break("header", 2)
      BY <2>5 DEF BadHeader
    <3>4. QED
      BY <1>5, <3>2, <3>3
  <2>6. CASE Reject
    <3>1. pc = "dispatch" /\ texts' = texts
      BY <2>6 DEF Reject, Error, Goto
    <3>2. texts' = 0
      BY <3>1 DEF TextsReleased
    <3>3. QED
      BY <1>9, <2>6, <3>2 DEF Reject, Error, TypeOK
  <2>7. CASE UnknownObject
    <3>1. pc = "dispatch" /\ texts' = texts
      BY <2>7 DEF UnknownObject, Error, Goto
    <3>2. texts' = 0
      BY <3>1 DEF TextsReleased
    <3>3. QED
      BY <1>9, <2>7, <3>2 DEF UnknownObject, Error, TypeOK
  <2>8. CASE Refuse
    <3>1. pc = "retain" /\ texts' = texts
      BY <2>8 DEF Refuse, Error, Goto
    <3>2. texts' = 0 /\ refused' \in Nat
      BY <2>8, <3>1 DEF TextsReleased, Refuse, TypeOK
    <3>3. /\ Error("retain") /\ sent' = sent /\ result' = result
          /\ ran' = ran
      BY <2>8 DEF Refuse, Error
    <3>4. QED
      BY <1>9, <3>1, <3>2, <3>3
  <2>9. CASE EncodeFails
    <3>1. pc = "encode" /\ FreeText
      BY <2>9 DEF EncodeFails, Error, Goto
    <3>2. texts' = 0
      BY <3>1, FreedText
    <3>3. QED
      BY <1>9, <2>9, <3>2 DEF EncodeFails, Error, TypeOK
  <2>10. ASSUME NEW v \in Objects \cup {Null}, CallNew(v) PROVE Inv'
    <3>1. /\ pc = "dispatch" /\ pc' = "retain" /\ Runs("new")
          /\ result' = v /\ buffer' = buffer /\ texts' = texts /\ sent' = sent
          /\ made' \in Nat
      BY <2>10 DEF CallNew, Goto, Runs, TypeOK
    <3>2. QED
      BY <1>10, <2>10, <3>1 DEF Ops
  <2>11. CASE CallUse
    <3>1. /\ pc = "dispatch" /\ pc' = "encode" /\ Runs("use")
          /\ result' = result /\ buffer' = buffer /\ texts' = texts
          /\ sent' = sent /\ made' = made
      BY <2>11 DEF CallUse, Goto, Runs
    <3>2. QED
      BY <1>10, <3>1 DEF Ops, TypeOK
  <2>12. CASE CallText
    <3>1. /\ pc = "dispatch" /\ pc' = "encode" /\ Runs("text")
          /\ result' = result /\ buffer' = buffer /\ texts' = texts + 1
          /\ sent' = sent /\ made' = made
      BY <2>12 DEF CallText, Goto, Runs
    <3>2. QED
      BY <1>10, <3>1 DEF Ops, TypeOK
  <2>13. CASE Drop
    <3>1. /\ pc = "dispatch" /\ pc' = "send ok" /\ Runs("drop")
          /\ result' = result /\ buffer' = buffer /\ texts' = texts
          /\ sent' = sent /\ made' = made
      BY <2>13 DEF Drop, Goto, Runs
    <3>2. QED
      BY <1>10, <3>1 DEF Ops, TypeOK
  <2>14. CASE ReleaseAll
    BY <1>8, <2>14
  <2>15. QED
    BY <1>6, <1>7, <1>11, <1>12, <1>13, <1>14, <1>15, <2>1, <2>2, <2>3, <2>4,
       <2>5, <2>6, <2>7, <2>8, <2>9, <2>10, <2>11, <2>12, <2>13, <2>14
       DEF Main
<1>16. QED
  BY <1>1, <1>2, <1>3, <1>4, <1>15 DEF Next, Ended
-----------------------------------------------------------------------------
THEOREM Invariance == Spec => []Inv
<1>1. Init => Inv
  BY InitInv
<1>2. Inv /\ [Next]_vars => Inv'
  BY StepInv
<1>3. QED
  BY <1>1, <1>2, PTL DEF Spec

(* The main loop, its buffer, its table and its counts keep their types.   *)
THEOREM TypeCorrect == Spec => []TypeOK
<1>1. Inv => TypeOK
  BY DEF Inv
<1>2. QED
  BY <1>1, Invariance, PTL

(* Every request whose header was accepted is answered once and in order   *)
(* before the next header is read, unless the loop was left (main).        *)
THEOREM OneResponsePerRequest == Spec => []OneResponseEach
<1>1. Inv => OneResponseEach
  BY DEF Inv
<1>2. QED
  BY <1>1, Invariance, PTL

(* A legacy function runs at most once for a request, only for one without *)
(* a defect, and did run if a success is reported (dispatch).              *)
THEOREM RunsOnce == Spec => []RunsOnceIfValid
<1>1. Inv => RunsOnceIfValid
  BY DEF Inv
<1>2. QED
  BY <1>1, Invariance, PTL

(* A success carries its whole result, and no byte of a result that could  *)
(* not be encoded reaches the Rust side (buffer_error).                    *)
THEOREM NoPartialResults == Spec => []BodiesWhole
<1>1. Inv => BodiesWhole
  BY DEF Inv
<1>2. QED
  BY <1>1, Invariance, PTL

(* A text that a function returned is released before its response is      *)
(* sent, once, whether it could be encoded or not (dispatch).              *)
THEOREM TextsAreReleased == Spec => []TextsReleased
<1>1. Inv => TextsReleased
  BY DEF Inv
<1>2. QED
  BY <1>1, Invariance, PTL

-----------------------------------------------------------------------------
(* The sum of Account.                                                     *)
Balanced(m, l, g, r, h) == m = l + g + r + h

LEMMA Balances ==
  \A m, l, g, r \in Nat :
    /\ Balanced(m, l, g, r, 0) => Balanced(m + 1, l, g, r, 1)
    /\ Balanced(m, l, g, r, 1) => Balanced(m, l, g, r + 1, 0)
    /\ Balanced(m, l, g, r, 1) => Balanced(m, l + 1, g, r, 0)
    /\ Balanced(m, l, g, r, 0) /\ l > 0 => Balanced(m, l - 1, g + 1, r, 0)
    /\ Balanced(m, l, g, r, 0) => Balanced(m, 0, g + l, r, 0)
BY DEF Balanced

(* Objects are counted: ids not yet issued have neither an object nor a    *)
(* destructor call, so that Live and Gone grow one id at a time.           *)
Account ==
  /\ \A id \in Table!Ids :
       /\ destroyed[id] <= 1
       /\ store[id] # Null => destroyed[id] = 0
       /\ id >= next => store[id] = Null /\ destroyed[id] = 0
  /\ pc = "exited" => closed
  /\ closed => Live = {}
  /\ pc # "aborted" =>
       Balanced(made, Cardinality(Live), Cardinality(Gone), refused, InHand)

LEMMA LiveAndGone ==
  /\ Live \subseteq Table!Ids /\ Gone \subseteq Table!Ids
  /\ IsFiniteSet(Live) /\ IsFiniteSet(Gone)
  /\ Cardinality(Live) \in Nat /\ Cardinality(Gone) \in Nat
<1>1. Live \subseteq Table!Ids /\ Gone \subseteq Table!Ids
  BY DEF Live, Gone
<1>2. IsFiniteSet(Table!Ids)
  <2>1. 1 \in Int /\ MaxId \in Int
    BY HelperAssumption
  <2>2. QED
    BY <2>1, FS_Interval DEF Table!Ids
<1>3. IsFiniteSet(Live) /\ IsFiniteSet(Gone)
  BY <1>1, <1>2, FS_Subset
<1>4. QED
  BY <1>1, <1>3, FS_CardinalityType

LEMMA AccountInit == Init => Account
<1> SUFFICES ASSUME Init PROVE Account
  OBVIOUS
<1>1. /\ store = [id \in Table!Ids |-> Null] /\ closed = FALSE
      /\ destroyed = [id \in Table!Ids |-> 0]
      /\ made = 0 /\ refused = 0 /\ pc = "header"
  BY DEF Init, Table!Init
<1>2. Live = {} /\ Gone = {}
  BY <1>1 DEF Live, Gone
<1>3. Cardinality(Live) = 0 /\ Cardinality(Gone) = 0
  BY <1>2, FS_EmptySet
<1>4. InHand = 0
  BY <1>1 DEF InHand
<1>5. QED
  BY <1>1, <1>2, <1>3, <1>4 DEF Account, Balanced

(* A step that leaves the table and the counts alone.                      *)
LEMMA AccountKept ==
  ASSUME Account, UNCHANGED <<store, next, destroyed, closed>>,
         pc' = "exited" => pc = "exited", made \in Nat, refused \in Nat,
         \/ pc' = "aborted"
         \/ pc # "aborted" /\ UNCHANGED <<made, refused, InHand>>
         \/ /\ pc # "aborted" /\ InHand = 0 /\ InHand' = 1
            /\ made' = made + 1 /\ UNCHANGED refused
         \/ /\ pc # "aborted" /\ InHand = 1 /\ InHand' = 0
            /\ refused' = refused + 1 /\ UNCHANGED made
  PROVE  Account'
<1>1. Live' = Live /\ Gone' = Gone
  BY DEF Live, Gone
<1> DEFINE l == Cardinality(Live)
           g == Cardinality(Gone)
<1>2. l \in Nat /\ g \in Nat
  BY LiveAndGone
<1>3. Cardinality(Live') = l /\ Cardinality(Gone') = g
  BY <1>1
<1>4. pc # "aborted" => Balanced(made, l, g, refused, InHand)
  BY DEF Account
<1> HIDE DEF l, g
<1>5. pc' # "aborted" => Balanced(made', l, g, refused', InHand')
  BY <1>2, <1>4, Balances
<1>6. QED
  BY <1>1, <1>3, <1>5 DEF Account

LEMMA AccountRetain ==
  ASSUME TypeOK, Account, Retain
  PROVE  Account'
<1>1. /\ pc = "retain" /\ pc' = "encode" /\ result # Null /\ ~closed /\ ~closed'
      /\ next \in Table!Ids /\ next' = next + 1
      /\ store' = [store EXCEPT ![next] = result]
      /\ UNCHANGED <<destroyed, made, refused>>
  BY DEF Retain, Goto, Table!Retain, ghosts
<1>2. /\ store \in [Table!Ids -> Objects \cup {Null}] /\ next \in Nat
      /\ destroyed \in [Table!Ids -> Nat] /\ Table!Ids \subseteq Nat
      /\ made \in Nat /\ refused \in Nat
  BY HelperAssumption DEF TypeOK, TableOK, Table!Ids
<1>3. store[next] = Null /\ destroyed[next] = 0
  BY <1>1, <1>2 DEF Account
<1>4. \A id \in Table!Ids : store'[id] = IF id = next THEN result ELSE store[id]
  BY <1>1, <1>2
<1>5. Live' = Live \cup {next}
  BY <1>1, <1>4 DEF Live
<1>6. next \notin Live
  BY <1>3 DEF Live
<1>7. Gone' = Gone
  BY <1>1 DEF Gone
<1>8. /\ Cardinality(Live)' = Cardinality(Live) + 1
      /\ Cardinality(Gone)' = Cardinality(Gone)
  BY <1>5, <1>6, <1>7, LiveAndGone, FS_AddElement
<1>9. InHand = 1 /\ InHand' = 0
  BY <1>1 DEF InHand
<1>10. Balanced(made', Cardinality(Live)', Cardinality(Gone)', refused', InHand')
  <2> DEFINE l == Cardinality(Live)
             g == Cardinality(Gone)
  <2>1. l \in Nat /\ g \in Nat
    BY LiveAndGone
  <2>2. Cardinality(Live)' = l + 1 /\ Cardinality(Gone)' = g
    BY <1>8
  <2>3. Balanced(made, l, g, refused, InHand)
    BY <1>1 DEF Account
  <2> HIDE DEF l, g
  <2>4. Balanced(made', l + 1, g, refused', InHand')
    BY <1>1, <1>2, <1>9, <2>1, <2>3, Balances
  <2>5. QED
    BY <2>2, <2>4
<1>11. ASSUME NEW id \in Table!Ids
       PROVE  /\ destroyed'[id] <= 1
              /\ store'[id] # Null => destroyed'[id] = 0
              /\ id >= next' => store'[id] = Null /\ destroyed'[id] = 0
  BY <1>1, <1>2, <1>3, <1>4 DEF Account
<1>12. QED
  BY <1>1, <1>10, <1>11 DEF Account

LEMMA AccountDrop ==
  ASSUME TypeOK, Account, Drop
  PROVE  Account'
<1> DEFINE x == Current.id
<1>1. /\ pc = "dispatch" /\ pc' = "send ok" /\ ~closed /\ ~closed'
      /\ x \in Table!Ids /\ store[x] # Null
      /\ store' = [store EXCEPT ![x] = Null]
      /\ destroyed' = [destroyed EXCEPT ![x] = @ + 1]
      /\ UNCHANGED <<next, made, refused>>
  BY DEF Drop, Goto, Runs, Table!Discard
<1> HIDE DEF x
<1>2. /\ store \in [Table!Ids -> Objects \cup {Null}] /\ next \in Nat
      /\ destroyed \in [Table!Ids -> Nat] /\ Table!Ids \subseteq Nat
      /\ made \in Nat /\ refused \in Nat
  BY HelperAssumption DEF TypeOK, TableOK, Table!Ids
<1>3. destroyed[x] = 0 /\ ~(x >= next)
  BY <1>1 DEF Account
<1>4. \A id \in Table!Ids :
        /\ store'[id] = IF id = x THEN Null ELSE store[id]
        /\ destroyed'[id] = IF id = x THEN 1 ELSE destroyed[id]
  <2>1. \A id \in Table!Ids : store'[id] = IF id = x THEN Null ELSE store[id]
    BY <1>1, <1>2
  <2>2. \A id \in Table!Ids :
          destroyed'[id] = IF id = x THEN destroyed[x] + 1 ELSE destroyed[id]
    BY <1>1, <1>2
  <2>3. destroyed[x] + 1 = 1
    BY <1>3
  <2>4. QED
    BY <2>1, <2>2, <2>3
<1>5. Live' = Live \ {x} /\ x \in Live
  BY <1>1, <1>4 DEF Live
<1>6. Gone' = Gone \cup {x} /\ x \notin Gone
  <2>1. \A id \in Table!Ids : destroyed'[id] = 1 <=> id = x \/ destroyed[id] = 1
    BY <1>4
  <2>2. destroyed[x] # 1
    BY <1>3
  <2>3. QED
    BY <1>1, <2>1, <2>2 DEF Gone
<1>7. /\ Cardinality(Live)' = Cardinality(Live) - 1
      /\ Cardinality(Gone)' = Cardinality(Gone) + 1
  BY <1>5, <1>6, LiveAndGone, FS_AddElement, FS_RemoveElement
<1>8. InHand = 0 /\ InHand' = 0
  BY <1>1 DEF InHand
<1>9. Balanced(made', Cardinality(Live)', Cardinality(Gone)', refused', InHand')
  <2> DEFINE l == Cardinality(Live)
             g == Cardinality(Gone)
  <2>1. l \in Nat /\ g \in Nat
    BY LiveAndGone
  <2>2. Cardinality(Live)' = l - 1 /\ Cardinality(Gone)' = g + 1
    BY <1>7
  <2>3. Balanced(made, l, g, refused, InHand)
    BY <1>1 DEF Account
  <2> HIDE DEF l, g
  <2>9. l > 0
    BY <1>5, LiveAndGone, FS_EmptySet DEF l
  <2>4. Balanced(made', l - 1, g + 1, refused', InHand')
    BY <1>1, <1>2, <1>8, <2>1, <2>3, <2>9, Balances
  <2>5. QED
    BY <2>2, <2>4
<1>10. ASSUME NEW id \in Table!Ids
       PROVE  /\ destroyed'[id] <= 1
              /\ store'[id] # Null => destroyed'[id] = 0
              /\ id >= next' => store'[id] = Null /\ destroyed'[id] = 0
  <2>1. CASE id = x
    <3>1. destroyed'[id] = 1 /\ store'[id] = Null
      BY <1>4, <2>1
    <3>2. ~(id >= next')
      BY <1>1, <1>3, <2>1
    <3>3. QED
      BY <3>1, <3>2
  <2>2. CASE id # x
    <3>1. destroyed'[id] = destroyed[id] /\ store'[id] = store[id]
      BY <1>4, <2>2
    <3>2. QED
      BY <1>1, <3>1 DEF Account
  <2>3. QED
    BY <2>1, <2>2
<1>11. QED
  BY <1>1, <1>9, <1>10 DEF Account

LEMMA AccountReleaseAll ==
  ASSUME TypeOK, Account, ReleaseAll
  PROVE  Account'
<1>1. /\ pc = "release" /\ pc' = "exited" /\ closed'
      /\ store' = [id \in Table!Ids |-> Null]
      /\ destroyed' = [id \in Table!Ids |->
           IF store[id] # Null THEN destroyed[id] + 1 ELSE destroyed[id]]
      /\ UNCHANGED <<next, made, refused>>
  BY DEF ReleaseAll, Goto, ghosts, Table!Close
<1>2. /\ destroyed \in [Table!Ids -> Nat] /\ made \in Nat /\ refused \in Nat
  BY DEF TypeOK, TableOK
<1>3. Live' = {}
  BY <1>1 DEF Live
<1>4. \A id \in Table!Ids :
        destroyed'[id] = IF store[id] # Null THEN 1 ELSE destroyed[id]
  BY <1>1, <1>2 DEF Account
<1>5. Gone' = Gone \cup Live /\ Gone \cap Live = {}
  BY <1>4 DEF Gone, Live, Account
<1>6. Cardinality(Live)' = 0
  BY <1>3, FS_EmptySet
<1>7. Cardinality(Gone)' = Cardinality(Gone) + Cardinality(Live)
  <2>1. Cardinality(Gone \cup Live) =
          Cardinality(Gone) + Cardinality(Live) - Cardinality(Gone \cap Live)
    BY LiveAndGone, FS_Union
  <2>2. Cardinality(Gone \cap Live) = 0
    BY <1>5, FS_EmptySet
  <2>3. QED
    BY <1>5, <2>1, <2>2, LiveAndGone
<1>8. InHand = 0 /\ InHand' = 0
  BY <1>1 DEF InHand
<1>9. Balanced(made', Cardinality(Live)', Cardinality(Gone)', refused', InHand')
  <2> DEFINE l == Cardinality(Live)
             g == Cardinality(Gone)
  <2>1. l \in Nat /\ g \in Nat
    BY LiveAndGone
  <2>2. Cardinality(Live)' = 0 /\ Cardinality(Gone)' = g + l
    BY <1>6, <1>7
  <2>3. Balanced(made, l, g, refused, InHand)
    BY <1>1 DEF Account
  <2> HIDE DEF l, g
  <2>4. Balanced(made', 0, g + l, refused', InHand')
    BY <1>1, <1>2, <1>8, <2>1, <2>3, Balances
  <2>5. QED
    BY <2>2, <2>4
<1>10. ASSUME NEW id \in Table!Ids
       PROVE  /\ destroyed'[id] <= 1
              /\ store'[id] # Null => destroyed'[id] = 0
              /\ id >= next' => store'[id] = Null /\ destroyed'[id] = 0
  BY <1>1, <1>2, <1>4 DEF Account
<1>11. QED
  BY <1>1, <1>3, <1>9, <1>10 DEF Account

LEMMA AccountStep ==
  ASSUME TypeOK, TypeOK', Account, [Next]_vars
  PROVE  Account'
<1>1. made \in Nat /\ made' \in Nat /\ refused \in Nat /\ refused' \in Nat
  BY DEF TypeOK
<1>2. CASE UNCHANGED vars
  BY <1>2 DEF vars, table, ghosts, Account, Live, Gone, InHand
<1>3. CASE \/ Eof \/ BadHeader \/ Accept \/ PayloadNoMemory \/ PayloadCut
           \/ Payload \/ Reject \/ UnknownObject \/ CallUse \/ CallText
           \/ EncodePart \/ Encoded \/ EncodeFails \/ Respond \/ SendFails
           \/ CloseInput \/ \E r \in Requests : Send(r)
  <2>1. UNCHANGED <<store, next, destroyed, closed, made, refused>>
    BY <1>3 DEF Eof, BadHeader, Accept, PayloadNoMemory, PayloadCut, Payload,
                Reject, UnknownObject, CallUse, CallText, EncodePart, Encoded,
                EncodeFails, Respond, SendFails, Send, CloseInput, Break, Error,
                Runs, table, ghosts, Table!Find, Table!DiscardUnknown
  <2>2. /\ pc' = "exited" => pc = "exited"
        /\ \/ pc' = pc /\ result' = result
           \/ pc \notin {"aborted", "retain"} /\ pc' # "retain"
        /\ pc' = "aborted" \/ pc # "aborted"
    <3>1. CASE EncodePart \/ CloseInput \/ \E r \in Requests : Send(r)
      BY <3>1 DEF EncodePart, CloseInput, Send, TypeOK, PCs
    <3>2. CASE Eof \/ BadHeader \/ PayloadNoMemory \/ PayloadCut \/ SendFails
      BY <3>2 DEF Eof, BadHeader, PayloadNoMemory, PayloadCut, SendFails, Break,
                  Goto
    <3>3. CASE Reject \/ UnknownObject \/ EncodeFails
      BY <3>3 DEF Reject, UnknownObject, EncodeFails, Error, Goto
    <3>4. CASE Accept \/ Payload \/ CallUse \/ CallText \/ Encoded \/ Respond
      BY <3>4 DEF Accept, Payload, CallUse, CallText, Encoded, Respond, Goto
    <3>5. QED
      BY <1>3, <3>1, <3>2, <3>3, <3>4
  <2>3. InHand' = InHand
    BY <2>2 DEF InHand
  <2>4. QED
    BY <1>1, <2>1, <2>2, <2>3, AccountKept
<1>4. CASE \E v \in Objects \cup {Null} : CallNew(v)
  <2>1. /\ pc = "dispatch" /\ pc' = "retain"
        /\ made' = IF result' = Null THEN made ELSE made + 1
        /\ UNCHANGED <<store, next, destroyed, closed, refused>>
    BY <1>4 DEF CallNew, Goto, Runs, table
  <2>2. InHand = 0 /\ InHand' = IF result' = Null THEN 0 ELSE 1
    BY <2>1 DEF InHand
  <2>3. QED
    BY <1>1, <2>1, <2>2, AccountKept
<1>5. CASE Refuse
  <2>1. /\ pc = "retain" /\ pc' = "send error"
        /\ refused' = IF result = Null THEN refused ELSE refused + 1
        /\ UNCHANGED <<store, next, destroyed, closed, made>>
    BY <1>5 DEF Refuse, Error, Goto, Table!Refuse
  <2>2. InHand' = 0 /\ InHand = IF result = Null THEN 0 ELSE 1
    BY <2>1 DEF InHand
  <2>3. QED
    BY <1>1, <2>1, <2>2, AccountKept
<1>6. CASE Abort
  <2>1. pc' = "aborted" /\ UNCHANGED <<store, next, destroyed, closed>>
    BY <1>6 DEF Abort, table
  <2>2. QED
    BY <1>1, <2>1, AccountKept
<1>7. CASE Retain
  BY <1>7, AccountRetain
<1>8. CASE Drop
  BY <1>8, AccountDrop
<1>9. CASE ReleaseAll
  BY <1>9, AccountReleaseAll
<1>10. CASE Ended
  BY <1>2, <1>10 DEF Ended
<1>11. QED
  BY <1>2, <1>3, <1>4, <1>5, <1>6, <1>7, <1>8, <1>9, <1>10 DEF Next, Main

(* No object is lost or destroyed twice, for any number of requests and    *)
(* ids, and none is left when main returns.                                *)
THEOREM ObjectsAreAccounted == Spec => []ObjectsAccounted
<1>1. Inv => TypeOK
  BY DEF Inv
<1>2. TypeOK /\ TypeOK' /\ Account /\ [Next]_vars => Account'
  BY AccountStep
<1>3. Spec => []Account
  BY <1>1, <1>2, AccountInit, Invariance, PTL DEF Spec
<1>4. Account => ObjectsAccounted
  BY DEF Account, ObjectsAccounted, Balanced, Live, Gone
<1>5. QED
  BY <1>3, <1>4, PTL
=============================================================================
