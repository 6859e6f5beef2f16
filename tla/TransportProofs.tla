-------------------------- MODULE TransportProofs ---------------------------
(***************************************************************************)
(* That caller and helper never wait for each other, and that a sound call *)
(* leaves nothing behind, for every capacity of the pipes and buffers and  *)
(* every length of requests, responses and stray output.                   *)
(*                                                                         *)
(* The argument looks at two streams: what is still to be read by the      *)
(* helper, and what is still to be read by the caller, wherever the cells  *)
(* are.  Steps that only move cells do not change them.                    *)
(***************************************************************************)
EXTENDS Transport, SequenceTheorems, TLAPS

Cell == [id : Nat, size : Nat]

(* What TypeOK leaves out.                                                 *)
Shape ==
  /\ TypeOK
  /\ stdin \in Seq(Cell) /\ todo \in Seq(Cell)
  /\ ahead \in Seq(Cell) /\ stdout \in Seq(Cell)
  /\ out \in Seq(Cell) /\ reply \in Seq(Cell)
  /\ \A i \in 1 .. Len(stdin) :
       stdin[i].id <= calls /\ stdin[i].size <= MaxRequest
  /\ \A i \in 1 .. Len(todo) :
       todo[i].id <= calls /\ todo[i].size <= MaxRequest
  /\ pc = "body" => need > 0
  /\ pc # "idle" => calls > 0
  /\ hpc = "payload" <=> rest > 0
  /\ hpc # "reply" => reply = <<>>
  /\ broken => pc = "idle" /\ ~alive

Outgoing == stdin \o todo
Incoming == (ahead \o stdout) \o (out \o reply)

Between == hpc \in {"reply", "flush", "header"}

(* The streams while no stray output was taken for a response.             *)
Quiet ==   \* no call is under way
  pc = "idle" =>
    Outgoing = <<>> /\ Incoming = <<>> /\ Between /\ serving = calls

Asked ==   \* the helper has not begun with the request
  pc \in {"write", "header"} /\ serving # calls =>
    /\ Incoming = <<>> /\ Between
    /\ Outgoing # <<>>
    /\ Outgoing[1].id = calls /\ Outgoing[1].size = Len(Outgoing) - 1

Strays(s) == \A i \in 1 .. Len(s) : s[i].id = 0

Response(s) ==
  \E k \in 1 .. Len(s) :
    /\ \A i \in 1 .. k - 1 : s[i].id = 0
    /\ s[k].id = calls /\ s[k].size = Len(s) - k

Served ==   \* the helper reads it, runs its function, or has answered
  pc \in {"write", "header"} /\ serving = calls =>
    \/ hpc = "payload" /\ Incoming = <<>> /\ rest = Len(Outgoing)
    \/ hpc = "call" /\ Outgoing = <<>> /\ Strays(Incoming)
    \/ Between /\ Outgoing = <<>> /\ Response(Incoming)

Reading ==   \* the header of the response was read
  pc = "body" =>
    /\ Outgoing = <<>> /\ Between /\ serving = calls
    /\ Len(Incoming) = need

InStep == ~corrupted /\ ~broken => Quiet /\ Asked /\ Served /\ Reading
-----------------------------------------------------------------------------
(* Sequences.                                                              *)
LEMMA MoveCell ==
  ASSUME NEW S, NEW r \in Seq(S), NEW s \in Seq(S), s # <<>>
  PROVE  Append(r, Head(s)) \o Tail(s) = r \o s
<1> DEFINE u == Append(r, Head(s))
           v == Tail(s)
<1>1. /\ Head(s) \in S /\ v \in Seq(S) /\ Len(v) = Len(s) - 1
      /\ \A i \in 1 .. Len(v) : v[i] = s[i + 1]
      /\ Head(s) = s[1]
  BY HeadTailProperties
<1>2. /\ u \in Seq(S) /\ Len(u) = Len(r) + 1 /\ u[Len(r) + 1] = s[1]
      /\ \A i \in 1 .. Len(r) : u[i] = r[i]
  BY <1>1, AppendProperties
<1> HIDE DEF u, v
<1>3. /\ u \o v \in Seq(S) /\ Len(u \o v) = Len(u) + Len(v)
      /\ \A i \in 1 .. Len(u) + Len(v) :
           (u \o v)[i] = IF i <= Len(u) THEN u[i] ELSE v[i - Len(u)]
  BY <1>1, <1>2, ConcatProperties
<1>4. /\ r \o s \in Seq(S) /\ Len(r \o s) = Len(r) + Len(s)
      /\ \A i \in 1 .. Len(r) + Len(s) :
           (r \o s)[i] = IF i <= Len(r) THEN r[i] ELSE s[i - Len(r)]
  BY ConcatProperties
<1>5. Len(r) \in Nat /\ Len(s) \in Nat /\ Len(s) # 0
  OBVIOUS
<1>6. ASSUME NEW i \in 1 .. Len(r) + Len(s)
      PROVE  (u \o v)[i] = (r \o s)[i]
  <2>1. CASE i <= Len(r)
    BY <1>2, <1>3, <1>4, <1>5, <1>1, <2>1
  <2>2. CASE i = Len(r) + 1
    BY <1>2, <1>3, <1>4, <1>5, <1>1, <2>2
  <2>3. CASE i > Len(r) + 1
    <3>1. (u \o v)[i] = v[i - Len(u)] /\ i - Len(u) \in 1 .. Len(v)
      BY <1>1, <1>2, <1>3, <1>5, <2>3
    <3>2. v[i - Len(u)] = s[i - Len(r)]
      BY <1>1, <1>2, <1>5, <3>1
    <3>3. QED
      BY <1>4, <1>5, <2>3, <3>1, <3>2
  <2>4. i \in Nat /\ Len(r) \in Nat
    BY <1>5
  <2>5. i <= Len(r) \/ i = Len(r) + 1 \/ i > Len(r) + 1
    BY <2>4
  <2>6. QED
    BY <2>1, <2>2, <2>3, <2>5
<1>7. Len(u \o v) = Len(r \o s)
  BY <1>1, <1>2, <1>3, <1>4, <1>5
<1>8. u \o v = r \o s
  BY <1>3, <1>4, <1>6, <1>7, SeqEqual
<1>9. QED
  BY <1>8 DEF u, v

LEMMA TailConcat ==
  ASSUME NEW S, NEW s \in Seq(S), NEW t \in Seq(S), s # <<>>
  PROVE  /\ Tail(s) \o t = Tail(s \o t)
         /\ s \o t # <<>> /\ (s \o t)[1] = Head(s)
<1>1. /\ s \o t \in Seq(S) /\ Len(s \o t) = Len(s) + Len(t)
      /\ \A i \in 1 .. Len(s) + Len(t) :
           (s \o t)[i] = IF i <= Len(s) THEN s[i] ELSE t[i - Len(s)]
  BY ConcatProperties
<1>2. Len(s) \in Nat /\ Len(t) \in Nat /\ Len(s) # 0 /\ Head(s) = s[1]
  OBVIOUS
<1>3. s \o t # <<>> /\ (s \o t)[1] = Head(s)
  BY <1>1, <1>2
<1>4. Tail(s) \o t = Tail(s \o t)
  <2> DEFINE u == Tail(s)
             w == s \o t
             x == Tail(w)
  <2>1. /\ u \in Seq(S) /\ Len(u) = Len(s) - 1
        /\ \A i \in 1 .. Len(u) : u[i] = s[i + 1]
    BY HeadTailProperties
  <2>2. /\ x \in Seq(S) /\ Len(x) = Len(w) - 1
        /\ \A i \in 1 .. Len(x) : x[i] = w[i + 1]
    <3>1. w \in Seq(S) /\ w # <<>>
      BY <1>1, <1>3
    <3> HIDE DEF w
    <3> QED BY <3>1, HeadTailProperties
  <2> HIDE DEF u, x
  <2>3. /\ u \o t \in Seq(S) /\ Len(u \o t) = Len(u) + Len(t)
        /\ \A i \in 1 .. Len(u) + Len(t) :
             (u \o t)[i] = IF i <= Len(u) THEN u[i] ELSE t[i - Len(u)]
    BY <2>1, ConcatProperties
  <2>4. Len(x) = Len(u \o t)
    BY <1>1, <1>2, <2>1, <2>2, <2>3
  <2>5. ASSUME NEW i \in 1 .. Len(x)
        PROVE  x[i] = (u \o t)[i]
    <3>1. i + 1 \in 1 .. Len(s) + Len(t) /\ i \in 1 .. Len(u) + Len(t)
      BY <1>1, <1>2, <2>1, <2>2
    <3>2. x[i] = IF i + 1 <= Len(s) THEN s[i + 1] ELSE t[i + 1 - Len(s)]
      BY <1>1, <2>2, <3>1
    <3>3. CASE i <= Len(u)
      BY <1>2, <2>1, <2>3, <3>1, <3>2, <3>3
    <3>4. CASE i > Len(u)
      <4>1. i + 1 - Len(s) = i - Len(u) /\ ~(i + 1 <= Len(s))
        BY <1>2, <2>1, <3>1, <3>4
      <4>2. QED
        BY <2>3, <3>1, <3>2, <3>4, <4>1, <1>2, <2>1
    <3>5. QED
      BY <1>2, <2>1, <3>1, <3>3, <3>4
  <2>6. x = u \o t
    BY <2>2, <2>3, <2>4, <2>5, SeqEqual
  <2>7. QED
    BY <2>6 DEF u, x
<1>5. QED
  BY <1>3, <1>4

LEMMA ConcatAppend ==
  ASSUME NEW S, NEW s \in Seq(S), NEW t \in Seq(S), NEW e \in S
  PROVE  s \o Append(t, e) = Append(s \o t, e)
<1>1. /\ <<e>> \in Seq(S) /\ s \o t \in Seq(S)
  BY ConcatProperties
<1>2. Append(t, e) = t \o <<e>> /\ Append(s \o t, e) = (s \o t) \o <<e>>
  BY <1>1, AppendIsConcat
<1>3. (s \o t) \o <<e>> = s \o (t \o <<e>>)
  BY <1>1, ConcatAssociative
<1>4. QED
  BY <1>2, <1>3

LEMMA SplitConcat ==
  ASSUME NEW S, NEW s \in Seq(S), NEW k \in 0 .. Len(s)
  PROVE  SubSeq(s, 1, k) \o SubSeq(s, k + 1, Len(s)) = s
<1>1. SubSeq(s, 1, k) \o SubSeq(s, k + 1, Len(s)) = SubSeq(s, 1, Len(s))
  <2>1. Len(s) \in Nat
    OBVIOUS
  <2>2. 1 \in 1 .. Len(s) + 1 /\ k \in 1 - 1 .. Len(s) /\ Len(s) \in k .. Len(s)
    BY <2>1
  <2>3. QED
    BY <2>2, ConcatAdjacentSubSeq
<1>2. QED
  BY <1>1, SubSeqFull

LEMMA FrameCells ==
  ASSUME NEW id \in Nat, NEW size \in Nat
  PROVE  /\ Frame(id, size) \in Seq(Cell) /\ Len(Frame(id, size)) = size + 1
         /\ Frame(id, size)[1] = Header(id, size)
         /\ \A i \in 2 .. size + 1 : Frame(id, size)[i] = Other
<1> DEFINE h == <<Header(id, size)>>
           b == [c \in 1 .. size |-> Other]
<1>1. Header(id, size) \in Cell /\ Other \in Cell
  BY DEF Header, Other, Cell
<1>2. /\ h \in Seq(Cell) /\ Len(h) = 1 /\ h[1] = Header(id, size)
      /\ b \in Seq(Cell) /\ Len(b) = size /\ \A i \in 1 .. size : b[i] = Other
  BY <1>1
<1>3. Frame(id, size) = h \o b
  BY DEF Frame
<1> HIDE DEF h, b
<1>4. /\ h \o b \in Seq(Cell) /\ Len(h \o b) = Len(h) + Len(b)
      /\ \A i \in 1 .. Len(h) + Len(b) :
           (h \o b)[i] = IF i <= Len(h) THEN h[i] ELSE b[i - Len(h)]
  BY <1>2, ConcatProperties
<1>5. QED
  BY <1>2, <1>3, <1>4

-----------------------------------------------------------------------------
(* Types.                                                                  *)
LEMMA Bounds ==
  /\ Capacity \in Nat \ {0} /\ ReadAhead \in Nat \ {0} /\ Stdio \in Nat \ {0}
  /\ MaxRequest \in Nat /\ MaxReply \in Nat
  /\ MaxStray \in Nat /\ MaxCalls \in Nat
BY TransportAssumption

LEMMA OtherType == Other \in Cell
BY DEF Other, Cell

LEMMA ShapeInit == Init => Shape
<1> SUFFICES ASSUME Init PROVE Shape
  OBVIOUS
<1>1. /\ stdin = <<>> /\ todo = <<>> /\ ahead = <<>> /\ stdout = <<>>
      /\ out = <<>> /\ reply = <<>>
  BY DEF Init
<1>2. /\ <<>> \in Seq(Cell) /\ Len(<<>>) = 0
  OBVIOUS
<1>3. TypeOK
  <2>1. /\ calls \in 0 .. MaxCalls /\ serving \in 0 .. calls
        /\ need \in Nat /\ rest \in 0 .. MaxRequest /\ strays \in 0 .. MaxStray
    BY Bounds DEF Init
  <2>2. /\ Len(stdin) <= Capacity /\ Len(stdout) <= Capacity
        /\ Len(ahead) <= ReadAhead /\ Len(out) <= Stdio
    BY <1>1, <1>2, Bounds
  <2>3. {corrupted, broken, alive} \subseteq BOOLEAN
    BY DEF Init
  <2>4. QED
    BY <2>1, <2>2, <2>3 DEF Init, TypeOK
<1>4. QED
  BY <1>1, <1>2, <1>3 DEF Init, Shape

LEMMA ShapeCall ==
  ASSUME Shape, NEW size \in 0 .. MaxRequest, Call(size)
  PROVE  Shape'
<1> DEFINE f == Frame(calls + 1, size)
<1>1. /\ pc' = "write" /\ calls' = calls + 1 /\ todo' = f
      /\ calls \in Nat /\ calls < MaxCalls /\ size \in Nat /\ ~broken
      /\ UNCHANGED <<ahead, need, corrupted, broken, stdin, stdout, helper,
                     alive>>
  BY Bounds DEF Call, Shape, TypeOK
<1>2. /\ f \in Seq(Cell) /\ Len(f) = size + 1
      /\ f[1] = Header(calls + 1, size) /\ \A i \in 2 .. size + 1 : f[i] = Other
  <2>1. calls + 1 \in Nat /\ size \in Nat
    BY <1>1
  <2>2. QED
    BY <2>1, FrameCells
<1> HIDE DEF f
<1>3. \A i \in 1 .. Len(f) : f[i].id <= calls + 1 /\ f[i].size <= MaxRequest
  <2> SUFFICES ASSUME NEW i \in 1 .. Len(f)
               PROVE  f[i].id <= calls + 1 /\ f[i].size <= MaxRequest
    OBVIOUS
  <2>1. CASE i = 1
    BY <1>1, <1>2, <2>1, Bounds DEF Header
  <2>2. CASE i # 1
    BY <1>1, <1>2, <2>2, Bounds DEF Other
  <2>3. QED
    BY <2>1, <2>2
<1>4. f # <<>>
  BY <1>1, <1>2
<1>5. TypeOK'
  BY <1>1, <1>4, Bounds DEF Shape, TypeOK, helper
<1>6. \A i \in 1 .. Len(stdin) : stdin[i].id \in Nat /\ stdin[i].id <= calls
  <2>1. \A i \in 1 .. Len(stdin) : stdin[i] \in Cell /\ stdin[i].id <= calls
    BY DEF Shape
  <2>2. \A c \in Cell : c.id \in Nat
    BY DEF Cell
  <2>3. QED
    BY <2>1, <2>2
<1>7. \A i \in 1 .. Len(stdin) : stdin[i].id <= calls + 1
  BY <1>1, <1>6
<1>8. QED
  BY <1>1, <1>2, <1>3, <1>5, <1>7 DEF Shape, helper

LEMMA ShapeWrite ==
  ASSUME Shape, Write
  PROVE  Shape'
<1>1. /\ pc = "write" /\ todo # <<>> /\ alive /\ Len(stdin) < Capacity
      /\ stdin' = Append(stdin, Head(todo)) /\ todo' = Tail(todo)
      /\ pc' = IF Len(todo) = 1 THEN "header" ELSE "write"
      /\ UNCHANGED <<calls, ahead, need, corrupted, broken, stdout, helper,
                     alive>>
  BY DEF Write, Shape, TypeOK
<1>2. /\ stdin \in Seq(Cell) /\ todo \in Seq(Cell)
  BY DEF Shape
<1>3. /\ Head(todo) \in Cell /\ Head(todo) = todo[1] /\ 1 \in 1 .. Len(todo)
      /\ Tail(todo) \in Seq(Cell) /\ Len(Tail(todo)) = Len(todo) - 1
      /\ Len(todo) \in Nat
      /\ \A i \in 1 .. Len(Tail(todo)) :
           i + 1 \in 1 .. Len(todo) /\ Tail(todo)[i] = todo[i + 1]
  BY <1>1, <1>2
<1>4. /\ stdin' \in Seq(Cell) /\ Len(stdin') = Len(stdin) + 1
      /\ Len(stdin) \in Nat
      /\ \A i \in 1 .. Len(stdin) : stdin'[i] = stdin[i]
      /\ stdin'[Len(stdin) + 1] = Head(todo)
  BY <1>1, <1>2, <1>3, AppendProperties
<1>5. \A i \in 1 .. Len(stdin') :
        stdin'[i].id <= calls /\ stdin'[i].size <= MaxRequest
  <2> SUFFICES ASSUME NEW i \in 1 .. Len(stdin')
               PROVE  stdin'[i].id <= calls /\ stdin'[i].size <= MaxRequest
    OBVIOUS
  <2>1. CASE i = Len(stdin) + 1
    BY <1>3, <1>4, <2>1 DEF Shape
  <2>2. CASE i # Len(stdin) + 1
    <3>1. i \in 1 .. Len(stdin)
      BY <1>4, <2>2
    <3>2. stdin'[i] = stdin[i]
      BY <1>4, <3>1
    <3>3. stdin[i].id <= calls /\ stdin[i].size <= MaxRequest
      BY <3>1 DEF Shape
    <3>4. QED
      BY <3>2, <3>3
  <2>3. QED
    BY <2>1, <2>2
<1>6. \A i \in 1 .. Len(todo') :
        todo'[i].id <= calls /\ todo'[i].size <= MaxRequest
  BY <1>1, <1>3 DEF Shape
<1>7. pc' = "write" <=> todo' # <<>>
  <2>1. Tail(todo) = <<>> <=> Len(todo) = 1
    <3>1. Tail(todo) = <<>> <=> Len(Tail(todo)) = 0
      BY <1>3, EmptySeq
    <3>2. QED
      BY <1>3, <3>1
  <2>2. QED
    BY <1>1, <2>1
<1>8. TypeOK'
  BY <1>1, <1>4, <1>7, Bounds DEF Shape, TypeOK, helper
<1>9. QED
  BY <1>1, <1>3, <1>4, <1>5, <1>6, <1>8 DEF Shape, helper

LEMMA ShapeRead ==
  ASSUME Shape, Fill \/ ReadHeader \/ ReadBody \/ Fails
  PROVE  Shape'
<1>0. ahead \in Seq(Cell) /\ stdout \in Seq(Cell) /\ need \in Nat
  BY DEF Shape, TypeOK
<1>1. CASE Fill
  <2> DEFINE k == IF Len(stdout) < ReadAhead THEN Len(stdout) ELSE ReadAhead
  <2>1. /\ ahead' = SubSeq(stdout, 1, k)
        /\ stdout' = SubSeq(stdout, k + 1, Len(stdout))
        /\ UNCHANGED <<pc, calls, todo, need, corrupted, broken, stdin, helper,
                       alive>>
    BY <1>1 DEF Fill
  <2>2. k \in Nat /\ k <= ReadAhead /\ k <= Len(stdout) /\ Len(stdout) \in Nat
    BY <1>0, Bounds
  <2> HIDE DEF k
  <2>3. /\ ahead' \in Seq(Cell) /\ Len(ahead') = k
        /\ stdout' \in Seq(Cell) /\ Len(stdout') = Len(stdout) - k
    BY <1>0, <2>1, <2>2
  <2>4. /\ Len(ahead') <= ReadAhead /\ Len(stdout') <= Capacity
    <3>1. Len(stdout) <= Capacity
      BY DEF Shape, TypeOK
    <3>2. QED
      BY <2>2, <2>3, <3>1, Bounds
  <2>5. TypeOK'
    BY <2>1, <2>4 DEF Shape, TypeOK, helper
  <2>6. QED
    BY <2>1, <2>3, <2>5 DEF Shape, helper
<1>2. CASE ReadHeader
  <2>1. /\ ahead # <<>> /\ ahead' = Tail(ahead) /\ pc = "header"
        /\ pc' \in {"idle", "body"} /\ corrupted' \in {corrupted, TRUE}
        /\ need' \in {need, Head(ahead).size}
        /\ pc' = "body" => need' = Head(ahead).size /\ Head(ahead).size # 0
        /\ UNCHANGED <<calls, todo, broken, stdin, stdout, helper, alive>>
    BY <1>2 DEF ReadHeader
  <2>2. /\ Head(ahead) \in Cell /\ Tail(ahead) \in Seq(Cell)
        /\ Len(Tail(ahead)) = Len(ahead) - 1 /\ Len(ahead) \in Nat
    BY <1>0, <2>1
  <2>3. Head(ahead).size \in Nat
    BY <2>2 DEF Cell
  <2>4. TypeOK'
    <3>1. need' \in Nat
      BY <1>0, <2>1, <2>3
    <3>2. Len(ahead') <= ReadAhead
      BY <2>1, <2>2, Bounds DEF Shape, TypeOK
    <3>3. corrupted' \in BOOLEAN
      BY <2>1 DEF Shape, TypeOK
    <3>4. QED
      BY <2>1, <3>1, <3>2, <3>3 DEF Shape, TypeOK, helper
  <2>5. QED
    BY <2>1, <2>2, <2>3, <2>4 DEF Shape, helper
<1>3. CASE ReadBody
  <2>1. /\ ahead # <<>> /\ ahead' = Tail(ahead) /\ pc = "body"
        /\ need' = need - 1
        /\ pc' = IF need = 1 THEN "idle" ELSE "body"
        /\ UNCHANGED <<calls, todo, corrupted, broken, stdin, stdout, helper,
                       alive>>
    BY <1>3 DEF ReadBody
  <2>2. /\ Tail(ahead) \in Seq(Cell)
        /\ Len(Tail(ahead)) = Len(ahead) - 1 /\ Len(ahead) \in Nat
    BY <1>0, <2>1
  <2>3. need > 0
    BY <2>1 DEF Shape
  <2>4. TypeOK'
    <3>1. need' \in Nat
      BY <1>0, <2>1, <2>3
    <3>2. Len(ahead') <= ReadAhead
      BY <2>1, <2>2, Bounds DEF Shape, TypeOK
    <3>3. QED
      BY <2>1, <3>1, <3>2 DEF Shape, TypeOK, helper
  <2>5. QED
    BY <1>0, <2>1, <2>2, <2>3, <2>4 DEF Shape, helper
<1>4. CASE Fails
  <2>1. /\ ~alive /\ pc' = "idle" /\ broken' = TRUE /\ todo' = <<>>
        /\ UNCHANGED <<calls, ahead, need, corrupted, stdin, stdout, helper,
                       alive>>
    BY <1>4 DEF Fails
  <2>2. TypeOK'
    BY <2>1 DEF Shape, TypeOK, helper
  <2>3. QED
    BY <2>1, <2>2 DEF Shape, helper
<1>5. QED
  BY <1>1, <1>2, <1>3, <1>4

LEMMA ShapeTake ==
  ASSUME Shape, HelperHeader \/ HelperPayload
  PROVE  Shape'
<1>1. /\ alive /\ stdin # <<>> /\ stdin' = Tail(stdin)
      /\ hpc # "reply" /\ hpc' \in {"payload", "call"}
      /\ UNCHANGED <<client, stdout, out, reply, strays, alive>>
  BY DEF HelperHeader, HelperPayload, TakeCell
<1>2. stdin \in Seq(Cell)
  BY DEF Shape
<1>3. /\ Head(stdin) \in Cell /\ Head(stdin) = stdin[1] /\ 1 \in 1 .. Len(stdin)
      /\ Tail(stdin) \in Seq(Cell) /\ Len(Tail(stdin)) = Len(stdin) - 1
      /\ Len(stdin) \in Nat
      /\ \A i \in 1 .. Len(Tail(stdin)) :
           i + 1 \in 1 .. Len(stdin) /\ Tail(stdin)[i] = stdin[i + 1]
  BY <1>1, <1>2
<1>4. \A i \in 1 .. Len(stdin') :
        stdin'[i].id <= calls /\ stdin'[i].size <= MaxRequest
  BY <1>1, <1>3 DEF Shape
<1>5. /\ serving' \in 0 .. calls /\ rest' \in 0 .. MaxRequest
      /\ hpc' = "payload" <=> rest' > 0
  <2>1. CASE HelperHeader
    <3>1. /\ serving' = Head(stdin).id /\ rest' = Head(stdin).size
          /\ hpc' = IF rest' = 0 THEN "call" ELSE "payload"
      BY <2>1 DEF HelperHeader
    <3>2. /\ Head(stdin).id \in Nat /\ Head(stdin).id <= calls
          /\ Head(stdin).size \in Nat /\ Head(stdin).size <= MaxRequest
      BY <1>3 DEF Shape, Cell
    <3>3. QED
      BY <3>1, <3>2, Bounds DEF Shape, TypeOK
  <2>2. CASE HelperPayload
    <3>1. /\ rest' = rest - 1 /\ serving' = serving /\ hpc = "payload"
          /\ hpc' = IF rest' = 0 THEN "call" ELSE "payload"
      BY <2>2 DEF HelperPayload
    <3>2. rest > 0 /\ rest \in 0 .. MaxRequest
      BY <3>1 DEF Shape, TypeOK
    <3>3. QED
      BY <3>1, <3>2, Bounds DEF Shape, TypeOK
  <2>3. QED
    BY <2>1, <2>2
<1>6. TypeOK'
  BY <1>1, <1>3, <1>5, Bounds DEF Shape, TypeOK, client
<1>7. QED
  BY <1>1, <1>3, <1>4, <1>5, <1>6 DEF Shape, client

LEMMA ShapeAnswer ==
  ASSUME Shape,
         \/ Drain \/ Stray \/ \E size \in 0 .. MaxReply : Return(size)
         \/ PutReply \/ Flush \/ Flushed \/ HelperDies
  PROVE  Shape'
<1>0. /\ out \in Seq(Cell) /\ stdout \in Seq(Cell) /\ reply \in Seq(Cell)
      /\ Len(out) \in Nat /\ Len(stdout) \in Nat
  BY DEF Shape
<1>1. CASE Drain
  <2>1. /\ out # <<>> /\ Len(stdout) < Capacity
        /\ stdout' = Append(stdout, Head(out)) /\ out' = Tail(out)
        /\ UNCHANGED <<client, stdin, hpc, serving, rest, reply, strays, alive>>
    BY <1>1 DEF Drain
  <2>2. /\ stdout' \in Seq(Cell) /\ Len(stdout') = Len(stdout) + 1
        /\ out' \in Seq(Cell) /\ Len(out') = Len(out) - 1
    BY <1>0, <2>1
  <2>3. TypeOK'
    BY <1>0, <2>1, <2>2, Bounds DEF Shape, TypeOK, client
  <2>4. QED
    BY <2>1, <2>2, <2>3 DEF Shape, client
<1>2. CASE Stray
  <2>1. /\ Len(out) < Stdio /\ out' = Append(out, Other)
        /\ strays < MaxStray /\ strays' = strays + 1
        /\ UNCHANGED <<client, stdin, stdout, hpc, serving, rest, reply, alive>>
    BY <1>2 DEF Stray, Put
  <2>2. out' \in Seq(Cell) /\ Len(out') = Len(out) + 1
    BY <1>0, <2>1, OtherType
  <2>3. TypeOK'
    BY <1>0, <2>1, <2>2, Bounds DEF Shape, TypeOK, client
  <2>4. QED
    BY <2>1, <2>2, <2>3 DEF Shape, client
<1>3. CASE \E size \in 0 .. MaxReply : Return(size)
  <2>1. PICK size \in 0 .. MaxReply : Return(size)
    BY <1>3
  <2>2. /\ hpc = "call" /\ hpc' = "reply" /\ strays' = 0
        /\ reply' = Frame(serving, size)
        /\ UNCHANGED <<client, stdin, stdout, serving, rest, out, alive>>
    BY <2>1 DEF Return
  <2>3. reply' \in Seq(Cell)
    BY <2>2, FrameCells, Bounds DEF Shape, TypeOK
  <2>4. TypeOK'
    BY <2>2, Bounds DEF Shape, TypeOK, client
  <2>5. QED
    BY <2>2, <2>3, <2>4 DEF Shape, client
<1>4. CASE PutReply
  <2>1. /\ Len(out) < Stdio /\ out' = Append(out, Head(reply)) /\ hpc = "reply"
        /\ reply # <<>> /\ reply' = Tail(reply)
        /\ UNCHANGED <<client, stdin, stdout, hpc, serving, rest, strays, alive>>
    BY <1>4 DEF PutReply, Put
  <2>2. /\ out' \in Seq(Cell) /\ Len(out') = Len(out) + 1
        /\ reply' \in Seq(Cell)
    BY <1>0, <2>1
  <2>3. TypeOK'
    BY <1>0, <2>1, <2>2, Bounds DEF Shape, TypeOK, client
  <2>4. QED
    BY <2>1, <2>2, <2>3 DEF Shape, client
<1>5. CASE Flush
  <2>1. /\ hpc = "reply" /\ reply = <<>> /\ hpc' = "flush"
        /\ UNCHANGED <<client, stdin, stdout, serving, rest, out, reply, strays,
                       alive>>
    BY <1>5 DEF Flush
  <2>2. TypeOK'
    BY <2>1 DEF Shape, TypeOK, client
  <2>3. QED
    BY <2>1, <2>2 DEF Shape, client
<1>6. CASE Flushed
  <2>1. /\ hpc = "flush" /\ hpc' = "header"
        /\ UNCHANGED <<client, stdin, stdout, serving, rest, out, reply, strays,
                       alive>>
    BY <1>6 DEF Flushed
  <2>2. TypeOK'
    BY <2>1 DEF Shape, TypeOK, client
  <2>3. QED
    BY <2>1, <2>2 DEF Shape, client
<1>7. CASE HelperDies
  <2>1. /\ alive' = FALSE
        /\ UNCHANGED <<client, stdin, stdout, helper>>
    BY <1>7 DEF HelperDies
  <2>2. TypeOK'
    BY <2>1 DEF Shape, TypeOK, client, helper
  <2>3. QED
    BY <2>1, <2>2 DEF Shape, client, helper
<1>8. QED
  BY <1>1, <1>2, <1>3, <1>4, <1>5, <1>6, <1>7

LEMMA ShapeNext ==
  ASSUME Shape, [Next]_vars
  PROVE  Shape'
<1>1. CASE UNCHANGED vars
  BY <1>1 DEF vars, client, helper, Shape, TypeOK
<1>2. CASE Next
  BY <1>2, ShapeCall, ShapeWrite, ShapeRead, ShapeTake, ShapeAnswer
  DEF Next, Client, Main, Legacy
<1>3. QED
  BY <1>1, <1>2

(* Variables keep their types, no pipe or buffer holds more than it can,   *)
(* and no call is in its write with nothing left to write.                 *)
THEOREM TypeCorrect == Spec => []TypeOK
<1>1. Spec => []Shape
  BY ShapeInit, ShapeNext, PTL DEF Spec
<1>2. Shape => TypeOK
  BY DEF Shape
<1>3. QED
  BY <1>1, <1>2, PTL

-----------------------------------------------------------------------------
(* What a step does to the streams.                                        *)
LEMMA Streams ==
  ASSUME Shape
  PROVE  /\ stdin \in Seq(Cell) /\ todo \in Seq(Cell)
         /\ ahead \in Seq(Cell) /\ stdout \in Seq(Cell)
         /\ out \in Seq(Cell) /\ reply \in Seq(Cell)
         /\ Outgoing \in Seq(Cell) /\ Incoming \in Seq(Cell)
         /\ ahead \o stdout \in Seq(Cell) /\ out \o reply \in Seq(Cell)
         /\ Len(Outgoing) \in Nat /\ Len(Incoming) \in Nat
<1>1. /\ stdin \in Seq(Cell) /\ todo \in Seq(Cell)
      /\ ahead \in Seq(Cell) /\ stdout \in Seq(Cell)
      /\ out \in Seq(Cell) /\ reply \in Seq(Cell)
  BY DEF Shape
<1>2. ahead \o stdout \in Seq(Cell) /\ out \o reply \in Seq(Cell)
  BY <1>1, ConcatProperties
<1>3. Outgoing \in Seq(Cell)
  BY <1>1, ConcatProperties DEF Outgoing
<1>4. Incoming \in Seq(Cell)
  BY <1>2, ConcatProperties DEF Incoming
<1>5. Len(Outgoing) \in Nat /\ Len(Incoming) \in Nat
  BY <1>3, <1>4, LenProperties
<1>6. QED
  BY <1>1, <1>2, <1>3, <1>4, <1>5

LEMMA WriteMoves ==
  ASSUME Shape, Write
  PROVE  Outgoing' = Outgoing /\ Incoming' = Incoming
<1>1. /\ todo # <<>> /\ stdin' = Append(stdin, Head(todo)) /\ todo' = Tail(todo)
      /\ UNCHANGED <<ahead, stdout, out, reply>>
  BY DEF Write, Shape, TypeOK, helper
<1>2. Append(stdin, Head(todo)) \o Tail(todo) = stdin \o todo
  BY <1>1, Streams, MoveCell
<1>3. QED
  BY <1>1, <1>2 DEF Outgoing, Incoming

LEMMA FillMoves ==
  ASSUME Shape, Fill
  PROVE  Outgoing' = Outgoing /\ Incoming' = Incoming
<1> DEFINE k == IF Len(stdout) < ReadAhead THEN Len(stdout) ELSE ReadAhead
<1>1. /\ ahead = <<>> /\ ahead' = SubSeq(stdout, 1, k)
      /\ stdout' = SubSeq(stdout, k + 1, Len(stdout))
      /\ UNCHANGED <<stdin, todo, out, reply>>
  BY DEF Fill, helper
<1>2. k \in 0 .. Len(stdout)
  BY Streams, LenProperties, Bounds
<1> HIDE DEF k
<1>3. SubSeq(stdout, 1, k) \o SubSeq(stdout, k + 1, Len(stdout)) = stdout
  BY <1>2, Streams, SplitConcat
<1>4. ahead \o stdout = stdout
  BY <1>1, Streams, ConcatEmptySeq
<1>5. QED
  BY <1>1, <1>3, <1>4 DEF Outgoing, Incoming

LEMMA DrainMoves ==
  ASSUME Shape, Drain
  PROVE  Outgoing' = Outgoing /\ Incoming' = Incoming
<1> DEFINE p == ahead \o stdout
           q == out \o reply
<1>1. /\ out # <<>> /\ stdout' = Append(stdout, Head(out)) /\ out' = Tail(out)
      /\ UNCHANGED <<stdin, todo, ahead, reply>>
  BY DEF Drain, client
<1>2. Head(out) \in Cell
  BY <1>1, Streams, HeadTailProperties
<1>3. ahead \o Append(stdout, Head(out)) = Append(p, Head(out))
  BY <1>2, Streams, ConcatAppend
<1>4. Tail(out) \o reply = Tail(q) /\ q # <<>> /\ q[1] = Head(out)
  BY <1>1, Streams, TailConcat
<1>5. p \in Seq(Cell) /\ q \in Seq(Cell)
  BY Streams
<1>6. Incoming = p \o q /\ Incoming' = (ahead' \o stdout') \o (out' \o reply')
  BY DEF Incoming
<1> HIDE DEF p, q
<1>7. Head(q) = Head(out)
  BY <1>4, <1>5
<1>8. Append(p, Head(q)) \o Tail(q) = p \o q
  BY <1>4, <1>5, MoveCell
<1>9. QED
  BY <1>1, <1>3, <1>4, <1>6, <1>7, <1>8 DEF Outgoing

LEMMA PutMoves ==
  ASSUME Shape, PutReply
  PROVE  Outgoing' = Outgoing /\ Incoming' = Incoming
<1>1. /\ reply # <<>> /\ out' = Append(out, Head(reply)) /\ reply' = Tail(reply)
      /\ UNCHANGED <<stdin, todo, ahead, stdout>>
  BY DEF PutReply, Put, client
<1>2. Append(out, Head(reply)) \o Tail(reply) = out \o reply
  BY <1>1, Streams, MoveCell
<1>3. QED
  BY <1>1, <1>2 DEF Outgoing, Incoming

LEMMA ReadTakes ==
  ASSUME Shape, ahead # <<>>, ahead' = Tail(ahead),
         UNCHANGED <<stdin, todo, stdout, out, reply>>
  PROVE  /\ Outgoing' = Outgoing /\ Incoming # <<>>
         /\ Incoming' = Tail(Incoming) /\ Incoming[1] = Head(ahead)
<1> DEFINE p == ahead \o stdout
           q == out \o reply
<1>1. Tail(ahead) \o stdout = Tail(p) /\ p # <<>> /\ p[1] = Head(ahead)
  BY Streams, TailConcat
<1>2. p \in Seq(Cell) /\ q \in Seq(Cell)
  BY Streams
<1>3. Incoming = p \o q /\ Incoming' = (ahead' \o stdout') \o (out' \o reply')
  BY DEF Incoming
<1>4. out' \o reply' = q /\ ahead' \o stdout' = Tail(ahead) \o stdout
  OBVIOUS
<1> HIDE DEF p, q
<1>5. Tail(p) \o q = Tail(p \o q) /\ p \o q # <<>> /\ (p \o q)[1] = Head(p)
  BY <1>1, <1>2, TailConcat
<1>6. Head(p) = Head(ahead)
  BY <1>1, <1>2
<1>7. QED
  BY <1>1, <1>3, <1>4, <1>5, <1>6 DEF Outgoing

LEMMA HelperTakes ==
  ASSUME Shape, TakeCell
  PROVE  /\ Incoming' = Incoming /\ Outgoing # <<>>
         /\ Outgoing' = Tail(Outgoing) /\ Outgoing[1] = Head(stdin)
<1>1. /\ stdin # <<>> /\ stdin' = Tail(stdin)
      /\ UNCHANGED <<todo, ahead, stdout, out, reply>>
  BY DEF TakeCell, client
<1>2. /\ Tail(stdin) \o todo = Tail(Outgoing)
      /\ Outgoing # <<>> /\ Outgoing[1] = Head(stdin)
  BY <1>1, Streams, TailConcat DEF Outgoing
<1>3. QED
  BY <1>1, <1>2 DEF Outgoing, Incoming

LEMMA StrayAdds ==
  ASSUME Shape, Stray
  PROVE  Outgoing' = Outgoing /\ Incoming' = Append(Incoming, Other)
<1> DEFINE p == ahead \o stdout
<1>1. /\ hpc = "call" /\ out' = Append(out, Other)
      /\ UNCHANGED <<stdin, todo, ahead, stdout, reply>>
  BY DEF Stray, Put, client
<1>2. reply = <<>>
  BY <1>1 DEF Shape
<1>3. out' \in Seq(Cell)
  BY <1>1, Streams, OtherType, AppendProperties
<1>4. out \o reply = out /\ out' \o reply' = out'
  BY <1>1, <1>2, <1>3, Streams, ConcatEmptySeq
<1>5. p \in Seq(Cell)
  BY Streams
<1>6. Incoming = p \o out /\ Incoming' = p \o out'
  BY <1>1, <1>4 DEF Incoming
<1> HIDE DEF p
<1>7. p \o Append(out, Other) = Append(p \o out, Other)
  BY <1>5, Streams, OtherType, ConcatAppend
<1>8. QED
  BY <1>1, <1>6, <1>7 DEF Outgoing

LEMMA ReturnAdds ==
  ASSUME Shape, NEW size \in 0 .. MaxReply, Return(size)
  PROVE  Outgoing' = Outgoing /\ Incoming' = Incoming \o Frame(serving, size)
<1> DEFINE p == ahead \o stdout
           f == Frame(serving, size)
<1>1. /\ hpc = "call" /\ reply' = f
      /\ UNCHANGED <<stdin, todo, ahead, stdout, out>>
  BY DEF Return, client
<1>2. reply = <<>>
  BY <1>1 DEF Shape
<1>3. out \o reply = out
  BY <1>2, Streams, ConcatEmptySeq
<1>4. f \in Seq(Cell)
  <2>1. serving \in Nat /\ size \in Nat
    BY Bounds DEF Shape, TypeOK
  <2>2. QED
    BY <2>1, FrameCells
<1>5. p \in Seq(Cell) /\ out \in Seq(Cell)
  BY Streams
<1>6. Incoming = p \o out /\ Incoming' = p \o (out \o f)
  BY <1>1, <1>3 DEF Incoming
<1> HIDE DEF p, f
<1>7. (p \o out) \o f = p \o (out \o f)
  BY <1>4, <1>5, ConcatAssociative
<1>8. QED
  BY <1>1, <1>6, <1>7 DEF Outgoing, f

-----------------------------------------------------------------------------
(* Caller and helper stay in step.                                         *)
LEMMA SameStreams ==
  ASSUME InStep, Outgoing' = Outgoing, Incoming' = Incoming,
         UNCHANGED <<calls, need, corrupted, broken, serving, rest>>,
         \/ pc' = pc
         \/ pc = "write" /\ pc' = "header",
         \/ hpc' = hpc
         \/ Between /\ hpc' \in {"reply", "flush", "header"}
  PROVE  InStep'
<1>1. /\ Between' = Between /\ (hpc' = "payload" <=> hpc = "payload")
      /\ (hpc' = "call" <=> hpc = "call")
  BY DEF Between
<1>2. /\ (pc' = "idle" <=> pc = "idle") /\ (pc' = "body" <=> pc = "body")
      /\ pc' \in {"write", "header"} <=> pc \in {"write", "header"}
  OBVIOUS
<1>3. SUFFICES ASSUME ~corrupted' /\ ~broken'
               PROVE  Quiet' /\ Asked' /\ Served' /\ Reading'
  BY DEF InStep
<1>4. Quiet /\ Asked /\ Served /\ Reading
  BY <1>3 DEF InStep
<1>5. Quiet'
  BY <1>1, <1>2, <1>4 DEF Quiet
<1>6. Asked'
  BY <1>1, <1>2, <1>4 DEF Asked
<1>7. Served'
  <2>1. Strays(Incoming)' <=> Strays(Incoming)
    BY DEF Strays
  <2>2. Response(Incoming)' <=> Response(Incoming)
    BY DEF Response
  <2>3. QED
    BY <1>1, <1>2, <1>4, <2>1, <2>2 DEF Served
<1>8. Reading'
  BY <1>1, <1>2, <1>4 DEF Reading
<1>9. QED
  BY <1>5, <1>6, <1>7, <1>8

LEMMA InStepInit == Init => InStep
<1> SUFFICES ASSUME Init PROVE InStep
  OBVIOUS
<1>1. <<>> \in Seq(Cell) /\ <<>> \o <<>> = <<>>
  BY ConcatEmptySeq, EmptySeq
<1>2. Outgoing = <<>> /\ Incoming = <<>>
  BY <1>1 DEF Init, Outgoing, Incoming
<1>3. QED
  BY <1>2 DEF Init, InStep, Quiet, Asked, Served, Reading, Between

LEMMA InStepCall ==
  ASSUME Shape, InStep, NEW size \in 0 .. MaxRequest, Call(size)
  PROVE  InStep'
<1> DEFINE f == Frame(calls + 1, size)
<1>1. /\ pc = "idle" /\ ~broken /\ pc' = "write" /\ calls' = calls + 1
      /\ todo' = f /\ calls \in Nat /\ size \in Nat
      /\ UNCHANGED <<ahead, corrupted, broken, stdin, stdout, out, reply, hpc,
                     serving>>
  BY Bounds DEF Call, Shape, TypeOK, helper
<1>2. SUFFICES ASSUME ~corrupted PROVE Asked'
  BY <1>1 DEF InStep, Quiet, Served, Reading
<1>3. Outgoing = <<>> /\ Incoming = <<>> /\ Between /\ serving = calls
  BY <1>1, <1>2 DEF InStep, Quiet
<1>4. stdin = <<>>
  BY <1>3, Streams, ConcatEqualIffEmpty DEF Outgoing
<1>5. /\ f \in Seq(Cell) /\ Len(f) = size + 1 /\ f[1] = Header(calls + 1, size)
  <2>1. calls + 1 \in Nat
    BY <1>1
  <2>2. QED
    BY <1>1, <2>1, FrameCells
<1> HIDE DEF f
<1>6. Outgoing' = f
  BY <1>1, <1>4, <1>5, ConcatEmptySeq DEF Outgoing
<1>7. Incoming' = <<>> /\ Between'
  BY <1>1, <1>3 DEF Incoming, Between
<1>8. /\ Outgoing' # <<>> /\ Outgoing'[1].id = calls'
      /\ Outgoing'[1].size = Len(Outgoing') - 1
  <2>1. f # <<>> /\ Len(f) - 1 = size
    BY <1>1, <1>5
  <2>2. f[1].id = calls + 1 /\ f[1].size = size
    BY <1>5 DEF Header
  <2>3. QED
    BY <1>1, <1>6, <2>1, <2>2
<1>9. QED
  BY <1>7, <1>8 DEF Asked

LEMMA InStepReadHeader ==
  ASSUME Shape, InStep, ReadHeader
  PROVE  InStep'
<1>1. /\ pc = "header" /\ ahead # <<>> /\ ahead' = Tail(ahead)
      /\ UNCHANGED <<calls, todo, broken, stdin, stdout, out, reply, hpc,
                     serving>>
  BY DEF ReadHeader, helper
<1>2. SUFFICES ASSUME ~corrupted' /\ ~broken'
               PROVE  Quiet' /\ Asked' /\ Served' /\ Reading'
  BY DEF InStep
<1>3. /\ Head(ahead).id = calls /\ ~corrupted
      /\ pc' = IF Head(ahead).size = 0 THEN "idle" ELSE "body"
      /\ need' = Head(ahead).size
  BY <1>2 DEF ReadHeader
<1>4. Asked /\ Served
  BY <1>1, <1>2, <1>3 DEF InStep
<1>5. /\ Outgoing' = Outgoing /\ Incoming # <<>>
      /\ Incoming' = Tail(Incoming) /\ Incoming[1] = Head(ahead)
  BY <1>1, ReadTakes
<1>6. serving = calls
  BY <1>1, <1>4, <1>5 DEF Asked
<1>7. Incoming \in Seq(Cell) /\ Len(Incoming) \in Nat /\ Len(Incoming) > 0
  BY <1>5, Streams, EmptySeq
<1>8. calls > 0 /\ Incoming[1].id # 0
  <2>1. calls \in Nat /\ calls > 0
    BY <1>1, Bounds DEF Shape, TypeOK
  <2>2. QED
    BY <1>3, <1>5, <2>1
<1>9. ~Strays(Incoming)
  BY <1>7, <1>8 DEF Strays
<1>10. Between /\ Outgoing = <<>> /\ Response(Incoming)
  BY <1>1, <1>4, <1>5, <1>6, <1>9 DEF Served
<1>11. Head(ahead).size = Len(Incoming) - 1
  <2>1. PICK k \in 1 .. Len(Incoming) :
          /\ \A i \in 1 .. k - 1 : Incoming[i].id = 0
          /\ Incoming[k].id = calls /\ Incoming[k].size = Len(Incoming) - k
    BY <1>10 DEF Response
  <2>2. k = 1
    <3>1. SUFFICES ASSUME k # 1 PROVE FALSE
      OBVIOUS
    <3>2. 1 \in 1 .. k - 1
      BY <1>7, <3>1
    <3>3. QED
      BY <1>8, <2>1, <3>2
  <2>3. QED
    BY <1>5, <2>1, <2>2
<1>12. Incoming' \in Seq(Cell) /\ Len(Incoming') = Len(Incoming) - 1
  BY <1>5, <1>7, HeadTailProperties
<1>13. Between' /\ Outgoing' = <<>> /\ serving' = calls'
  BY <1>1, <1>5, <1>6, <1>10 DEF Between
<1>14. CASE Head(ahead).size = 0
  <2>1. Incoming' = <<>>
    BY <1>11, <1>12, <1>14, EmptySeq
  <2>2. QED
    BY <1>3, <1>13, <1>14, <2>1 DEF Quiet, Asked, Served, Reading
<1>15. CASE Head(ahead).size # 0
  BY <1>3, <1>11, <1>12, <1>13, <1>15 DEF Quiet, Asked, Served, Reading
<1>16. QED
  BY <1>14, <1>15

LEMMA InStepReadBody ==
  ASSUME Shape, InStep, ReadBody
  PROVE  InStep'
<1>1. /\ pc = "body" /\ ahead # <<>> /\ ahead' = Tail(ahead)
      /\ need' = need - 1 /\ pc' = IF need = 1 THEN "idle" ELSE "body"
      /\ UNCHANGED <<calls, todo, corrupted, broken, stdin, stdout, out, reply,
                     hpc, serving>>
  BY DEF ReadBody, helper
<1>2. SUFFICES ASSUME ~corrupted' /\ ~broken'
               PROVE  Quiet' /\ Asked' /\ Served' /\ Reading'
  BY DEF InStep
<1>3. /\ Outgoing = <<>> /\ Between /\ serving = calls /\ Len(Incoming) = need
  BY <1>1, <1>2 DEF InStep, Reading
<1>4. /\ Outgoing' = Outgoing /\ Incoming # <<>> /\ Incoming' = Tail(Incoming)
  BY <1>1, ReadTakes
<1>5. /\ Incoming' \in Seq(Cell) /\ Len(Incoming') = need'
  BY <1>1, <1>3, <1>4, Streams, HeadTailProperties
<1>6. Between' /\ Outgoing' = <<>> /\ serving' = calls'
  BY <1>1, <1>3, <1>4 DEF Between
<1>7. CASE need = 1
  <2>1. Incoming' = <<>>
    BY <1>1, <1>5, <1>7, EmptySeq
  <2>2. QED
    BY <1>1, <1>6, <1>7, <2>1 DEF Quiet, Asked, Served, Reading
<1>8. CASE need # 1
  BY <1>1, <1>5, <1>6, <1>8 DEF Quiet, Asked, Served, Reading
<1>9. QED
  BY <1>7, <1>8

LEMMA InStepTake ==
  ASSUME Shape, InStep, HelperHeader \/ HelperPayload
  PROVE  InStep'
<1>1. /\ TakeCell /\ hpc \in {"header", "payload"}
      /\ hpc' = IF rest' = 0 THEN "call" ELSE "payload"
      /\ UNCHANGED <<pc, calls, corrupted, broken>>
  BY DEF HelperHeader, HelperPayload, TakeCell, client
<1>2. SUFFICES ASSUME ~corrupted' /\ ~broken'
               PROVE  Quiet' /\ Asked' /\ Served' /\ Reading'
  BY DEF InStep
<1>3. Quiet /\ Asked /\ Served /\ Reading
  BY <1>1, <1>2 DEF InStep
<1>4. /\ Incoming' = Incoming /\ Outgoing # <<>>
      /\ Outgoing' = Tail(Outgoing) /\ Outgoing[1] = Head(stdin)
  BY <1>1, HelperTakes
<1>5. /\ Outgoing' \in Seq(Cell) /\ Len(Outgoing') = Len(Outgoing) - 1
  BY <1>4, Streams, HeadTailProperties
<1>6. pc \in {"write", "header"}
  BY <1>3, <1>4 DEF Shape, TypeOK, Quiet, Reading
<1>7. /\ Incoming = <<>> /\ serving' = calls /\ rest' = Len(Outgoing')
  <2>1. CASE HelperHeader
    <3>1. /\ hpc = "header" /\ serving' = Head(stdin).id
          /\ rest' = Head(stdin).size
      BY <2>1 DEF HelperHeader
    <3>2. serving # calls
      BY <1>3, <1>4, <1>6, <3>1 DEF Served
    <3>3. /\ Incoming = <<>> /\ Outgoing[1].id = calls
          /\ Outgoing[1].size = Len(Outgoing) - 1
      BY <1>3, <1>6, <3>2 DEF Asked
    <3>4. QED
      BY <1>4, <1>5, <3>1, <3>3
  <2>2. CASE HelperPayload
    <3>1. hpc = "payload" /\ rest' = rest - 1 /\ serving' = serving
      BY <2>2 DEF HelperPayload
    <3>2. serving = calls
      BY <1>3, <1>6, <3>1 DEF Asked, Between
    <3>3. Incoming = <<>> /\ rest = Len(Outgoing)
      BY <1>3, <1>4, <1>6, <3>1, <3>2 DEF Served
    <3>4. QED
      BY <1>5, <3>1, <3>2, <3>3
  <2>3. QED
    BY <2>1, <2>2
<1>8. Served'
  <2>1. CASE rest' = 0
    <3>1. Outgoing' = <<>>
      BY <1>5, <1>7, <2>1, EmptySeq
    <3>2. Incoming' = <<>>
      BY <1>4, <1>7
    <3>3. \A i \in 1 .. Len(Incoming') : Incoming'[i].id = 0
      BY <3>2
    <3>4. QED
      BY <1>1, <2>1, <3>1, <3>3 DEF Served, Strays
  <2>2. CASE rest' # 0
    BY <1>1, <1>4, <1>7, <2>2 DEF Served
  <2>3. QED
    BY <2>1, <2>2
<1>9. QED
  BY <1>1, <1>6, <1>7, <1>8 DEF Quiet, Asked, Reading

LEMMA InStepStray ==
  ASSUME Shape, InStep, Stray
  PROVE  InStep'
<1>1. /\ hpc = "call" /\ UNCHANGED <<pc, calls, corrupted, broken, hpc, serving>>
  BY DEF Stray, client
<1>2. SUFFICES ASSUME ~corrupted' /\ ~broken'
               PROVE  Quiet' /\ Asked' /\ Served' /\ Reading'
  BY DEF InStep
<1>3. Quiet /\ Asked /\ Served /\ Reading
  BY <1>1, <1>2 DEF InStep
<1>4. ~Between
  BY <1>1 DEF Between
<1>5. /\ pc \in {"write", "header"} /\ serving = calls
      /\ Outgoing = <<>> /\ Strays(Incoming)
  BY <1>1, <1>3, <1>4 DEF Shape, TypeOK, Quiet, Asked, Served, Reading
<1>6. Outgoing' = Outgoing /\ Incoming' = Append(Incoming, Other)
  BY StrayAdds
<1>7. /\ Len(Incoming') = Len(Incoming) + 1 /\ Len(Incoming) \in Nat
      /\ \A i \in 1 .. Len(Incoming) : Incoming'[i] = Incoming[i]
      /\ Incoming'[Len(Incoming) + 1] = Other
  BY <1>6, Streams, OtherType, AppendProperties
<1>8. \A i \in 1 .. Len(Incoming') : Incoming'[i].id = 0
  <2> SUFFICES ASSUME NEW i \in 1 .. Len(Incoming') PROVE Incoming'[i].id = 0
    OBVIOUS
  <2>1. CASE i = Len(Incoming) + 1
    BY <1>7, <2>1 DEF Other
  <2>2. CASE i # Len(Incoming) + 1
    <3>1. i \in 1 .. Len(Incoming)
      BY <1>7, <2>2
    <3>2. QED
      BY <1>5, <1>7, <3>1 DEF Strays
  <2>3. QED
    BY <2>1, <2>2
<1>9. Served'
  BY <1>1, <1>5, <1>6, <1>8 DEF Served, Strays
<1>10. QED
  BY <1>1, <1>5, <1>9 DEF Quiet, Asked, Reading

LEMMA InStepReturn ==
  ASSUME Shape, InStep, NEW size \in 0 .. MaxReply, Return(size)
  PROVE  InStep'
<1> DEFINE f == Frame(calls, size)
<1>1. /\ hpc = "call" /\ hpc' = "reply"
      /\ UNCHANGED <<pc, calls, corrupted, broken, serving>>
  BY DEF Return, client
<1>2. SUFFICES ASSUME ~corrupted' /\ ~broken'
               PROVE  Quiet' /\ Asked' /\ Served' /\ Reading'
  BY DEF InStep
<1>3. Quiet /\ Asked /\ Served /\ Reading
  BY <1>1, <1>2 DEF InStep
<1>4. ~Between
  BY <1>1 DEF Between
<1>5. /\ pc \in {"write", "header"} /\ serving = calls
      /\ Outgoing = <<>> /\ Strays(Incoming)
  BY <1>1, <1>3, <1>4 DEF Shape, TypeOK, Quiet, Asked, Served, Reading
<1>6. Outgoing' = Outgoing /\ Incoming' = Incoming \o f
  BY <1>5, ReturnAdds
<1>7. /\ f \in Seq(Cell) /\ Len(f) = size + 1 /\ f[1] = Header(calls, size)
  <2>1. calls \in Nat /\ size \in Nat
    BY Bounds DEF Shape, TypeOK
  <2>2. QED
    BY <2>1, FrameCells
<1> HIDE DEF f
<1> DEFINE n == Len(Incoming)
<1>8. /\ Len(Incoming') = n + Len(f)
      /\ \A i \in 1 .. n + Len(f) :
           Incoming'[i] = IF i <= n THEN Incoming[i] ELSE f[i - n]
  BY <1>6, <1>7, Streams, ConcatProperties
<1>9. n \in Nat /\ size \in Nat
  BY Streams, Bounds
<1>10. \A i \in 1 .. n : Incoming[i].id = 0
  BY <1>5 DEF Strays
<1> HIDE DEF n
<1>11. \A i \in 1 .. n : Incoming'[i].id = 0
  BY <1>7, <1>8, <1>9, <1>10
<1>12. Incoming'[n + 1].id = calls /\ Incoming'[n + 1].size = size
  <2>1. Incoming'[n + 1] = f[1]
    BY <1>7, <1>8, <1>9
  <2>2. QED
    BY <1>7, <2>1 DEF Header
<1>13. \E k \in 1 .. Len(Incoming') :
         /\ \A i \in 1 .. k - 1 : Incoming'[i].id = 0
         /\ Incoming'[k].id = calls' /\ Incoming'[k].size = Len(Incoming') - k
  <2>1. /\ n + 1 \in 1 .. Len(Incoming') /\ (n + 1) - 1 = n
        /\ Len(Incoming') - (n + 1) = size
    BY <1>7, <1>8, <1>9
  <2>2. QED
    BY <1>1, <1>11, <1>12, <2>1
<1>14. Served'
  BY <1>1, <1>5, <1>6, <1>13 DEF Served, Response, Between
<1>15. QED
  BY <1>1, <1>5, <1>14 DEF Quiet, Asked, Reading

LEMMA InStepNext ==
  ASSUME Shape, InStep, [Next]_vars
  PROVE  InStep'
<1>1. CASE UNCHANGED vars
  <2>1. Outgoing' = Outgoing /\ Incoming' = Incoming
    BY <1>1 DEF vars, client, helper, Outgoing, Incoming
  <2>2. QED
    BY <1>1, <2>1, SameStreams DEF vars, client, helper
<1>2. CASE Write
  <2>1. UNCHANGED <<calls, need, corrupted, broken, serving, rest, hpc>>
    BY <1>2 DEF Write, helper
  <2>2. pc = "write" /\ pc' \in {"write", "header"}
    BY <1>2 DEF Write
  <2>3. QED
    BY <1>2, <2>1, <2>2, WriteMoves, SameStreams
<1>3. CASE Fill
  <2>1. UNCHANGED <<pc, calls, need, corrupted, broken, serving, rest, hpc>>
    BY <1>3 DEF Fill, helper
  <2>2. QED
    BY <1>3, <2>1, FillMoves, SameStreams
<1>4. CASE Drain
  <2>1. UNCHANGED <<pc, calls, need, corrupted, broken, serving, rest, hpc>>
    BY <1>4 DEF Drain, client
  <2>2. QED
    BY <1>4, <2>1, DrainMoves, SameStreams
<1>5. CASE PutReply
  <2>1. UNCHANGED <<pc, calls, need, corrupted, broken, serving, rest, hpc>>
    BY <1>5 DEF PutReply, client
  <2>2. QED
    BY <1>5, <2>1, PutMoves, SameStreams
<1>6. CASE Flush \/ Flushed
  <2>1. UNCHANGED <<pc, calls, need, corrupted, broken, serving, rest>>
    BY <1>6 DEF Flush, Flushed, client
  <2>2. Between /\ hpc' \in {"reply", "flush", "header"}
    BY <1>6 DEF Flush, Flushed, Between
  <2>3. Outgoing' = Outgoing /\ Incoming' = Incoming
    BY <1>6 DEF Flush, Flushed, client, Outgoing, Incoming
  <2>4. QED
    BY <2>1, <2>2, <2>3, SameStreams
<1>7. CASE HelperDies
  <2>1. UNCHANGED <<pc, calls, need, corrupted, broken, serving, rest, hpc>>
    BY <1>7 DEF HelperDies, client, helper
  <2>2. Outgoing' = Outgoing /\ Incoming' = Incoming
    BY <1>7 DEF HelperDies, client, helper, Outgoing, Incoming
  <2>3. QED
    BY <2>1, <2>2, SameStreams
<1>8. CASE Fails
  BY <1>8 DEF Fails, InStep
<1>9. QED
  BY <1>1, <1>2, <1>3, <1>4, <1>5, <1>6, <1>7, <1>8, InStepCall,
     InStepReadHeader, InStepReadBody, InStepTake, InStepStray, InStepReturn
  DEF Next, Client, Main, Legacy

LEMMA SpecInStep == Spec => [](Shape /\ InStep)
<1>1. Init => Shape /\ InStep
  BY ShapeInit, InStepInit
<1>2. Shape /\ InStep /\ [Next]_vars => (Shape /\ InStep)'
  BY ShapeNext, InStepNext
<1>3. QED
  BY <1>1, <1>2, PTL DEF Spec

(* Whatever the lengths and the capacities, caller and helper never wait   *)
(* for each other unless stray output was taken for a response: with a     *)
(* request not yet written in full nothing has been written to stdout.     *)
THEOREM NeverStandoff == Spec => []NoStandoff
<1>1. Shape /\ InStep => NoStandoff
  <2> SUFFICES ASSUME Shape, InStep, Standoff, ~corrupted
               PROVE  FALSE
    BY DEF NoStandoff
  <2>1. /\ alive /\ pc = "write" /\ Len(stdin) = Capacity
        /\ Len(stdout) = Capacity
    BY DEF Standoff
  <2>2. ~broken
    BY <2>1 DEF Shape
  <2>3. Asked /\ Served
    BY <2>2 DEF InStep
  <2>4. stdin # <<>> /\ stdout # <<>>
    BY <2>1, Bounds, EmptySeq
  <2>5. Outgoing # <<>>
    BY <2>4, Streams, ConcatEqualIffEmpty DEF Outgoing
  <2>6. Incoming # <<>>
    BY <2>4, Streams, ConcatEqualIffEmpty DEF Incoming
  <2>7. serving = calls
    BY <2>1, <2>3, <2>6 DEF Asked
  <2>8. QED
    BY <2>1, <2>3, <2>5, <2>6, <2>7 DEF Served
<1>2. QED
  BY <1>1, SpecInStep, PTL

(* A call that ends without a fault has read all that was written for it.  *)
THEOREM LeavesNothing == Spec => []NothingLeft
<1>1. Shape /\ InStep => NothingLeft
  <2> SUFFICES ASSUME Shape, InStep, pc = "idle", ~corrupted, ~broken
               PROVE  ahead = <<>> /\ stdout = <<>>
    BY DEF NothingLeft
  <2>1. Incoming = <<>>
    BY DEF InStep, Quiet
  <2>2. ahead \o stdout = <<>>
    BY <2>1, Streams, ConcatEqualIffEmpty DEF Incoming
  <2>3. QED
    BY <2>2, Streams, ConcatEqualIffEmpty
<1>2. QED
  BY <1>1, SpecInStep, PTL
=============================================================================
