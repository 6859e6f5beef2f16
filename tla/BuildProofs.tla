---------------------------- MODULE BuildProofs -----------------------------
(***************************************************************************)
(* What the schema hash is for, for every schema: two peers of the same    *)
(* canonical form understand each other.  From it, the invariants of       *)
(* Build.                                                                  *)
(***************************************************************************)
EXTENDS Build, SequenceTheorems, TLAPS
-----------------------------------------------------------------------------
(* Numbered from 1 on, the functions stay below the releases.              *)
LEMMA FunctionsBelowReleases ==
  ASSUME NEW s \in Schema, WellFormed(s)
  PROVE  \A i \in DOMAIN s.functions : i \in Nat \ {0} /\ i < ReleaseBase
<1>1. s.functions \in Seq(Function)
  BY DEF Schema
<1>2. /\ Len(s.functions) \in Nat
      /\ DOMAIN s.functions = 1 .. Len(s.functions)
  BY <1>1, LenProperties
<1>3. Len(s.functions) < ReleaseBase
  BY DEF WellFormed
<1> QED BY <1>2, <1>3, InterfaceAssumption

(* Positions of handles are numbers.                                       *)
LEMMA ReleasesAreNumbers ==
  ASSUME NEW s \in Schema
  PROVE  \A j \in Released(s) : j \in Nat \ {0}
<1>1. s.handles \in Seq(Handle)
  BY DEF Schema
<1>2. DOMAIN s.handles = 1 .. Len(s.handles) /\ Len(s.handles) \in Nat
  BY <1>1, LenProperties
<1> QED BY <1>2 DEF Released

(* The switch of dispatch finds the case of a function by its number ...   *)
LEMMA FunctionCaseIsTaken ==
  ASSUME NEW s \in Schema, WellFormed(s), NEW i \in DOMAIN s.functions
  PROVE  FunctionCase(s, i) \in Cases(s) /\ Case(s, i) = FunctionCase(s, i)
<1>1. i \in Nat /\ i < ReleaseBase
  BY FunctionsBelowReleases
<1>2. FunctionCase(s, i) \in Cases(s)
  BY DEF Cases
<1>3. FunctionCase(s, i).op = i
  BY DEF FunctionCase
<1>4. ASSUME NEW k \in Cases(s), k.op = i
      PROVE  k = FunctionCase(s, i)
  <2>1. ASSUME NEW n \in DOMAIN s.functions, k = FunctionCase(s, n)
        PROVE  k = FunctionCase(s, i)
    <3>1. k.op = n
      BY <2>1 DEF FunctionCase
    <3> QED BY <2>1, <3>1, <1>4
  <2>2. ASSUME NEW j \in Released(s), k = ReleaseCase(s, j)
        PROVE  FALSE
    <3>1. j \in Nat \ {0} /\ ReleaseBase \in Nat
      BY ReleasesAreNumbers, InterfaceAssumption
    <3>2. k.op = ReleaseBase + j - 1
      BY <2>2 DEF ReleaseCase
    <3> QED BY <3>1, <3>2, <1>1, <1>4
  <2> QED BY <2>1, <2>2 DEF Cases
<1> QED BY <1>2, <1>3, <1>4 DEF Case

(* ... and so that of a release.                                           *)
LEMMA ReleaseCaseIsTaken ==
  ASSUME NEW s \in Schema, WellFormed(s), NEW j \in Released(s)
  PROVE  /\ ReleaseCase(s, j) \in Cases(s)
         /\ Case(s, ReleaseBase + j - 1) = ReleaseCase(s, j)
<1>1. j \in Nat \ {0} /\ ReleaseBase \in Nat
  BY ReleasesAreNumbers, InterfaceAssumption
<1>2. ReleaseCase(s, j) \in Cases(s)
  BY DEF Cases
<1>3. ReleaseCase(s, j).op = ReleaseBase + j - 1
  BY DEF ReleaseCase
<1>4. ASSUME NEW k \in Cases(s), k.op = ReleaseBase + j - 1
      PROVE  k = ReleaseCase(s, j)
  <2>1. ASSUME NEW n \in DOMAIN s.functions, k = FunctionCase(s, n)
        PROVE  FALSE
    <3>1. n \in Nat /\ n < ReleaseBase
      BY FunctionsBelowReleases
    <3>2. k.op = n
      BY <2>1 DEF FunctionCase
    <3> QED BY <3>1, <3>2, <1>1, <1>4
  <2>2. ASSUME NEW n \in Released(s), k = ReleaseCase(s, n)
        PROVE  k = ReleaseCase(s, j)
    <3>1. n \in Nat
      BY ReleasesAreNumbers
    <3>2. k.op = ReleaseBase + n - 1
      BY <2>2 DEF ReleaseCase
    <3>3. n = j
      BY <3>1, <3>2, <1>1, <1>4
    <3> QED BY <2>2, <3>3
  <2> QED BY <2>1, <2>2 DEF Cases
<1> QED BY <1>2, <1>3, <1>4 DEF Case
-----------------------------------------------------------------------------
(* Peers whose hashes are equal mean the same by every operation the       *)
(* bindings send: dispatch, which compares nothing else, is right to.      *)
THEOREM SameHashInteroperates ==
  ASSUME NEW c \in Schema, NEW h \in Schema, WellFormed(c), WellFormed(h),
         Canonical(c) = Canonical(h)
  PROVE  Interoperate(c, h)
<1>1. c.max = h.max
  BY DEF Canonical
<1>2. /\ c.functions \in Seq(Function) /\ c.handles \in Seq(Handle)
      /\ h.functions \in Seq(Function) /\ h.handles \in Seq(Handle)
  BY DEF Schema
<1> DEFINE CF == [i \in DOMAIN c.functions |->
                    LET f == c.functions[i] IN
                    <<f.name, f.symbol, f.params, f.result, f.free>>]
           HF == [i \in DOMAIN h.functions |->
                    LET f == h.functions[i] IN
                    <<f.name, f.symbol, f.params, f.result, f.free>>]
           CH == [j \in DOMAIN c.handles |->
                    <<c.handles[j].name, c.handles[j].drop.symbol>>]
           HH == [j \in DOMAIN h.handles |->
                    <<h.handles[j].name, h.handles[j].drop.symbol>>]
<1>3. CF = HF /\ CH = HH
  BY DEF Canonical
<1>4. DOMAIN c.functions = DOMAIN h.functions
  <2>1. DOMAIN CF = DOMAIN c.functions /\ DOMAIN HF = DOMAIN h.functions
    OBVIOUS
  <2> QED BY <2>1, <1>3
<1>5. ASSUME NEW i \in DOMAIN c.functions
      PROVE  /\ c.functions[i].symbol = h.functions[i].symbol
             /\ c.functions[i].params = h.functions[i].params
             /\ c.functions[i].result = h.functions[i].result
             /\ c.functions[i].free = h.functions[i].free
  <2>1. CF[i] = HF[i]
    BY <1>3
  <2> QED BY <2>1, <1>4
<1>6. DOMAIN c.handles = DOMAIN h.handles
  <2>1. DOMAIN CH = DOMAIN c.handles /\ DOMAIN HH = DOMAIN h.handles
    OBVIOUS
  <2> QED BY <2>1, <1>3
<1>7. ASSUME NEW j \in DOMAIN c.handles
      PROVE  /\ c.handles[j].name = h.handles[j].name
             /\ c.handles[j].drop.symbol = h.handles[j].drop.symbol
  <2>1. CH[j] = HH[j]
    BY <1>3
  <2> QED BY <2>1, <1>6
<1> HIDE DEF CF, HF, CH, HH
<1>8. ASSUME NEW i \in DOMAIN c.functions
      PROVE  Serves(h, FunctionBinding(c, i))
  <2> DEFINE f == c.functions[i]
             k == FunctionCase(h, i)
             b == FunctionBinding(c, i)
  <2>1. i \in DOMAIN h.functions
    BY <1>4
  <2>2. k \in Cases(h) /\ Case(h, i) = k
    BY <2>1, FunctionCaseIsTaken
  <2>3. k.op = i /\ b.op = i
    BY DEF FunctionCase, FunctionBinding
  <2>4. k.takes = b.sends
    BY <1>5 DEF FunctionCase, FunctionBinding, Wires
  <2>5. k.calls = b.symbol /\ k.gives = b.gets
    BY <1>5 DEF FunctionCase, FunctionBinding
  <2>6. k.frees = b.free
    <3>1. b.free = f.free
      BY DEF FunctionBinding
    <3>2. k.frees = IF f.result.kind \in {"string", "bytes"}
                    THEN f.free ELSE ""
      BY <1>5 DEF FunctionCase
    <3>3. f.free # "" => f.result.kind \in {"string", "bytes"}
      BY DEF WellFormed
    <3> QED BY <3>1, <3>2, <3>3
  <2> QED BY <2>2, <2>3, <2>4, <2>5, <2>6 DEF Serves
<1>9. ASSUME NEW j \in Released(c)
      PROVE  Serves(h, ReleaseBinding(c, j, ReleaseBase + j - 1))
  <2> DEFINE k == ReleaseCase(h, j)
             b == ReleaseBinding(c, j, ReleaseBase + j - 1)
  <2>1. j \in DOMAIN c.handles /\ c.handles[j].drop # NoDrop
    BY DEF Released
  <2>2. h.handles[j].drop # NoDrop
    <3>1. c.handles[j].drop.symbol # ""
      BY <2>1 DEF WellFormed
    <3>2. NoDrop.symbol = ""
      BY DEF NoDrop
    <3> QED BY <3>1, <3>2, <2>1, <1>7
  <2>3. j \in Released(h)
    BY <2>1, <2>2, <1>6 DEF Released
  <2>4. k \in Cases(h) /\ Case(h, ReleaseBase + j - 1) = k
    BY <2>3, ReleaseCaseIsTaken
  <2>5. k.op = ReleaseBase + j - 1 /\ b.op = ReleaseBase + j - 1
    BY DEF ReleaseCase, ReleaseBinding
  <2>6. /\ k.takes = b.sends /\ k.calls = b.symbol
        /\ k.gives = b.gets /\ k.frees = b.free
    BY <2>1, <1>7 DEF ReleaseCase, ReleaseBinding
  <2> QED BY <2>4, <2>5, <2>6 DEF Serves
<1>10. \A b \in Bindings(c) : Serves(h, b)
  BY <1>8, <1>9 DEF Bindings, BindingsOfFunctions, BindingsOfReleases
<1> QED BY <1>1, <1>10 DEF Interoperate
-----------------------------------------------------------------------------
(* Where the script is and what the files of OUT_DIR are made from.        *)
Running == pc \in {"bindings", "server", "compile"}

ScriptInv ==
  /\ Running => ~done.ok
  /\ pc = "link" => done.ok
  /\ done.ok => read \in Schemas
  /\ pc \in {"server", "compile"} => bindings = read
  /\ pc = "compile" => server = read

(* What holds of the helper after a run with a compiler that ended well.   *)
HelperInv ==
  done.ok /\ done.mode = "compiler" =>
    /\ helper # None
    /\ helper.schema = bindings
    /\ ~stale => helper.schema = decl /\ helper.source = source

FreshInv == Running /\ ~stale => read = decl

SessionInv ==
  /\ peer # None => client # None
  /\ answer = "served" => peer # None /\ Matches(client, peer)

IInv == TypeOK /\ ScriptInv /\ HelperInv /\ FreshInv /\ SessionInv
-----------------------------------------------------------------------------
(* Arithmetic, apart from the rest of the state.                           *)
LEMMA SuccessorIsNat == \A n \in Nat : n + 1 \in Nat
OBVIOUS

(* What an edit does besides the change itself.                            *)
LEMMA EditKeeps ==
  ASSUME TypeOK, NEW what, Edit(what)
  PROVE  /\ stale' \in BOOLEAN /\ edits' \in 0 .. MaxEdits
         /\ UNCHANGED <<pc, read, done, bindings, server, helper, program,
                        client, peer, answer>>
<1>1. stale' \in BOOLEAN
  BY Zenon DEF Edit
<1>2. edits' \in 0 .. MaxEdits
  <2>1. edits < MaxEdits /\ edits' = edits + 1 /\ edits \in 0 .. MaxEdits
    BY DEF Edit, TypeOK
  <2> QED BY <2>1, BuildAssumption
<1>3. UNCHANGED <<pc, read, done, bindings, server, helper, program,
                  client, peer, answer>>
  BY DEF Edit, outDir, run
<1> QED BY <1>1, <1>2, <1>3

(* Every action keeps the types.                                            *)
LEMMA TypeStep ==
  ASSUME TypeOK, ScriptInv, [Next]_vars
  PROVE  TypeOK'
<1> USE BuildAssumption DEF TypeOK
<1>1. CASE UNCHANGED vars
  BY <1>1 DEF vars, tree, cargo, outDir, run
<1>2. ASSUME NEW s \in Schemas, EditDeclaration(s)
      PROVE  TypeOK'
  BY <1>2, EditKeeps DEF EditDeclaration
<1>3. ASSUME NEW m \in Modes, SetEnvironment(m)
      PROVE  TypeOK'
  BY <1>3, EditKeeps DEF SetEnvironment
<1>4. ASSUME NEW h \in Schemas, Connect(h)
      PROVE  TypeOK'
  BY <1>4 DEF Connect, tree, cargo, outDir
<1>5. CASE EditSource
  <2>1. Edit("source")
    BY <1>5 DEF EditSource
  <2>2. source' \in Nat /\ UNCHANGED <<decl, other, mode>>
    <3>1. source \in Nat
      OBVIOUS
    <3>2. source' = source + 1 /\ UNCHANGED <<decl, other, mode>>
      BY <1>5, Zenon DEF EditSource
    <3>3. source + 1 \in Nat
      BY <3>1, SuccessorIsNat, Zenon
    <3> QED BY <3>2, <3>3
  <2>3. /\ stale' \in BOOLEAN /\ edits' \in 0 .. MaxEdits
        /\ UNCHANGED <<pc, read, done, bindings, server, helper, program,
                       client, peer, answer>>
    BY <2>1, EditKeeps
  <2> QED BY <2>2, <2>3
<1>6. CASE EditOther
  <2>1. Edit("other")
    BY <1>6 DEF EditOther
  <2>2. other' \in Nat /\ UNCHANGED <<decl, source, mode>>
    <3>1. other \in Nat
      OBVIOUS
    <3>2. other' = other + 1 /\ UNCHANGED <<decl, source, mode>>
      BY <1>6, Zenon DEF EditOther
    <3>3. other + 1 \in Nat
      BY <3>1, SuccessorIsNat, Zenon
    <3> QED BY <3>2, <3>3
  <2>3. /\ stale' \in BOOLEAN /\ edits' \in 0 .. MaxEdits
        /\ UNCHANGED <<pc, read, done, bindings, server, helper, program,
                       client, peer, answer>>
    BY <2>1, EditKeeps
  <2> QED BY <2>2, <2>3
<1>7. CASE Begin
  BY <1>7 DEF Begin, tree, outDir, run, UpToDate
<1>8. CASE Fresh
  <2>1. pc = "idle" /\ pc' = "link" /\ UpToDate
    BY <1>8 DEF Fresh
  <2>2. read \in Schemas
    BY <2>1 DEF UpToDate, ScriptInv
  <2> QED BY <1>8, <2>2 DEF Fresh, tree, outDir, run
<1>9. CASE Fail
  BY <1>9 DEF Fail, tree, outDir, run
<1>10. CASE WriteBindings
  BY <1>10 DEF WriteBindings, tree, run
<1>11. CASE WriteServer
  BY <1>11 DEF WriteServer, tree, run
<1>12. CASE Analyse
  BY <1>12 DEF Analyse, Succeed, tree, run
<1>13. CASE Compile
  <2>1. helper' \in Helper
    <3>1. server \in Schemas
      BY <1>13 DEF Compile, Succeed, ScriptInv
    <3> QED BY <1>13, <3>1 DEF Compile, Helper
  <2>2. done' \in [ok : BOOLEAN, mode : Modes]
    BY <1>13 DEF Compile, Succeed
  <2> QED BY <1>13, <2>1, <2>2 DEF Compile, Succeed, tree, run
<1>14. CASE CompileFails
  BY <1>14 DEF CompileFails, tree, run
<1>15. CASE Link
  BY <1>15 DEF Link, tree, outDir, run
<1>16. CASE Start
  BY <1>16 DEF Start, tree, cargo, outDir
<1>17. CASE ConnectDefault
  BY <1>17 DEF ConnectDefault, Connect, tree, cargo, outDir, Helper
<1>18. CASE Call
  BY <1>18 DEF Call, tree, cargo, outDir
<1>19. CASE HelperDies
  BY <1>19 DEF HelperDies, tree, cargo, outDir
<1> QED
  BY <1>1, <1>2, <1>3, <1>4, <1>5, <1>6, <1>7, <1>8, <1>9,
     <1>10, <1>11, <1>12, <1>13, <1>14, <1>15, <1>16, <1>17, <1>18, <1>19 DEF Next
(* The script does one thing after the other.                               *)
LEMMA ScriptStep ==
  ASSUME TypeOK, ScriptInv, [Next]_vars
  PROVE  ScriptInv'
<1> USE BuildAssumption DEF TypeOK, ScriptInv, Running
<1>1. CASE UNCHANGED vars
  BY <1>1 DEF vars, tree, cargo, outDir, run
<1>2. ASSUME NEW s \in Schemas, EditDeclaration(s)
      PROVE  ScriptInv'
  BY <1>2 DEF EditDeclaration, Edit, Watched, outDir, run
<1>3. ASSUME NEW m \in Modes, SetEnvironment(m)
      PROVE  ScriptInv'
  BY <1>3 DEF SetEnvironment, Edit, Watched, outDir, run
<1>4. ASSUME NEW h \in Schemas, Connect(h)
      PROVE  ScriptInv'
  BY <1>4 DEF Connect, tree, cargo, outDir
<1>5. CASE EditSource
  BY <1>5 DEF EditSource, Edit, Watched, outDir, run
<1>6. CASE EditOther
  BY <1>6 DEF EditOther, Edit, Watched, outDir, run
<1>7. CASE Begin
  BY <1>7 DEF Begin, tree, outDir, run, UpToDate
<1>8. CASE Fresh
  BY <1>8 DEF Fresh, tree, outDir, run, UpToDate
<1>9. CASE Fail
  BY <1>9 DEF Fail, tree, outDir, run
<1>10. CASE WriteBindings
  BY <1>10 DEF WriteBindings, tree, run
<1>11. CASE WriteServer
  BY <1>11 DEF WriteServer, tree, run
<1>12. CASE Analyse
  BY <1>12 DEF Analyse, Succeed, tree, run
<1>13. CASE Compile
  BY <1>13 DEF Compile, Succeed, tree, run, Helper
<1>14. CASE CompileFails
  BY <1>14 DEF CompileFails, tree, run
<1>15. CASE Link
  BY <1>15 DEF Link, tree, outDir, run
<1>16. CASE Start
  BY <1>16 DEF Start, tree, cargo, outDir
<1>17. CASE ConnectDefault
  BY <1>17 DEF ConnectDefault, Connect, tree, cargo, outDir, Helper
<1>18. CASE Call
  BY <1>18 DEF Call, tree, cargo, outDir
<1>19. CASE HelperDies
  BY <1>19 DEF HelperDies, tree, cargo, outDir
<1> QED
  BY <1>1, <1>2, <1>3, <1>4, <1>5, <1>6, <1>7, <1>8, <1>9,
     <1>10, <1>11, <1>12, <1>13, <1>14, <1>15, <1>16, <1>17, <1>18, <1>19 DEF Next
(* Only a run of the compiler makes done.ok true in its mode.               *)
LEMMA HelperStep ==
  ASSUME TypeOK, ScriptInv, HelperInv, FreshInv, [Next]_vars
  PROVE  HelperInv'
<1> USE BuildAssumption DEF TypeOK, ScriptInv, HelperInv, FreshInv, Running
<1>1. CASE UNCHANGED vars
  BY <1>1 DEF vars, tree, cargo, outDir, run
<1>2. ASSUME NEW s \in Schemas, EditDeclaration(s)
      PROVE  HelperInv'
  BY <1>2 DEF EditDeclaration, Edit, Watched, outDir, run
<1>3. ASSUME NEW m \in Modes, SetEnvironment(m)
      PROVE  HelperInv'
  BY <1>3 DEF SetEnvironment, Edit, Watched, outDir, run
<1>4. ASSUME NEW h \in Schemas, Connect(h)
      PROVE  HelperInv'
  BY <1>4 DEF Connect, tree, cargo, outDir
<1>5. CASE EditSource
  BY <1>5 DEF EditSource, Edit, Watched, outDir, run
<1>6. CASE EditOther
  BY <1>6 DEF EditOther, Edit, Watched, outDir, run
<1>7. CASE Begin
  BY <1>7 DEF Begin, tree, outDir, run, UpToDate
<1>8. CASE Fresh
  BY <1>8 DEF Fresh, tree, outDir, run, UpToDate
<1>9. CASE Fail
  BY <1>9 DEF Fail, tree, outDir, run
<1>10. CASE WriteBindings
  BY <1>10 DEF WriteBindings, tree, run
<1>11. CASE WriteServer
  BY <1>11 DEF WriteServer, tree, run
<1>12. CASE Analyse
  BY <1>12 DEF Analyse, Succeed, tree, run
<1>13. CASE Compile
  <2>1. helper' = [schema |-> server, source |-> source, other |-> other]
    BY <1>13 DEF Compile
  <2>2. server \in Schemas /\ source \in Nat /\ other \in Nat
    BY <1>13 DEF Compile, Succeed
  <2>3. helper' # None
    <3>1. helper' \in [schema : Schemas, source : Nat, other : Nat]
      BY <2>1, <2>2
    <3> QED BY <3>1
  <2>4. helper'.schema = server /\ helper'.source = source
    BY <2>1
  <2>5. server = bindings /\ (~stale => server = decl)
    BY <1>13 DEF Compile, Succeed
  <2>6. UNCHANGED <<decl, source, stale, bindings>>
    BY <1>13 DEF Compile, Succeed, tree
  <2> QED BY <2>3, <2>4, <2>5, <2>6
<1>14. CASE CompileFails
  BY <1>14 DEF CompileFails, tree, run
<1>15. CASE Link
  BY <1>15 DEF Link, tree, outDir, run
<1>16. CASE Start
  BY <1>16 DEF Start, tree, cargo, outDir
<1>17. CASE ConnectDefault
  BY <1>17 DEF ConnectDefault, Connect, tree, cargo, outDir, Helper
<1>18. CASE Call
  BY <1>18 DEF Call, tree, cargo, outDir
<1>19. CASE HelperDies
  BY <1>19 DEF HelperDies, tree, cargo, outDir
<1> QED
  BY <1>1, <1>2, <1>3, <1>4, <1>5, <1>6, <1>7, <1>8, <1>9,
     <1>10, <1>11, <1>12, <1>13, <1>14, <1>15, <1>16, <1>17, <1>18, <1>19 DEF Next
(* An edit of what is watched makes the run that is under way stale.        *)
LEMMA FreshStep ==
  ASSUME TypeOK, FreshInv, [Next]_vars
  PROVE  FreshInv'
<1> USE BuildAssumption DEF TypeOK, FreshInv, Running
<1>1. CASE UNCHANGED vars
  BY <1>1 DEF vars, tree, cargo, outDir, run
<1>2. ASSUME NEW s \in Schemas, EditDeclaration(s)
      PROVE  FreshInv'
  BY <1>2 DEF EditDeclaration, Edit, Watched, outDir, run
<1>3. ASSUME NEW m \in Modes, SetEnvironment(m)
      PROVE  FreshInv'
  BY <1>3 DEF SetEnvironment, Edit, Watched, outDir, run
<1>4. ASSUME NEW h \in Schemas, Connect(h)
      PROVE  FreshInv'
  BY <1>4 DEF Connect, tree, cargo, outDir
<1>5. CASE EditSource
  BY <1>5 DEF EditSource, Edit, Watched, outDir, run
<1>6. CASE EditOther
  BY <1>6 DEF EditOther, Edit, Watched, outDir, run
<1>7. CASE Begin
  BY <1>7 DEF Begin, tree, outDir, run, UpToDate
<1>8. CASE Fresh
  BY <1>8 DEF Fresh, tree, outDir, run, UpToDate
<1>9. CASE Fail
  BY <1>9 DEF Fail, tree, outDir, run
<1>10. CASE WriteBindings
  BY <1>10 DEF WriteBindings, tree, run
<1>11. CASE WriteServer
  BY <1>11 DEF WriteServer, tree, run
<1>12. CASE Analyse
  BY <1>12 DEF Analyse, Succeed, tree, run
<1>13. CASE Compile
  BY <1>13 DEF Compile, Succeed, tree, run, Helper
<1>14. CASE CompileFails
  BY <1>14 DEF CompileFails, tree, run
<1>15. CASE Link
  BY <1>15 DEF Link, tree, outDir, run
<1>16. CASE Start
  BY <1>16 DEF Start, tree, cargo, outDir
<1>17. CASE ConnectDefault
  BY <1>17 DEF ConnectDefault, Connect, tree, cargo, outDir, Helper
<1>18. CASE Call
  BY <1>18 DEF Call, tree, cargo, outDir
<1>19. CASE HelperDies
  BY <1>19 DEF HelperDies, tree, cargo, outDir
<1> QED
  BY <1>1, <1>2, <1>3, <1>4, <1>5, <1>6, <1>7, <1>8, <1>9,
     <1>10, <1>11, <1>12, <1>13, <1>14, <1>15, <1>16, <1>17, <1>18, <1>19 DEF Next
(* A session ends before another begins.                                    *)
LEMMA SessionStep ==
  ASSUME TypeOK, SessionInv, [Next]_vars
  PROVE  SessionInv'
<1> USE BuildAssumption DEF TypeOK, SessionInv
<1>1. CASE UNCHANGED vars
  BY <1>1 DEF vars, tree, cargo, outDir, run
<1>2. ASSUME NEW s \in Schemas, EditDeclaration(s)
      PROVE  SessionInv'
  BY <1>2 DEF EditDeclaration, Edit, Watched, outDir, run
<1>3. ASSUME NEW m \in Modes, SetEnvironment(m)
      PROVE  SessionInv'
  BY <1>3 DEF SetEnvironment, Edit, Watched, outDir, run
<1>4. ASSUME NEW h \in Schemas, Connect(h)
      PROVE  SessionInv'
  BY <1>4 DEF Connect, tree, cargo, outDir
<1>5. CASE EditSource
  BY <1>5 DEF EditSource, Edit, Watched, outDir, run
<1>6. CASE EditOther
  BY <1>6 DEF EditOther, Edit, Watched, outDir, run
<1>7. CASE Begin
  BY <1>7 DEF Begin, tree, outDir, run, UpToDate
<1>8. CASE Fresh
  BY <1>8 DEF Fresh, tree, outDir, run, UpToDate
<1>9. CASE Fail
  BY <1>9 DEF Fail, tree, outDir, run
<1>10. CASE WriteBindings
  BY <1>10 DEF WriteBindings, tree, run
<1>11. CASE WriteServer
  BY <1>11 DEF WriteServer, tree, run
<1>12. CASE Analyse
  BY <1>12 DEF Analyse, Succeed, tree, run
<1>13. CASE Compile
  BY <1>13 DEF Compile, Succeed, tree, run, Helper
<1>14. CASE CompileFails
  BY <1>14 DEF CompileFails, tree, run
<1>15. CASE Link
  BY <1>15 DEF Link, tree, outDir, run
<1>16. CASE Start
  BY <1>16 DEF Start, tree, cargo, outDir
<1>17. CASE ConnectDefault
  BY <1>17 DEF ConnectDefault, Connect, tree, cargo, outDir, Helper
<1>18. CASE Call
  BY <1>18 DEF Call, tree, cargo, outDir
<1>19. CASE HelperDies
  BY <1>19 DEF HelperDies, tree, cargo, outDir
<1> QED
  BY <1>1, <1>2, <1>3, <1>4, <1>5, <1>6, <1>7, <1>8, <1>9,
     <1>10, <1>11, <1>12, <1>13, <1>14, <1>15, <1>16, <1>17, <1>18, <1>19 DEF Next
-----------------------------------------------------------------------------
(* The invariant of a build in a changing tree.                            *)
THEOREM IInvIsInductive == Spec => []IInv
<1>1. Init => IInv
  BY BuildAssumption
  DEF Init, IInv, TypeOK, ScriptInv, HelperInv, FreshInv, SessionInv, Running
<1>2. IInv /\ [Next]_vars => IInv'
  BY TypeStep, ScriptStep, HelperStep, FreshStep, SessionStep DEF IInv
<1> QED BY <1>1, <1>2, PTL DEF Spec

(* The files, the processes and the state of cargo are what their types    *)
(* say for any schemas and any number of edits.                            *)
THEOREM TypeCorrect == Spec => []TypeOK
<1>1. IInv => TypeOK
  BY DEF IInv
<1> QED BY <1>1, IInvIsInductive, PTL

(* Whatever helper a program meets, a call is served only by one made from *)
(* a declaration that means the same: SameHashInteroperates lifted to the  *)
(* program that was started and the process it is connected to.            *)
THEOREM ServedByItsPeer == Spec => []ServedByPeer
<1>1. IInv => ServedByPeer
  <2> SUFFICES ASSUME IInv, answer = "served" PROVE Interoperate(client, peer)
    BY DEF ServedByPeer
  <2>1. peer # None /\ client # None /\ Matches(client, peer)
    BY DEF IInv, SessionInv
  <2>2. client \in Schemas /\ peer \in Schemas
    BY <2>1 DEF IInv, TypeOK
  <2>3. /\ client \in Schema /\ WellFormed(client)
        /\ peer \in Schema /\ WellFormed(peer)
    BY <2>2, BuildAssumption
  <2> QED BY <2>1, <2>3, SameHashInteroperates DEF Matches
<1> QED BY <1>1, IInvIsInductive, PTL

(* Bindings and helper of a run with a compiler are of one declaration.    *)
THEOREM PairIsOnDisk == Spec => []PairOnDisk
<1>1. IInv => PairOnDisk
  BY DEF IInv, ScriptInv, HelperInv, PairOnDisk
<1> QED BY <1>1, IInvIsInductive, PTL

(* When cargo finds nothing to do, nothing it watches has changed.         *)
THEOREM WatchedIsUpToDate == Spec => []WatchedUpToDate
<1>1. IInv => WatchedUpToDate
  BY DEF IInv, HelperInv, WatchedUpToDate, UpToDate
<1> QED BY <1>1, IInvIsInductive, PTL
=============================================================================
