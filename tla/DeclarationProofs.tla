------------------------- MODULE DeclarationProofs --------------------------
(***************************************************************************)
(* Schema::parse and the two generators, for every source file: that no    *)
(* panic of theirs is reached, and that a schema that is accepted runs     *)
(* what is declared.                                                       *)
(*                                                                         *)
(* The argument: the first loop leaves a handle for every pointer of every *)
(* item, the destructors among them; the second turns each item before     *)
(* the one it is at into its function, or into the destructor of the       *)
(* handle of its parameter, where no later one can replace it; and what    *)
(* the validation at the end finds is what the generators meet.            *)
(***************************************************************************)
EXTENDS Declaration, FiniteSetTheorems, TLAPS

Far == {"parse", "accepted"}

(* Where the two loops are.                                                *)
Places ==
  /\ pc = "find" => i = 1 /\ k = 1
  /\ pc = "collect" =>
       /\ i <= Len(Items) + 1
       /\ i <= Len(Items) => k <= Len(Items[i].params) + 1
  /\ pc = "parse" => i <= Len(Items) + 1
  /\ pc = "accepted" => i = Len(Items) + 1

Types(f) == 1 .. Len(f.params) + 1
Past(m, n) == pc \in Far \/ m < i \/ (m = i /\ n < k)

(* Every pointer the first loop has passed has its handle.                 *)
Pointers ==
  pc \in Far \cup {"collect"} =>
    \A m \in DOMAIN Items : \A n \in Types(Items[m]) :
      LET ty == TypeAt(Items[m], n) IN
      Past(m, n) /\ ty.shape = "ptr" =>
        ty.of # "" /\ ty.of \in HandleNames(handles)

(* The types the parser makes.                                             *)
Proper(ty) == ty \in Type /\ (ty.kind = "handle" <=> ty.of # "")

ProperFunctions ==
  \A n \in DOMAIN functions :
    /\ Proper(functions[n].result)
    /\ \A m \in DOMAIN functions[n].params : Proper(functions[n].params[m].ty)

(* Every item the second loop has passed is in the schema.                 *)
Declares(f) == \E n \in DOMAIN functions : functions[n] = Parsed(f)

Destroys(f) ==
  LET d == Parsed(f) IN
  /\ ShapeOfDrop(d)
  /\ \E j \in DOMAIN handles :
       /\ handles[j].name = d.params[1].ty.of
       /\ handles[j].drop = [name |-> d.name, symbol |-> d.symbol]

Entered ==
  pc \in Far =>
    \A m \in DOMAIN Items : m < i =>
      /\ FunctionParses(Items[m])
      /\ IF IsDrop(Items[m]) THEN Destroys(Items[m]) ELSE Declares(Items[m])

Counted ==
  /\ pc \in {"find", "collect"} => functions = <<>>
  /\ pc \in Far => Len(functions) < i

Checked ==
  /\ pc \notin {"find", "rejected"} => BlockAccepted
  /\ pc = "accepted" => Valid

Inv ==
  /\ TypeOK /\ file \in Files
  /\ Places /\ Pointers /\ ProperFunctions /\ Entered /\ Counted /\ Checked
-----------------------------------------------------------------------------
LEMMA SeqFacts ==
  ASSUME NEW S, NEW s \in Seq(S)
  PROVE  /\ Len(s) \in Nat /\ DOMAIN s = 1 .. Len(s)
         /\ \A m \in DOMAIN s : s[m] \in S
OBVIOUS

LEMMA SeqOf ==
  ASSUME NEW S, NEW n \in Nat, NEW s \in [1 .. n -> S]
  PROVE  s \in Seq(S) /\ DOMAIN s = 1 .. n
OBVIOUS

(* What the parser makes of a file, its block, an item and a type.         *)
LEMMA FoundType ==
  ASSUME file \in Files, BlockAccepted
  PROVE  /\ Found \in Block /\ Items \in Seq(Item)
         /\ Len(Items) \in Nat /\ DOMAIN Items = 1 .. Len(Items)
         /\ Len(Items) < ReleaseBase
<1>1. Bridges # {}
  BY FS_EmptySet DEF BlockAccepted
<1>2. PICK n \in Bridges : Found = file[n]
  BY <1>1 DEF Found
<1>3. file \in Seq(Block) /\ n \in DOMAIN file
  BY <1>2, DeclarationAssumption DEF Bridges
<1>4. Found \in Block /\ Len(Found.items) < ReleaseBase
  <2>1. file[n] \in Block
    BY <1>3, SeqFacts, Zenon
  <2>2. Len(file[n].items) < ReleaseBase
    BY <1>3, DeclarationAssumption, Zenon
  <2>3. QED
    BY <1>2, <2>1, <2>2, Zenon
<1>5. Items \in Seq(Item)
  BY <1>4 DEF Items, Block
<1>6. QED
  BY <1>4, <1>5 DEF Items

LEMMA TypeOfProper ==
  ASSUME NEW ty \in SynType, NEW result \in BOOLEAN,
         TypeOf(ty, result) # Bad
  PROVE  /\ Proper(TypeOf(ty, result))
         /\ TypeOf(ty, result).kind = "handle" =>
              ty.shape = "ptr" /\ TypeOf(ty, result).of = ty.of
<1>1. ty.of \in Optional
  BY DEF SynType
<1> DEFINE t == TypeOf(ty, result)
           Good(x) == /\ Proper(x)
                      /\ x.kind = "handle" => ty.shape = "ptr" /\ x.of = ty.of
<1>2. \/ \E kind \in Kinds \ {"handle"} : t = Plain(kind)
      \/ ty.shape = "ptr" /\ ty.of # "" /\ t = Opaque(ty.of)
  BY DEF TypeOf, Void, Kinds, Scalars
<1>3. ASSUME NEW kind \in Kinds \ {"handle"}
      PROVE  Good(Plain(kind))
  <2>1. "" \in Optional
    BY DEF Optional
  <2>2. QED
    BY <1>3, <2>1 DEF Plain, Proper, Type
<1>4. CASE ty.shape = "ptr" /\ ty.of # "" /\ t = Opaque(ty.of)
  <2>1. Good(Opaque(ty.of))
    BY <1>1, <1>4 DEF Opaque, Proper, Type, Kinds
  <2>2. QED
    BY <1>4, <2>1, Zenon
<1> HIDE DEF Good
<1>5. Good(t)
  BY <1>2, <1>3, <1>4 DEF Good
<1>6. QED
  BY <1>5 DEF Good

LEMMA TextType ==
  ASSUME NEW f \in Item, NEW path, NEW default
  PROVE  \/ Attrs(f, path) = {} /\ Text(f, path, default) = default
         \/ Text(f, path, default) \in Named
<1>1. CASE Attrs(f, path) = {}
  BY <1>1 DEF Text
<1>2. CASE Attrs(f, path) # {}
  <2>1. PICK n \in Attrs(f, path) : Text(f, path, default) = f.attrs[n].text
    BY <1>2 DEF Text
  <2>2. f.attrs \in Seq(Attr) /\ n \in DOMAIN f.attrs
    BY DEF Item, Attrs
  <2>3. f.attrs[n] \in Attr
    BY <2>2, SeqFacts
  <2>4. \A a \in Attr : a.text \in Named
    BY DEF Attr
  <2>5. QED
    BY <2>1, <2>3, <2>4, Zenon
<1>3. QED
  BY <1>1, <1>2

LEMMA FunctionType ==
  ASSUME NEW name \in Named, NEW symbol \in Named,
         NEW params \in Seq(Param), NEW result \in Type,
         NEW free \in Optional
  PROVE  [name |-> name, symbol |-> symbol, params |-> params,
          result |-> result, free |-> free] \in Function
BY DEF Function

LEMMA ParsedType ==
  ASSUME NEW f \in Item, FunctionParses(f)
  PROVE  /\ Parsed(f) \in Function /\ Proper(Parsed(f).result)
         /\ DOMAIN Parsed(f).params = 1 .. Len(f.params)
         /\ \A m \in DOMAIN Parsed(f).params :
              /\ Proper(Parsed(f).params[m].ty)
              /\ Parsed(f).params[m].ty.kind = "handle" =>
                   /\ f.params[m].ty.shape = "ptr"
                   /\ f.params[m].ty.of = Parsed(f).params[m].ty.of
<1> DEFINE Typed == [name : Named, ty : SynType]
<1>1. f.name \in Named /\ f.result \in SynType /\ f.params \in Seq(Typed)
  BY DEF Item
<1>2. /\ DOMAIN f.params = 1 .. Len(f.params) /\ Len(f.params) \in Nat
      /\ \A m \in DOMAIN f.params :
           /\ TypeOf(f.params[m].ty, FALSE) # Bad
           /\ f.params[m].ty \in SynType /\ f.params[m].name \in Named
  <2>1. /\ DOMAIN f.params = 1 .. Len(f.params) /\ Len(f.params) \in Nat
        /\ \A m \in DOMAIN f.params : f.params[m] \in Typed
    <3> HIDE DEF Typed
    <3>1. QED
      BY <1>1, SeqFacts
  <2>2. \A m \in DOMAIN f.params : TypeOf(f.params[m].ty, FALSE) # Bad
    BY DEF FunctionParses
  <2>3. QED
    BY <2>1, <2>2
<1>3. /\ Proper(TypeOf(f.result, TRUE))
      /\ \A m \in DOMAIN f.params :
           /\ Proper(TypeOf(f.params[m].ty, FALSE))
           /\ TypeOf(f.params[m].ty, FALSE).kind = "handle" =>
                /\ f.params[m].ty.shape = "ptr"
                /\ TypeOf(f.params[m].ty, FALSE).of = f.params[m].ty.of
  BY <1>1, <1>2, TypeOfProper DEF FunctionParses
<1>4. Symbol(f) \in Named /\ Text(f, "filc::free", "") \in Optional
  <2>1. \/ Text(f, "filc::free", "") = ""
        \/ Text(f, "filc::free", "") \in Named
    BY TextType, Zenon
  <2>2. \/ Text(f, "link_name", f.name) = f.name
        \/ Text(f, "link_name", f.name) \in Named
    BY TextType, Zenon
  <2>3. QED
    BY <1>1, <2>1, <2>2 DEF Symbol, Optional
<1> DEFINE ps == [m \in DOMAIN f.params |->
                    [name |-> f.params[m].name,
                     ty |-> TypeOf(f.params[m].ty, FALSE)]]
<1>5. ps \in Seq(Param) /\ DOMAIN ps = 1 .. Len(f.params)
  <2>1. \A m \in DOMAIN f.params :
          [name |-> f.params[m].name, ty |-> TypeOf(f.params[m].ty, FALSE)]
            \in Param
    BY <1>2, <1>3 DEF Param, Proper
  <2>2. ps \in [1 .. Len(f.params) -> Param]
    BY <1>2, <2>1
  <2> HIDE DEF ps
  <2>3. QED
    BY <1>2, <2>2, SeqOf
<1>6. \A m \in DOMAIN ps : ps[m].ty = TypeOf(f.params[m].ty, FALSE)
  OBVIOUS
<1>7. DOMAIN ps = DOMAIN f.params
  OBVIOUS
<1>8. Parsed(f) = [name |-> f.name, symbol |-> Symbol(f), params |-> ps,
                   result |-> TypeOf(f.result, TRUE),
                   free |-> Text(f, "filc::free", "")]
  BY DEF Parsed
<1>9. Parsed(f).params = ps /\ Parsed(f).result = TypeOf(f.result, TRUE)
  BY DEF Parsed
<1>10. Parsed(f) \in Function
  <2>1. TypeOf(f.result, TRUE) \in Type
    BY <1>3 DEF Proper
  <2> HIDE DEF ps
  <2>2. [name |-> f.name, symbol |-> Symbol(f), params |-> ps,
         result |-> TypeOf(f.result, TRUE),
         free |-> Text(f, "filc::free", "")] \in Function
    BY <1>1, <1>4, <1>5, <2>1, FunctionType, Zenon
  <2>3. QED
    BY <1>8, <2>2, Zenon
<1> HIDE DEF ps
<1>11. QED
  BY <1>3, <1>5, <1>6, <1>7, <1>9, <1>10

(* The block and the schema are functions of what a step leaves alone.     *)
LEMMA SameFile ==
  ASSUME file' = file
  PROVE  /\ Found' = Found /\ Items' = Items
         /\ BlockAccepted' <=> BlockAccepted
<1>1. Bridges' = Bridges
  BY DEF Bridges
<1>2. Found' = Found
  BY <1>1 DEF Found
<1>3. Items' = Items
  BY <1>2 DEF Items
<1>4. QED
  BY <1>1, <1>2, <1>3 DEF BlockAccepted

LEMMA SameSchema ==
  ASSUME file' = file, handles' = handles, functions' = functions
  PROVE  Valid' <=> Valid
<1>1. Found' = Found
  BY SameFile
<1>2. schema' = schema
  BY <1>1 DEF schema
<1>3. QED
  BY <1>1, <1>2 DEF Valid

LEMMA AppendNames ==
  ASSUME NEW hs \in Seq(Handle), NEW h \in Handle
  PROVE  HandleNames(Append(hs, h)) = HandleNames(hs) \cup {h.name}
<1>1. /\ Len(Append(hs, h)) = Len(hs) + 1 /\ Len(hs) \in Nat
      /\ \A j \in 1 .. Len(hs) : Append(hs, h)[j] = hs[j]
      /\ Append(hs, h)[Len(hs) + 1] = h
      /\ DOMAIN Append(hs, h) = 1 .. Len(hs) + 1
      /\ DOMAIN hs = 1 .. Len(hs)
  OBVIOUS
<1>2. QED
  BY <1>1 DEF HandleNames


LEMMA ItemFacts ==
  ASSUME file \in Files, BlockAccepted, NEW m \in DOMAIN Items
  PROVE  /\ Items[m] \in Item /\ m \in Nat \ {0} /\ m <= Len(Items)
         /\ Len(Items[m].params) \in Nat
         /\ DOMAIN Items[m].params = 1 .. Len(Items[m].params)
         /\ \A n \in Types(Items[m]) : TypeAt(Items[m], n) \in SynType
<1>1. /\ Items \in Seq(Item) /\ DOMAIN Items = 1 .. Len(Items)
      /\ Len(Items) \in Nat
  BY FoundType, Zenon
<1>2. Items[m] \in Item /\ m \in Nat \ {0} /\ m <= Len(Items)
  <2>1. Items[m] \in Item
    BY <1>1, SeqFacts, Zenon
  <2>2. QED
    BY <1>1, <2>1
<1> DEFINE Typed == [name : Named, ty : SynType]
<1>3. Items[m].params \in Seq(Typed) /\ Items[m].result \in SynType
  BY <1>2 DEF Item
<1>4. /\ Len(Items[m].params) \in Nat
      /\ DOMAIN Items[m].params = 1 .. Len(Items[m].params)
      /\ \A n \in DOMAIN Items[m].params : Items[m].params[n] \in Typed
  <2> HIDE DEF Typed
  <2>1. QED
    BY <1>3, SeqFacts
<1>5. \A n \in DOMAIN Items[m].params : Items[m].params[n].ty \in SynType
  BY <1>4
<1>6. \A n \in Types(Items[m]) : TypeAt(Items[m], n) \in SynType
  BY <1>3, <1>5 DEF TypeAt
<1>7. QED
  BY <1>2, <1>4, <1>6, Zenon

LEMMA InvInit == Init => Inv
<1> SUFFICES ASSUME Init
             PROVE  Inv
  OBVIOUS
<1>1. TypeOK /\ file \in Files
  <2>1. file \in Seq(Block)
    BY DeclarationAssumption DEF Init
  <2>2. <<>> \in Seq(Handle) /\ <<>> \in Seq(Function)
    OBVIOUS
  <2>3. QED
    BY <2>1, <2>2 DEF Init, TypeOK
<1>2. Places /\ Pointers /\ Entered /\ Checked
  BY DEF Init, Places, Pointers, Entered, Checked, Far
<1>3. ProperFunctions /\ Counted
  BY DEF Init, ProperFunctions, Counted, Far
<1>4. QED
  BY <1>1, <1>2, <1>3 DEF Inv

(* The end of a step that rejects the file.                                *)
LEMMA RejectKeeps ==
  ASSUME Inv, pc' = "rejected",
         UNCHANGED <<file, i, k, handles, functions>>
  PROVE  Inv'
<1>1. TypeOK' /\ file' \in Files
  BY DEF Inv, TypeOK
<1>2. Places' /\ Pointers' /\ Entered' /\ Checked'
  BY DEF Places, Pointers, Entered, Checked, Far
<1>3. ProperFunctions' /\ Counted'
  BY DEF Inv, ProperFunctions, Counted, Far
<1>4. QED
  BY <1>1, <1>2, <1>3 DEF Inv

LEMMA FindKeeps ==
  ASSUME Inv, Find
  PROVE  Inv'
<1>1. /\ pc = "find" /\ pc' = "collect" /\ BlockAccepted
      /\ i = 1 /\ k = 1 /\ i' = 1 /\ k' = 1
      /\ file' = file /\ handles' = handles /\ functions' = functions
      /\ file \in Files /\ functions = <<>>
  BY DEF Inv, Find, Places, Counted
<1>2. Items' = Items /\ BlockAccepted'
  BY <1>1, SameFile
<1>3. Len(Items) \in Nat /\ DOMAIN Items = 1 .. Len(Items)
  BY <1>1, FoundType
<1>4. TypeOK'
  BY <1>1 DEF Inv, TypeOK
<1>5. Places'
  <2>1. 1 <= Len(Items) => Len(Items[1].params) \in Nat
    BY <1>1, <1>3, ItemFacts
  <2>2. QED
    BY <1>1, <1>2, <1>3, <2>1 DEF Places
<1>6. Pointers'
  <2>1. ASSUME NEW m \in DOMAIN Items, NEW n \in Types(Items[m])
        PROVE  ~ Past(m, n)'
    BY <1>1, <1>3, <2>1 DEF Past, Types, Far
  <2>2. QED
    BY <1>2, <2>1 DEF Pointers
<1>7. ProperFunctions' /\ Counted' /\ Entered'
  BY <1>1 DEF Inv, ProperFunctions, Counted, Entered, Far
<1>8. Checked'
  BY <1>1, <1>2 DEF Checked
<1>9. QED
  BY <1>1, <1>4, <1>5, <1>6, <1>7, <1>8 DEF Inv

LEMMA CollectedKeeps ==
  ASSUME Inv, Collected
  PROVE  Inv'
<1>1. /\ pc = "collect" /\ pc' = "parse" /\ BlockAccepted
      /\ i > Len(Items) /\ i' = 1 /\ i \in Nat /\ k' = k
      /\ file' = file /\ handles' = handles /\ functions' = functions
      /\ file \in Files /\ functions = <<>>
  BY DEF Inv, Collected, Checked, Counted, TypeOK
<1>2. Items' = Items /\ BlockAccepted'
  BY <1>1, SameFile
<1>3. Len(Items) \in Nat /\ DOMAIN Items = 1 .. Len(Items)
  BY <1>1, FoundType
<1>4. TypeOK'
  BY <1>1 DEF Inv, TypeOK
<1>5. Places'
  BY <1>1, <1>2, <1>3 DEF Places
<1>6. Pointers'
  <2>1. \A m \in DOMAIN Items : \A n \in Types(Items[m]) : Past(m, n)
    BY <1>1, <1>3 DEF Past
  <2>2. \A m \in DOMAIN Items : \A n \in Types(Items[m]) :
          LET ty == TypeAt(Items[m], n) IN
          ty.shape = "ptr" => ty.of # "" /\ ty.of \in HandleNames(handles)
    BY <1>1, <2>1 DEF Inv, Pointers
  <2>3. QED
    BY <1>1, <1>2, <2>2 DEF Pointers
<1>7. ProperFunctions' /\ Counted'
  BY <1>1 DEF Inv, ProperFunctions, Counted, Far
<1>8. Entered'
  BY <1>1, <1>2, <1>3 DEF Entered
<1>9. Checked'
  BY <1>1, <1>2 DEF Checked
<1>10. QED
  BY <1>1, <1>4, <1>5, <1>6, <1>7, <1>8, <1>9 DEF Inv

LEMMA CollectKeeps ==
  ASSUME Inv, Collect
  PROVE  Inv'
<1> DEFINE ty == TypeAt(Items[i], k)
           new == [name |-> ty.of, drop |-> NoDrop]
<1>1. /\ pc = "collect" /\ pc' = "collect" /\ BlockAccepted
      /\ i <= Len(Items) /\ i \in Nat \ {0} /\ k \in Nat \ {0}
      /\ file' = file /\ functions' = functions
      /\ file \in Files /\ functions = <<>> /\ handles \in Seq(Handle)
      /\ k <= Len(Items[i].params) + 1
  BY DEF Inv, Collect, Collecting, Checked, Counted, Places, TypeOK
<1>2. ty.shape = "ptr" => ty.of # ""
  BY DEF Collect
<1>3. IF k <= Len(Items[i].params) THEN i' = i /\ k' = k + 1
       ELSE i' = i + 1 /\ k' = 1
  BY DEF Collect, NextType
<1>4. handles' = IF ty.shape = "ptr" /\ ty.of \notin HandleNames(handles)
                 THEN Append(handles, new) ELSE handles
  BY DEF Collect
<1>5. Items' = Items /\ BlockAccepted'
  BY <1>1, SameFile
<1>6. Len(Items) \in Nat /\ DOMAIN Items = 1 .. Len(Items)
  BY <1>1, FoundType
<1>7. i \in DOMAIN Items
  BY <1>1, <1>6
<1>8. \A m \in DOMAIN Items : Len(Items[m].params) \in Nat
  BY <1>1, ItemFacts
<1>9. ty \in SynType
  <2>1. k \in Types(Items[i])
    BY <1>1, <1>7, <1>8 DEF Types
  <2>2. QED
    BY <1>1, <1>7, <2>1, ItemFacts
<1>10. ty.shape = "ptr" => new \in Handle
  <2>1. ty.of \in Optional
    BY <1>9 DEF SynType
  <2>2. ty.shape = "ptr" => ty.of \in Named
    BY <1>2, <2>1 DEF Optional
  <2>3. NoDrop \in DropSpec
    BY DEF NoDrop, DropSpec, Optional
  <2> HIDE DEF ty
  <2>4. QED
    BY <2>2, <2>3 DEF Handle
<1>11. /\ handles' \in Seq(Handle)
       /\ HandleNames(handles) \subseteq HandleNames(handles')
       /\ ty.shape = "ptr" => ty.of \in HandleNames(handles')
  <2>1. CASE ty.shape = "ptr" /\ ty.of \notin HandleNames(handles)
    <3>1. handles' = Append(handles, new) /\ new \in Handle
      BY <1>4, <1>10, <2>1, Zenon
    <3>2. new.name = ty.of
      OBVIOUS
    <3> HIDE DEF new
    <3>3. HandleNames(handles') = HandleNames(handles) \cup {new.name}
      BY <1>1, <3>1, AppendNames, Zenon
    <3>4. handles' \in Seq(Handle)
      <4> DEFINE H == Handle
      <4>1. handles \in Seq(H) /\ new \in H
        BY <1>1, <3>1
      <4> HIDE DEF H
      <4>2. Append(handles, new) \in Seq(H)
        BY <4>1
      <4>3. QED
        BY <3>1, <4>2 DEF H
    <3>5. QED
      BY <3>2, <3>3, <3>4
  <2>2. CASE ~(ty.shape = "ptr" /\ ty.of \notin HandleNames(handles))
    <3>1. handles' = handles
      BY <1>4, <2>2, Zenon
    <3>2. QED
      BY <1>1, <2>2, <3>1
  <2>3. QED
    BY <2>1, <2>2
<1>12. i' \in Nat \ {0} /\ k' \in Nat \ {0}
  BY <1>1, <1>3
<1>13. TypeOK'
  <2>1. handles' \in Seq(Handle)
    BY <1>11, Zenon
  <2> HIDE DEF ty, new
  <2>2. QED
    BY <1>1, <1>12, <2>1 DEF Inv, TypeOK
<1>14. Places'
  <2>1. CASE k <= Len(Items[i].params)
    BY <1>1, <1>5, <1>7, <1>8, <1>3, <2>1 DEF Places
  <2>2. CASE ~(k <= Len(Items[i].params))
    <3>1. i' = i + 1 /\ k' = 1
      BY <1>3, <2>2
    <3>2. i + 1 <= Len(Items) => Len(Items[i + 1].params) \in Nat
      BY <1>1, <1>6, <1>8
    <3>3. QED
      BY <1>1, <1>5, <1>6, <3>1, <3>2 DEF Places
  <2>3. QED
    BY <2>1, <2>2
<1>15. Pointers'
  <2>1. ASSUME NEW m \in DOMAIN Items, NEW n \in Types(Items[m]),
               Past(m, n)'
        PROVE  Past(m, n) \/ (m = i /\ n = k)
    <3>1. m \in Nat /\ n \in Nat \ {0} /\ n <= Len(Items[m].params) + 1
      BY <1>6, <1>8, <2>1 DEF Types
    <3>2. m < i' \/ (m = i' /\ n < k')
      BY <1>1, <2>1 DEF Past, Far
    <3>3. CASE k <= Len(Items[i].params)
      <4>1. i' = i /\ k' = k + 1
        BY <1>3, <3>3
      <4>2. QED
        BY <1>1, <3>1, <3>2, <4>1 DEF Past
    <3>4. CASE ~(k <= Len(Items[i].params))
      <4>1. i' = i + 1 /\ k' = 1
        BY <1>3, <3>4
      <4>2. m < i \/ m = i
        BY <1>1, <3>1, <3>2, <4>1
      <4>3. CASE m = i
        BY <1>1, <1>7, <1>8, <3>1, <3>4, <4>3 DEF Past
      <4>4. QED
        BY <4>2, <4>3 DEF Past
    <3>5. QED
      BY <3>3, <3>4
  <2>2. ASSUME NEW m \in DOMAIN Items, NEW n \in Types(Items[m]),
               Past(m, n)', TypeAt(Items[m], n).shape = "ptr"
        PROVE  /\ TypeAt(Items[m], n).of # ""
               /\ TypeAt(Items[m], n).of \in HandleNames(handles')
    <3>1. CASE Past(m, n)
      <4>1. /\ TypeAt(Items[m], n).of # ""
            /\ TypeAt(Items[m], n).of \in HandleNames(handles)
        BY <1>1, <2>2, <3>1 DEF Inv, Pointers
      <4>2. HandleNames(handles) \subseteq HandleNames(handles')
        BY <1>11, Zenon
      <4>3. QED
        BY <4>1, <4>2, Zenon
    <3>2. CASE m = i /\ n = k
      <4>1. TypeAt(Items[m], n) = ty
        BY <3>2, Zenon
      <4> HIDE DEF ty
      <4>2. QED
        BY <1>2, <1>11, <2>2, <4>1, Zenon
    <3>3. QED
      BY <2>1, <2>2, <3>1, <3>2
  <2> HIDE DEF ty
  <2>3. QED
    BY <1>5, <2>2 DEF Pointers
<1>16. ProperFunctions' /\ Counted' /\ Entered'
  BY <1>1 DEF Inv, ProperFunctions, Counted, Entered, Far
<1>17. Checked'
  BY <1>1, <1>5 DEF Checked
<1>18. QED
  BY <1>1, <1>13, <1>14, <1>15, <1>16, <1>17 DEF Inv

LEMMA ParseKeeps ==
  ASSUME Inv, ParseFunction
  PROVE  Inv'
<1> DEFINE f == Parsed(Items[i])
<1>1. /\ pc = "parse" /\ pc' = "parse" /\ BlockAccepted
      /\ i <= Len(Items) /\ i \in Nat \ {0} /\ k \in Nat \ {0} /\ i' = i + 1
      /\ file' = file /\ handles' = handles /\ k' = k
      /\ functions' = Append(functions, f)
      /\ file \in Files /\ functions \in Seq(Function)
      /\ FunctionParses(Items[i]) /\ ~ IsDrop(Items[i])
      /\ Len(functions) < i
  BY DEF Inv, ParseFunction, Parsing, Checked, Counted, TypeOK, Far
<1>2. Items' = Items /\ BlockAccepted'
  BY <1>1, SameFile
<1>3. Len(Items) \in Nat /\ DOMAIN Items = 1 .. Len(Items)
  BY <1>1, FoundType
<1>4. i \in DOMAIN Items
  BY <1>1, <1>3
<1>5. Items[i] \in Item
  BY <1>1, <1>4, ItemFacts
<1>6. /\ f \in Function /\ Proper(f.result)
      /\ \A m \in DOMAIN f.params : Proper(f.params[m].ty)
  <2>1. /\ Parsed(Items[i]) \in Function
        /\ Proper(Parsed(Items[i]).result)
        /\ \A m \in DOMAIN Parsed(Items[i]).params :
             Proper(Parsed(Items[i]).params[m].ty)
    BY <1>1, <1>5, ParsedType, Zenon
  <2>2. QED
    BY <2>1
<1> HIDE DEF f
<1>7. /\ functions' \in Seq(Function) /\ Len(functions) \in Nat
      /\ Len(functions') = Len(functions) + 1
      /\ DOMAIN functions = 1 .. Len(functions)
      /\ DOMAIN functions' = 1 .. Len(functions) + 1
      /\ \A n \in DOMAIN functions : functions'[n] = functions[n]
      /\ functions'[Len(functions) + 1] = f
  <2> DEFINE F == Function
  <2>1. functions \in Seq(F) /\ f \in F
    BY <1>1, <1>6
  <2> HIDE DEF F
  <2>2. /\ Append(functions, f) \in Seq(F) /\ Len(functions) \in Nat
        /\ Len(Append(functions, f)) = Len(functions) + 1
        /\ DOMAIN functions = 1 .. Len(functions)
        /\ DOMAIN Append(functions, f) = 1 .. Len(functions) + 1
        /\ \A n \in 1 .. Len(functions) : Append(functions, f)[n] = functions[n]
        /\ Append(functions, f)[Len(functions) + 1] = f
    BY <2>1
  <2>3. QED
    BY <1>1, <2>2 DEF F
<1>8. TypeOK'
  BY <1>1, <1>7 DEF Inv, TypeOK
<1>9. Places'
  BY <1>1, <1>2, <1>3 DEF Places
<1>10. Pointers'
  <2>1. \A m, n : Past(m, n)' => Past(m, n)
    BY <1>1 DEF Past, Far
  <2>2. QED
    BY <1>1, <1>2, <2>1 DEF Inv, Pointers, Far
<1>11. ProperFunctions'
  <2>1. \A n \in DOMAIN functions' :
          functions'[n] = f \/ (n \in DOMAIN functions
                                /\ functions'[n] = functions[n])
    BY <1>7
  <2>2. QED
    BY <1>6, <2>1 DEF Inv, ProperFunctions
<1>12. Entered'
  <2>1. ASSUME NEW m \in DOMAIN Items, m < i + 1
        PROVE  /\ FunctionParses(Items[m])
               /\ IF IsDrop(Items[m]) THEN Destroys(Items[m])'
                  ELSE Declares(Items[m])'
    <3>1. CASE m = i
      <4>1. functions'[Len(functions) + 1] = Parsed(Items[i])
        BY <1>7 DEF f
      <4>2. Declares(Items[m])'
        BY <1>2, <1>7, <3>1, <4>1 DEF Declares
      <4>3. QED
        BY <1>1, <1>2, <3>1, <4>2
    <3>2. CASE m < i
      <4>1. /\ FunctionParses(Items[m])
            /\ IF IsDrop(Items[m]) THEN Destroys(Items[m])
               ELSE Declares(Items[m])
        BY <1>1, <2>1, <3>2 DEF Inv, Entered, Far
      <4>2. Destroys(Items[m]) => Destroys(Items[m])'
        BY <1>1, <1>2 DEF Destroys
      <4>3. Declares(Items[m]) => Declares(Items[m])'
        <5>1. SUFFICES ASSUME NEW n \in DOMAIN functions,
                              functions[n] = Parsed(Items[m])
                       PROVE  Declares(Items[m])'
          BY DEF Declares
        <5>2. n \in DOMAIN functions' /\ functions'[n] = Parsed(Items[m])
          BY <1>7, <5>1
        <5>3. QED
          BY <1>2, <5>2 DEF Declares
      <4>4. QED
        BY <4>1, <4>2, <4>3
    <3>3. QED
      BY <1>1, <1>3, <2>1, <3>1, <3>2
  <2>2. QED
    BY <1>1, <1>2, <2>1 DEF Entered
<1>13. Counted'
  BY <1>1, <1>7 DEF Counted
<1>14. Checked'
  BY <1>1, <1>2 DEF Checked
<1>15. QED
  BY <1>1, <1>8, <1>9, <1>10, <1>11, <1>12, <1>13, <1>14 DEF Inv

LEMMA ValidateKeeps ==
  ASSUME Inv, Validate
  PROVE  Inv'
<1>1. CASE ~ Valid
  <2>1. pc' = "rejected" /\ UNCHANGED <<file, i, k, handles, functions>>
    BY <1>1 DEF Validate
  <2>2. QED
    BY <2>1, RejectKeeps
<1>2. CASE Valid
  <2>1. /\ pc = "parse" /\ pc' = "accepted" /\ BlockAccepted
        /\ i > Len(Items) /\ i <= Len(Items) + 1 /\ i \in Nat \ {0}
        /\ i' = i /\ k' = k /\ file' = file /\ handles' = handles
        /\ functions' = functions /\ file \in Files
    BY <1>2 DEF Inv, Validate, Checked, Places, TypeOK
  <2>2. Items' = Items /\ BlockAccepted' /\ Valid'
    BY <1>2, <2>1, SameFile, SameSchema
  <2>3. Len(Items) \in Nat
    BY <2>1, FoundType
  <2>4. TypeOK' /\ Places'
    BY <2>1, <2>2, <2>3 DEF Inv, TypeOK, Places
  <2>5. Pointers'
    <3>1. \A m, n : Past(m, n)
      BY <2>1 DEF Past, Far
    <3>2. QED
      BY <2>1, <2>2, <3>1 DEF Inv, Pointers, Far
  <2>6. ProperFunctions' /\ Counted'
    BY <2>1 DEF Inv, ProperFunctions, Counted, Far
  <2>7. Entered'
    <3>1. ASSUME NEW m \in DOMAIN Items, m < i
          PROVE  /\ FunctionParses(Items[m])
                 /\ IF IsDrop(Items[m]) THEN Destroys(Items[m])'
                    ELSE Declares(Items[m])'
      <4>1. /\ FunctionParses(Items[m])
            /\ IF IsDrop(Items[m]) THEN Destroys(Items[m])
               ELSE Declares(Items[m])
        BY <2>1, <3>1 DEF Inv, Entered, Far
      <4>2. Destroys(Items[m]) => Destroys(Items[m])'
        BY <2>1, <2>2 DEF Destroys
      <4>3. Declares(Items[m]) => Declares(Items[m])'
        BY <2>1, <2>2 DEF Declares
      <4>4. QED
        BY <4>1, <4>2, <4>3
    <3>2. QED
      BY <2>1, <2>2, <3>1 DEF Entered
  <2>8. Checked'
    BY <2>1, <2>2 DEF Checked
  <2>9. QED
    BY <2>1, <2>4, <2>5, <2>6, <2>7, <2>8 DEF Inv
<1>3. QED
  BY <1>1, <1>2

(* attach_drop finds its handle: the first loop has collected it.          *)
LEMMA TargetFound ==
  ASSUME Inv, pc \in Far, NEW m \in DOMAIN Items, FunctionParses(Items[m]),
         ShapeOfDrop(Parsed(Items[m]))
  PROVE  Parsed(Items[m]).params[1].ty.of \in HandleNames(handles)
<1>1. BlockAccepted /\ file \in Files
  BY DEF Inv, Checked, Far
<1>2. /\ Items[m] \in Item /\ Len(Items[m].params) \in Nat
      /\ DOMAIN Items[m].params = 1 .. Len(Items[m].params)
  BY <1>1, ItemFacts
<1> DEFINE f == Items[m]
           d == Parsed(f)
<1>3. /\ d \in Function /\ DOMAIN d.params = 1 .. Len(f.params)
      /\ \A n \in DOMAIN d.params :
           d.params[n].ty.kind = "handle" =>
             f.params[n].ty.shape = "ptr"
             /\ f.params[n].ty.of = d.params[n].ty.of
  <2>1. f \in Item /\ FunctionParses(f)
    BY <1>2
  <2> HIDE DEF f
  <2>2. QED
    BY <2>1, ParsedType
<1>4. Len(d.params) = 1 /\ d.params[1].ty.kind = "handle"
  BY DEF ShapeOfDrop
<1> HIDE DEF d
<1>5. 1 \in DOMAIN d.params
  <2> DEFINE P == Param
  <2>1. d.params \in Seq(P)
    BY <1>3 DEF Function
  <2> HIDE DEF P
  <2>2. QED
    BY <1>4, <2>1
<1>6. 1 \in Types(f) /\ TypeAt(f, 1) = f.params[1].ty
  BY <1>2, <1>3, <1>5 DEF Types, TypeAt
<1>7. f.params[1].ty.shape = "ptr" /\ f.params[1].ty.of = d.params[1].ty.of
  BY <1>3, <1>4, <1>5
<1>8. TypeAt(f, 1).shape = "ptr" => TypeAt(f, 1).of \in HandleNames(handles)
  <2>1. Past(m, 1)
    BY DEF Past
  <2>2. \A n \in Types(f) :
          Past(m, n) /\ TypeAt(f, n).shape = "ptr" =>
            TypeAt(f, n).of \in HandleNames(handles)
    BY DEF Inv, Pointers, Far
  <2>3. QED
    BY <1>6, <2>1, <2>2
<1>9. d.params[1].ty.of \in HandleNames(handles)
  BY <1>6, <1>7, <1>8
<1>10. QED
  BY <1>9 DEF d

LEMMA AttachKeeps ==
  ASSUME Inv, AttachDrop
  PROVE  Inv'
<1> DEFINE f == Parsed(Items[i])
           t == Target(f)
           spec == [name |-> f.name, symbol |-> f.symbol]
<1>1. /\ pc = "parse" /\ pc' = "parse" /\ BlockAccepted
      /\ i <= Len(Items) /\ i \in Nat \ {0} /\ k \in Nat \ {0} /\ i' = i + 1
      /\ file' = file /\ functions' = functions /\ k' = k
      /\ file \in Files /\ handles \in Seq(Handle)
      /\ FunctionParses(Items[i]) /\ IsDrop(Items[i])
  BY DEF Inv, AttachDrop, Parsing, Checked, TypeOK
<1>2. /\ handles' = [handles EXCEPT ![t].drop = spec]
      /\ ShapeOfDrop(f) /\ handles[t].drop = NoDrop
  BY DEF AttachDrop, DropParses
<1>3. Items' = Items /\ BlockAccepted'
  BY <1>1, SameFile
<1>4. Len(Items) \in Nat /\ DOMAIN Items = 1 .. Len(Items)
  BY <1>1, FoundType
<1>5. i \in DOMAIN Items
  BY <1>1, <1>4
<1>6. \A m \in DOMAIN Items : FunctionParses(Items[m]) =>
        /\ Parsed(Items[m]) \in Function
        /\ Parsed(Items[m]).name \in Named /\ Parsed(Items[m]).symbol \in Named
  <2>1. ASSUME NEW m \in DOMAIN Items, FunctionParses(Items[m])
        PROVE  Parsed(Items[m]) \in Function
    <3>1. Items[m] \in Item
      BY <1>1, ItemFacts
    <3>2. QED
      BY <2>1, <3>1, ParsedType, Zenon
  <2>2. \A g \in Function : g.name \in Named /\ g.symbol \in Named
    BY DEF Function
  <2>3. QED
    BY <2>1, <2>2
<1>7. f.params[1].ty.of \in HandleNames(handles)
  BY <1>1, <1>2, <1>5, TargetFound DEF Far
<1>8. t \in DOMAIN handles /\ handles[t].name = f.params[1].ty.of
  <2>1. \E j \in DOMAIN handles : handles[j].name = f.params[1].ty.of
    BY <1>7 DEF HandleNames
  <2> HIDE DEF f
  <2>2. QED
    BY <2>1 DEF Target
<1>9. spec \in DropSpec /\ spec # NoDrop
  <2>1. f.name \in Named /\ f.symbol \in Named
    BY <1>1, <1>5, <1>6
  <2> HIDE DEF f
  <2>2. spec \in DropSpec
    BY <2>1 DEF DropSpec, Optional
  <2>3. spec # NoDrop
    BY <2>1 DEF NoDrop, Named
  <2>4. QED
    BY <2>2, <2>3
<1> HIDE DEF t, spec
<1>10. /\ handles' \in Seq(Handle) /\ DOMAIN handles' = DOMAIN handles
       /\ \A j \in DOMAIN handles : handles'[j].name = handles[j].name
       /\ \A j \in DOMAIN handles : j # t => handles'[j] = handles[j]
       /\ handles'[t].drop = spec
       /\ HandleNames(handles') = HandleNames(handles)
  <2> DEFINE h == [handles[t] EXCEPT !.drop = spec]
             H == Handle
  <2>1. handles' = [handles EXCEPT ![t] = h]
    BY <1>2, Zenon
  <2>2. handles \in Seq(H) /\ t \in DOMAIN handles
    BY <1>1, <1>8, Zenon
  <2>3. handles[t] \in Handle
    <3> HIDE DEF H
    <3>1. handles[t] \in H
      BY <2>2, SeqFacts
    <3>2. QED
      BY <3>1 DEF H
  <2>4. h \in Handle /\ h.name = handles[t].name /\ h.drop = spec
    BY <1>9, <2>3 DEF Handle
  <2> HIDE DEF h
  <2>5. /\ handles' \in Seq(Handle) /\ DOMAIN handles' = DOMAIN handles
        /\ handles'[t] = h
        /\ \A j \in DOMAIN handles : j # t => handles'[j] = handles[j]
    <3>1. h \in H
      BY <2>4
    <3> HIDE DEF H
    <3>2. handles' \in Seq(H)
      BY <2>1, <2>2, <3>1
    <3>3. QED
      BY <2>1, <2>2, <3>2 DEF H
  <2>6. \A j \in DOMAIN handles : handles'[j].name = handles[j].name
    BY <2>4, <2>5
  <2>7. HandleNames(handles') = HandleNames(handles)
    BY <2>5, <2>6 DEF HandleNames
  <2>8. QED
    BY <2>4, <2>5, <2>6, <2>7
<1>11. TypeOK'
  BY <1>1, <1>10 DEF Inv, TypeOK
<1>12. Places'
  BY <1>1, <1>3, <1>4 DEF Places
<1>13. Pointers'
  <2>1. \A m, n : Past(m, n)' => Past(m, n)
    BY <1>1 DEF Past, Far
  <2>2. QED
    BY <1>1, <1>3, <1>10, <2>1 DEF Inv, Pointers, Far
<1>14. ProperFunctions' /\ Counted'
  <2>1. Len(functions) < i
    BY <1>1 DEF Inv, Counted, Far
  <2>2. Len(functions) \in Nat
    <3> DEFINE F == Function
    <3>1. functions \in Seq(F)
      BY DEF Inv, TypeOK
    <3> HIDE DEF F
    <3>2. QED
      BY <3>1
  <2>3. Counted'
    BY <1>1, <2>1, <2>2 DEF Counted
  <2>4. QED
    BY <1>1, <2>3 DEF Inv, ProperFunctions
<1>15. Entered'
  <2>1. ASSUME NEW m \in DOMAIN Items, m < i + 1
        PROVE  /\ FunctionParses(Items[m])
               /\ IF IsDrop(Items[m]) THEN Destroys(Items[m])'
                  ELSE Declares(Items[m])'
    <3>1. CASE m = i
      <4>1. /\ t \in DOMAIN handles' /\ handles'[t].name = f.params[1].ty.of
            /\ handles'[t].drop = [name |-> f.name, symbol |-> f.symbol]
        BY <1>8, <1>10 DEF spec
      <4>2. Parsed(Items[m]) = f
        BY <3>1, Zenon
      <4> HIDE DEF f
      <4>3. Destroys(Items[m])'
        BY <1>2, <1>3, <4>1, <4>2 DEF Destroys
      <4>4. QED
        BY <1>1, <3>1, <4>3
    <3>2. CASE m < i
      <4>1. /\ FunctionParses(Items[m])
            /\ IF IsDrop(Items[m]) THEN Destroys(Items[m])
               ELSE Declares(Items[m])
        BY <1>1, <2>1, <3>2 DEF Inv, Entered, Far
      <4>2. Declares(Items[m]) => Declares(Items[m])'
        BY <1>1, <1>3 DEF Declares
      <4>3. Destroys(Items[m]) => Destroys(Items[m])'
        <5> DEFINE d == Parsed(Items[m])
        <5>1. d.name \in Named
          BY <1>6, <2>1, <4>1
        <5>2. SUFFICES ASSUME ShapeOfDrop(d), NEW j \in DOMAIN handles,
                              handles[j].name = d.params[1].ty.of,
                              handles[j].drop =
                                [name |-> d.name, symbol |-> d.symbol]
                       PROVE  Destroys(Items[m])'
          BY DEF Destroys
        <5> HIDE DEF d, f
        <5>3. j # t
          <6>1. [name |-> d.name, symbol |-> d.symbol] # NoDrop
            BY <5>1 DEF NoDrop, Named
          <6>2. QED
            BY <1>2, <5>2, <6>1, Zenon
        <5>4. handles'[j] = handles[j] /\ j \in DOMAIN handles'
          BY <1>10, <5>3
        <5>5. QED
          BY <1>3, <5>2, <5>4 DEF Destroys, d
      <4>4. QED
        BY <4>1, <4>2, <4>3
    <3>3. QED
      BY <1>1, <1>4, <2>1, <3>1, <3>2
  <2>2. QED
    BY <1>1, <1>3, <2>1 DEF Entered
<1>16. Checked'
  BY <1>1, <1>3 DEF Checked
<1>17. QED
  BY <1>1, <1>11, <1>12, <1>13, <1>14, <1>15, <1>16 DEF Inv

LEMMA StutterKeeps ==
  ASSUME Inv, UNCHANGED vars
  PROVE  Inv'
<1>1. /\ file' = file /\ pc' = pc /\ i' = i /\ k' = k
      /\ handles' = handles /\ functions' = functions
  BY DEF vars
<1>2. Items' = Items /\ (BlockAccepted' <=> BlockAccepted)
      /\ (Valid' <=> Valid)
  BY <1>1, SameFile, SameSchema
<1>3. TypeOK' /\ file' \in Files /\ ProperFunctions' /\ Counted'
  BY <1>1 DEF Inv, TypeOK, ProperFunctions, Counted, Far
<1>4. Places' /\ Checked'
  BY <1>1, <1>2 DEF Inv, Places, Checked
<1>5. Pointers'
  <2>1. \A m, n : Past(m, n)' <=> Past(m, n)
    BY <1>1 DEF Past
  <2>2. QED
    BY <1>1, <1>2, <2>1 DEF Inv, Pointers
<1>6. Entered'
  <2>1. \A m \in DOMAIN Items :
          /\ Destroys(Items[m])' <=> Destroys(Items[m])
          /\ Declares(Items[m])' <=> Declares(Items[m])
    BY <1>1, <1>2 DEF Destroys, Declares
  <2>2. QED
    BY <1>1, <1>2, <2>1 DEF Inv, Entered
<1>7. QED
  BY <1>3, <1>4, <1>5, <1>6 DEF Inv

LEMMA InvNext == Inv /\ [Next]_vars => Inv'
<1> SUFFICES ASSUME Inv, [Next]_vars
             PROVE  Inv'
  OBVIOUS
<1>1. CASE RejectBlock \/ RejectPointer \/ RejectItem
  <2>1. pc' = "rejected" /\ UNCHANGED <<file, i, k, handles, functions>>
    BY <1>1 DEF RejectBlock, RejectPointer, RejectItem, Reject
  <2>2. QED
    BY <2>1, RejectKeeps
<1>2. CASE Find
  BY <1>2, FindKeeps
<1>3. CASE Collect
  BY <1>3, CollectKeeps
<1>4. CASE Collected
  BY <1>4, CollectedKeeps
<1>5. CASE ParseFunction
  BY <1>5, ParseKeeps
<1>6. CASE AttachDrop
  BY <1>6, AttachKeeps
<1>7. CASE Validate
  BY <1>7, ValidateKeeps
<1>8. CASE Ended \/ UNCHANGED vars
  BY <1>8, StutterKeeps DEF Ended
<1>9. QED
  BY <1>1, <1>2, <1>3, <1>4, <1>5, <1>6, <1>7, <1>8 DEF Next

LEMMA Invariance == Spec => []Inv
BY InvInit, InvNext, PTL DEF Spec

-----------------------------------------------------------------------------
(* The switch of dispatch and the stubs that meet there.                   *)
Numbered(s) ==
  /\ \A n \in DOMAIN s.functions : n \in Nat \ {0} /\ n < ReleaseBase
  /\ \A j \in DOMAIN s.handles : j \in Nat \ {0}

LEMMA OneCase ==
  ASSUME NEW s, Numbered(s), NEW c \in Cases(s), NEW d \in Cases(s),
         c.op = d.op
  PROVE  c = d
<1>1. ReleaseBase \in Nat
  BY InterfaceAssumption
<1>2. \A n \in DOMAIN s.functions : FunctionCase(s, n).op = n
  BY DEF FunctionCase
<1>3. \A j \in Released(s) : ReleaseCase(s, j).op = ReleaseBase + j - 1
  BY DEF ReleaseCase
<1>4. \A j \in Released(s) : j \in Nat \ {0}
  BY DEF Numbered, Released
<1>5. ASSUME NEW n \in DOMAIN s.functions, NEW j \in Released(s)
      PROVE  FunctionCase(s, n).op # ReleaseCase(s, j).op
  <2>1. n \in Nat /\ n < ReleaseBase /\ j \in Nat \ {0}
    BY <1>4 DEF Numbered
  <2>2. n # ReleaseBase + j - 1
    BY <1>1, <2>1
  <2>3. QED
    BY <1>2, <1>3, <2>2
<1>6. ASSUME NEW j \in Released(s), NEW l \in Released(s),
             ReleaseCase(s, j).op = ReleaseCase(s, l).op
      PROVE  j = l
  <2>1. ReleaseBase + j - 1 = ReleaseBase + l - 1
    BY <1>3, <1>6
  <2>2. QED
    BY <1>1, <1>4, <2>1
<1>7. /\ \/ \E n \in DOMAIN s.functions : c = FunctionCase(s, n)
         \/ \E j \in Released(s) : c = ReleaseCase(s, j)
      /\ \/ \E n \in DOMAIN s.functions : d = FunctionCase(s, n)
         \/ \E j \in Released(s) : d = ReleaseCase(s, j)
  BY DEF Cases
<1>8. QED
  BY <1>2, <1>5, <1>6, <1>7, Zenon

LEMMA CaseIsTaken ==
  ASSUME NEW s, Numbered(s), NEW c \in Cases(s)
  PROVE  Case(s, c.op) = c
<1>1. \A d \in Cases(s) : d.op = c.op => d = c
  BY OneCase
<1>2. QED
  BY <1>1 DEF Case

LEMMA FunctionServed ==
  ASSUME NEW s, Numbered(s), WellFormed(s), NEW n \in DOMAIN s.functions
  PROVE  LET b == FunctionBinding(s, n) IN
         /\ b \in Bindings(s) /\ Serves(s, b)
         /\ Case(s, b.op).calls = s.functions[n].symbol
         /\ ~ (b.op >= ReleaseBase)
<1> DEFINE b == FunctionBinding(s, n)
           c == FunctionCase(s, n)
<1>1. b \in Bindings(s) /\ c \in Cases(s)
  BY DEF Bindings, BindingsOfFunctions, Cases
<1>2. b.op = n /\ c.op = n
  BY DEF FunctionBinding, FunctionCase
<1>3. Case(s, n) = c
  BY <1>1, <1>2, CaseIsTaken
<1>4. c.takes = b.sends /\ c.calls = b.symbol /\ c.gives = b.gets
  BY DEF FunctionBinding, FunctionCase
<1>5. c.frees = b.free
  BY DEF FunctionBinding, FunctionCase, WellFormed
<1>6. c.calls = s.functions[n].symbol
  BY DEF FunctionCase
<1>7. Serves(s, b)
  <2> HIDE DEF b, c
  <2>1. QED
    BY <1>1, <1>2, <1>3, <1>4, <1>5 DEF Serves
<1>8. ~ (b.op >= ReleaseBase)
  BY <1>2, InterfaceAssumption DEF Numbered
<1>9. QED
  BY <1>1, <1>2, <1>3, <1>6, <1>7, <1>8

LEMMA ReleaseServed ==
  ASSUME NEW s, Numbered(s), NEW j \in Released(s)
  PROVE  LET b == ReleaseBinding(s, j, ReleaseBase + j - 1) IN
         /\ b \in Bindings(s) /\ Serves(s, b)
         /\ Case(s, b.op).calls = s.handles[j].drop.symbol
         /\ b.op >= ReleaseBase
<1> DEFINE op == ReleaseBase + j - 1
           b == ReleaseBinding(s, j, op)
           c == ReleaseCase(s, j)
<1>1. b \in Bindings(s) /\ c \in Cases(s)
  BY DEF Bindings, BindingsOfReleases, Cases
<1>2. b.op = op /\ c.op = op
  BY DEF ReleaseBinding, ReleaseCase
<1>3. op >= ReleaseBase
  <2>1. j \in Nat \ {0}
    BY DEF Released, Numbered
  <2>2. QED
    BY <2>1, InterfaceAssumption
<1> HIDE DEF op
<1>4. Case(s, op) = c
  BY <1>1, <1>2, CaseIsTaken
<1>5. /\ c.takes = b.sends /\ c.calls = b.symbol
      /\ c.gives = b.gets /\ c.frees = b.free
  BY DEF ReleaseBinding, ReleaseCase
<1>6. c.calls = s.handles[j].drop.symbol
  BY DEF ReleaseCase
<1>7. Serves(s, b)
  <2> HIDE DEF b, c
  <2>1. QED
    BY <1>1, <1>2, <1>4, <1>5 DEF Serves
<1>8. /\ b \in Bindings(s) /\ Serves(s, b)
      /\ Case(s, b.op).calls = s.handles[j].drop.symbol
      /\ b.op >= ReleaseBase
  BY <1>1, <1>2, <1>3, <1>4, <1>6, <1>7
<1>9. QED
  BY <1>8 DEF op
-----------------------------------------------------------------------------
(* What is known of a schema that is accepted.                             *)
LEMMA AcceptedSchema ==
  ASSUME Inv, pc = "accepted"
  PROVE  /\ schema.functions = functions /\ schema.handles = handles
         /\ WellFormed(schema) /\ Numbered(schema)
<1>1. schema.functions = functions /\ schema.handles = handles
  BY DEF schema
<1>2. Len(functions) < ReleaseBase
  <2>1. Len(functions) < Len(Items) + 1
    BY DEF Inv, Counted, Places, Far
  <2>2. Len(Items) \in Nat /\ Len(Items) < ReleaseBase
    BY FoundType DEF Inv, Checked
  <2>3. Len(functions) \in Nat
    <3> DEFINE F == Function
    <3>1. functions \in Seq(F)
      BY DEF Inv, TypeOK
    <3> HIDE DEF F
    <3>2. QED
      BY <3>1
  <2>4. QED
    BY <2>1, <2>2, <2>3, InterfaceAssumption
<1>3. Numbered(schema)
  <2> DEFINE F == Function
             H == Handle
  <2>1. functions \in Seq(F) /\ handles \in Seq(H)
    BY DEF Inv, TypeOK
  <2> HIDE DEF F, H
  <2>2. /\ Len(functions) \in Nat /\ DOMAIN functions = 1 .. Len(functions)
        /\ Len(handles) \in Nat /\ DOMAIN handles = 1 .. Len(handles)
    BY <2>1, SeqFacts
  <2>3. QED
    BY <1>1, <1>2, <2>2, InterfaceAssumption DEF Numbered
<1>4. Valid
  BY DEF Inv, Checked
<1>5. \A j \in DOMAIN handles :
        handles[j].drop.symbol = "" => handles[j].drop = NoDrop
  BY <1>4, DeclarationAssumption DEF Valid, ValidHandle
<1>6. \A n \in DOMAIN functions :
        functions[n].free # "" =>
          functions[n].result.kind \in {"string", "bytes"}
  BY <1>4 DEF Valid, ValidFunction
<1>7. QED
  BY <1>1, <1>2, <1>3, <1>5, <1>6 DEF WellFormed

(* What became of an item of an accepted file.                             *)
LEMMA AcceptedItem ==
  ASSUME Inv, pc = "accepted", NEW n \in DOMAIN Items
  PROVE  /\ FunctionParses(Items[n])
         /\ Parsed(Items[n]) \in Function
         /\ Proper(Parsed(Items[n]).result)
         /\ IF IsDrop(Items[n]) THEN Destroys(Items[n])
            ELSE Declares(Items[n])
<1>1. /\ i = Len(Items) + 1 /\ BlockAccepted /\ file \in Files
      /\ \A m \in DOMAIN Items : m < i =>
           /\ FunctionParses(Items[m])
           /\ IF IsDrop(Items[m]) THEN Destroys(Items[m])
              ELSE Declares(Items[m])
  BY DEF Inv, Places, Checked, Entered, Far
<1>2. n \in Nat /\ n <= Len(Items) /\ Items[n] \in Item /\ Len(Items) \in Nat
  BY <1>1, ItemFacts, FoundType
<1>3. n < i
  BY <1>1, <1>2
<1>4. FunctionParses(Items[n])
  BY <1>1, <1>3
<1>5. Parsed(Items[n]) \in Function /\ Proper(Parsed(Items[n]).result)
  BY <1>2, <1>4, ParsedType, Zenon
<1>6. QED
  BY <1>1, <1>3, <1>4, <1>5
-----------------------------------------------------------------------------
LEMMA InvNeverPanics == Inv => NeverPanics
<1> SUFFICES ASSUME Inv
             PROVE  NeverPanics
  OBVIOUS
<1>1. ASSUME Parsing, FunctionParses(Items[i]), ShapeOfDrop(Parsed(Items[i]))
      PROVE  Parsed(Items[i]).params[1].ty.of \in HandleNames(handles)
  <2>1. pc = "parse" /\ i <= Len(Items) /\ i \in Nat \ {0}
    BY <1>1 DEF Parsing, Inv, TypeOK
  <2>2. i \in DOMAIN Items
    BY <2>1, FoundType DEF Inv, Checked
  <2>3. QED
    BY <1>1, <2>1, <2>2, TargetFound DEF Far
<1>2. ASSUME pc = "accepted", NEW n \in DOMAIN functions
      PROVE  LET f == functions[n] IN
             /\ \A m \in DOMAIN f.params :
                  /\ f.params[m].ty.kind \in Kinds \ {"void"}
                  /\ ValidType(f.params[m].ty, handles)
             /\ f.result.kind \in Kinds
             /\ ValidType(f.result, handles)
  <2> DEFINE f == functions[n]
  <2>1. ValidFunction(f, handles)
    BY <1>2 DEF Inv, Checked, Valid
  <2>2. /\ Proper(f.result)
        /\ \A m \in DOMAIN f.params : Proper(f.params[m].ty)
    BY DEF Inv, ProperFunctions
  <2> HIDE DEF f
  <2>3. \A ty : Proper(ty) => ty.kind \in Kinds
    BY DEF Proper, Type
  <2>4. ASSUME NEW ty, Proper(ty), ty # Void
        PROVE  ty.kind # "void"
    <3>1. SUFFICES ASSUME ty.kind = "void"
                   PROVE  FALSE
      OBVIOUS
    <3>2. ty \in Type /\ ty.of = ""
      BY <2>4, <3>1 DEF Proper
    <3>3. ty = [kind |-> ty.kind, of |-> ty.of]
      BY <3>2 DEF Type
    <3>4. QED
      BY <2>4, <3>1, <3>2, <3>3 DEF Void, Plain
  <2>5. \A m \in DOMAIN f.params :
          /\ f.params[m].ty # Void
          /\ ValidType(f.params[m].ty, handles)
    BY <2>1 DEF ValidFunction
  <2>6. ValidType(f.result, handles)
    BY <2>1 DEF ValidFunction
  <2>7. /\ \A m \in DOMAIN f.params :
             /\ f.params[m].ty.kind \in Kinds \ {"void"}
             /\ ValidType(f.params[m].ty, handles)
        /\ f.result.kind \in Kinds
        /\ ValidType(f.result, handles)
    BY <2>2, <2>3, <2>4, <2>5, <2>6
  <2>8. QED
    BY <2>7 DEF f
<1>3. QED
  BY <1>1, <1>2 DEF NeverPanics

LEMMA ItemIsRun ==
  ASSUME Inv, pc = "accepted", NEW n \in DOMAIN Items
  PROVE  LET f == Parsed(Items[n]) IN
         \E b \in Bindings(schema) :
           /\ b.name = f.name
           /\ b.sends = Wires(f)
           /\ b.gets = Wire(f.result)
           /\ Serves(schema, b)
           /\ Case(schema, b.op).calls = f.symbol
           /\ IsDrop(Items[n]) <=> b.op >= ReleaseBase
<1> DEFINE f == Parsed(Items[n])
           s == schema
<1>1. /\ f \in Function
      /\ IF IsDrop(Items[n]) THEN Destroys(Items[n]) ELSE Declares(Items[n])
  BY AcceptedItem
<1>2. /\ s.functions = functions /\ s.handles = handles
      /\ WellFormed(s) /\ Numbered(s)
  BY AcceptedSchema
<1> HIDE DEF s
<1>3. CASE ~ IsDrop(Items[n])
  <2>1. PICK m \in DOMAIN functions : functions[m] = f
    BY <1>1, <1>3 DEF Declares
  <2> HIDE DEF f
  <2> DEFINE b == FunctionBinding(s, m)
  <2>2. /\ b \in Bindings(s) /\ Serves(s, b)
        /\ Case(s, b.op).calls = s.functions[m].symbol
        /\ ~ (b.op >= ReleaseBase)
    BY <1>2, <2>1, FunctionServed
  <2>3. b.name = f.name /\ b.sends = Wires(f) /\ b.gets = Wire(f.result)
    BY <1>2, <2>1 DEF FunctionBinding
  <2>4. s.functions[m].symbol = f.symbol
    BY <1>2, <2>1
  <2> HIDE DEF b
  <2>5. \E x \in Bindings(s) :
           /\ x.name = f.name
           /\ x.sends = Wires(f)
           /\ x.gets = Wire(f.result)
           /\ Serves(s, x)
           /\ Case(s, x.op).calls = f.symbol
           /\ IsDrop(Items[n]) <=> x.op >= ReleaseBase
    BY <1>3, <2>2, <2>3, <2>4
  <2>6. QED
    BY <2>5 DEF f, s
<1>4. CASE IsDrop(Items[n])
  <2>1. ShapeOfDrop(f)
    BY <1>1, <1>4 DEF Destroys
  <2>2. PICK j \in DOMAIN handles :
          /\ handles[j].name = f.params[1].ty.of
          /\ handles[j].drop = [name |-> f.name, symbol |-> f.symbol]
    BY <1>1, <1>4 DEF Destroys
  <2> HIDE DEF f
  <2>3. j \in Released(s)
    <3>1. f.name # ""
      BY <1>1 DEF Function, Named
    <3>2. handles[j].drop # NoDrop
      <4>1. [name |-> f.name, symbol |-> f.symbol] # NoDrop
        BY <3>1 DEF NoDrop
      <4>2. QED
        BY <2>2, <4>1, Zenon
    <3>3. QED
      BY <1>2, <2>2, <3>2 DEF Released
  <2> DEFINE b == ReleaseBinding(s, j, ReleaseBase + j - 1)
  <2>4. /\ b \in Bindings(s) /\ Serves(s, b)
        /\ Case(s, b.op).calls = s.handles[j].drop.symbol
        /\ b.op >= ReleaseBase
    BY <1>2, <2>3, ReleaseServed
  <2>5. /\ b.name = f.name /\ s.handles[j].drop.symbol = f.symbol
        /\ b.sends = <<Wire(Opaque(f.params[1].ty.of))>>
        /\ b.gets = Wire(Void)
    BY <1>2, <2>2 DEF ReleaseBinding
  <2>6. f.result = Void
    BY <2>1 DEF ShapeOfDrop
  <2>7. Wires(f) = <<Wire(Opaque(f.params[1].ty.of))>>
    <3>1. DOMAIN f.params = 1 .. 1
      <4> DEFINE P == Param
      <4>1. f.params \in Seq(P)
        BY <1>1 DEF Function
      <4> HIDE DEF P
      <4>2. Len(f.params) = 1
        BY <2>1 DEF ShapeOfDrop
      <4>3. QED
        BY <4>1, <4>2
    <3>2. Wire(f.params[1].ty) = Wire(Opaque(f.params[1].ty.of))
      BY <2>1 DEF ShapeOfDrop, Wire, Opaque
    <3>3. Wires(f) = [k_1 \in 1 .. 1 |-> Wire(f.params[k_1].ty)]
      BY <3>1 DEF Wires
    <3>4. QED
      BY <3>2, <3>3
  <2> HIDE DEF b
  <2>8. \E x \in Bindings(s) :
           /\ x.name = f.name
           /\ x.sends = Wires(f)
           /\ x.gets = Wire(f.result)
           /\ Serves(s, x)
           /\ Case(s, x.op).calls = f.symbol
           /\ IsDrop(Items[n]) <=> x.op >= ReleaseBase
    BY <1>4, <2>4, <2>5, <2>6, <2>7
  <2>9. QED
    BY <2>8 DEF f, s
<1>5. QED
  BY <1>3, <1>4

LEMMA InvRunsWhatIsDeclared == Inv => RunsWhatIsDeclared
<1> SUFFICES ASSUME Inv, pc = "accepted"
             PROVE  RunsWhatIsDeclared
  BY DEF RunsWhatIsDeclared
<1>1. WellFormed(schema)
  BY AcceptedSchema
<1>2. \A c, d \in Cases(schema) : c.op = d.op => c = d
  BY AcceptedSchema, OneCase
<1>3. \A n \in DOMAIN Items :
         LET f == Parsed(Items[n]) IN
         \E b \in Bindings(schema) :
           /\ b.name = f.name
           /\ b.sends = Wires(f)
           /\ b.gets = Wire(f.result)
           /\ Serves(schema, b)
           /\ Case(schema, b.op).calls = f.symbol
           /\ IsDrop(Items[n]) <=> b.op >= ReleaseBase
  BY ItemIsRun
<1>4. QED
  BY <1>1, <1>2, <1>3, Zenon DEF RunsWhatIsDeclared

(* Schema::handle finds the one handle of a name.                          *)
LEMMA HandleIsFound ==
  ASSUME NEW s, s.handles \in Seq(Handle), Distinct(s.handles),
         NEW j \in DOMAIN s.handles
  PROVE  HandleOf(s, s.handles[j].name) = s.handles[j]
<1> DEFINE H == Handle
           hs == s.handles
           First(l) == /\ hs[l].name = hs[j].name
                       /\ \A m \in 1 .. l - 1 : hs[m].name # hs[j].name
<1>1. hs \in Seq(H)
  OBVIOUS
<1> HIDE DEF H
<1>2. DOMAIN hs = 1 .. Len(hs) /\ Len(hs) \in Nat
  BY <1>1
<1>3. First(j)
  <2>1. ASSUME NEW m \in 1 .. j - 1, hs[m].name = hs[j].name
        PROVE  FALSE
    <3>1. m \in DOMAIN hs /\ m # j
      BY <1>2, <2>1
    <3>2. QED
      BY <2>1, <3>1 DEF Distinct
  <2>2. QED
    BY <2>1
<1>4. \A l \in DOMAIN hs : First(l) => l = j
  BY DEF Distinct
<1>5. (CHOOSE l \in DOMAIN hs : First(l)) = j
  <2> HIDE DEF First
  <2>1. QED
    BY <1>3, <1>4
<1>6. QED
  BY <1>5, Zenon DEF HandleOf

LEMMA InvDiscardsAsDeclared == Inv => DiscardsAsDeclared
<1> SUFFICES ASSUME Inv, pc = "accepted",
                    NEW n \in DOMAIN Items, NEW m \in DOMAIN Items,
                    ~ IsDrop(Items[n]),
                    Parsed(Items[n]).result.kind = "handle",
                    IsDrop(Items[m]),
                    Parsed(Items[m]).params[1].ty = Parsed(Items[n]).result,
                    NEW c \in Cases(schema),
                    c.calls = Parsed(Items[n]).symbol,
                    c.gives = Wire(Parsed(Items[n]).result)
             PROVE  c.discards = Parsed(Items[m]).symbol
  BY Zenon DEF DiscardsAsDeclared
<1> DEFINE f == Parsed(Items[n])
           d == Parsed(Items[m])
           s == schema
<1>1. Proper(f.result)
  BY AcceptedItem
<1>2. PICK j \in DOMAIN handles :
          /\ handles[j].name = d.params[1].ty.of
          /\ handles[j].drop = [name |-> d.name, symbol |-> d.symbol]
  BY AcceptedItem DEF Destroys
<1>3. s.functions = functions /\ s.handles = handles
  BY AcceptedSchema
<1>4. c \in Cases(s) /\ c.gives = Wire(f.result) /\ f.result.kind = "handle"
  OBVIOUS
<1>5. d.params[1].ty = f.result
  OBVIOUS
<1> HIDE DEF f, d, s
<1>6. f.result.of # ""
  BY <1>1, <1>4 DEF Proper
<1>7. PICK q \in DOMAIN functions : c = FunctionCase(s, q)
  <2>1. ASSUME NEW l \in Released(s), c = ReleaseCase(s, l)
        PROVE  FALSE
    <3>1. c.gives.table = ""
      BY <2>1 DEF ReleaseCase, Wire, Void, Plain
    <3>2. c.gives.table = f.result.of
      BY <1>4 DEF Wire
    <3>3. QED
      BY <1>6, <3>1, <3>2
  <2>2. QED
    BY <1>3, <1>4, <2>1 DEF Cases
<1> DEFINE g == functions[q]
<1>8. Proper(g.result)
  BY DEF Inv, ProperFunctions
<1>9. /\ c.gives = Wire(g.result)
      /\ c.discards = IF g.result.kind = "handle"
                      THEN HandleOf(s, g.result.of).drop.symbol ELSE ""
  BY <1>3, <1>7 DEF FunctionCase
<1> HIDE DEF g
<1>10. g.result.of = f.result.of
  <2>1. Wire(g.result).table = Wire(f.result).table
    BY <1>4, <1>9
  <2>2. QED
    BY <2>1 DEF Wire
<1>11. c.discards = HandleOf(s, f.result.of).drop.symbol
  BY <1>6, <1>8, <1>9, <1>10 DEF Proper
<1>12. HandleOf(s, handles[j].name) = handles[j]
  <2>1. Distinct(handles) /\ handles \in Seq(Handle)
    BY DEF Inv, Checked, Valid, TypeOK
  <2>2. QED
    BY <1>2, <1>3, <2>1, HandleIsFound
<1>13. handles[j].drop.symbol = d.symbol
  BY <1>2
<1>14. c.discards = d.symbol
  BY <1>2, <1>5, <1>11, <1>12, <1>13
<1>15. QED
  BY <1>14 DEF d

LEMMA InvMacroAgrees == Inv => MacroAgrees
<1> SUFFICES ASSUME Inv, pc = "accepted"
             PROVE  Expands(Found)
  BY DEF MacroAgrees
<1>1. BlockAccepted
  BY DEF Inv, Checked
<1>2. AbiAccepted(Found) /\ Found.unsafety /\ BridgeParses(Found)
  BY <1>1 DEF BlockAccepted
<1>3. "name" \in DOMAIN FormOf /\ FormOf["name"] = "str"
  BY DEF FormOf
<1>4. Given(Found, "name") # {} /\ WellGiven(Found, "name", "str")
  BY <1>2, <1>3 DEF BridgeParses
<1>5. QED
  BY <1>2, <1>4 DEF Expands
-----------------------------------------------------------------------------
(* Schema::parse makes values of the types the generators are written for. *)
THEOREM TypeCorrect == Spec => []TypeOK
<1>1. Inv => TypeOK
  BY DEF Inv
<1>2. QED
  BY <1>1, Invariance, PTL

(* No file reaches an expect() of attach_drop, of Schema::handle or of a   *)
(* generator.                                                              *)
THEOREM PanicsNever == Spec => []NeverPanics
BY Invariance, InvNeverPanics, PTL

(* An accepted declaration is run as it stands, by bindings and dispatch   *)
(* that number their operations apart.                                     *)
THEOREM DeclarationIsRun == Spec => []RunsWhatIsDeclared
BY Invariance, InvRunsWhatIsDeclared, PTL

(* A refused object goes to the destructor its type is declared to have.   *)
THEOREM RefusedIsDestroyed == Spec => []DiscardsAsDeclared
BY Invariance, InvDiscardsAsDeclared, PTL

(* The macro expands every block the build script accepts.                 *)
THEOREM MacroFollows == Spec => []MacroAgrees
BY Invariance, InvMacroAgrees, PTL
=============================================================================
