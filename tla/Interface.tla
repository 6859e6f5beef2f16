----------------------------- MODULE Interface ------------------------------
(***************************************************************************)
(* A validated schema and the three things that filc-build makes of it:    *)
(* the canonical form, whose SHA-256 both peers carry; the operations the  *)
(* Rust bindings send (rust.rs); and the cases of the helper's dispatch    *)
(* (c.rs).  The two generators number the operations independently.        *)
(***************************************************************************)
EXTENDS Naturals, Sequences, FiniteSets

CONSTANT ReleaseBase   \* 0x8000_0000, scaled down: the first release

ASSUME InterfaceAssumption == ReleaseBase \in Nat \ {0}
-----------------------------------------------------------------------------
(* enum Type; `of` is the C type an opaque handle points to.               *)
Scalars == {"bool", "i32", "u32", "i64", "u64", "f32", "f64"}
Kinds == Scalars \cup {"string", "bytes", "handle", "void"}

(* "" stands for a name or a symbol that is absent.                        *)
Named == STRING \ {""}
Optional == Named \cup {""}

Type == [kind : Kinds, of : Optional]

Plain(kind) == [kind |-> kind, of |-> ""]
Opaque(name) == [kind |-> "handle", of |-> name]
Void == Plain("void")

(* struct Schema.                                                          *)
DropSpec == [name : Optional, symbol : Optional]
NoDrop == [name |-> "", symbol |-> ""]
Handle == [name : Named, drop : DropSpec]
Param == [name : Named, ty : Type]
Function == [name : Named, symbol : Named, params : Seq(Param),
             result : Type, free : Optional]
Schema == [bridge : STRING, max : Nat, handles : Seq(Handle),
           functions : Seq(Function)]

HandleNames(handles) == {handles[j].name : j \in DOMAIN handles}

(* Schema::handle.                                                         *)
HandleOf(s, name) ==
  s.handles[CHOOSE j \in DOMAIN s.handles :
              /\ s.handles[j].name = name
              /\ \A k \in 1 .. j - 1 : s.handles[k].name # name]
-----------------------------------------------------------------------------
Canonical_NoFree(s) ==   \* mutant: the release functions are left out
  [bridge    |-> s.bridge,
   max       |-> s.max,
   handles   |-> [j \in DOMAIN s.handles |->
                    <<s.handles[j].name, s.handles[j].drop.symbol>>],
   functions |-> [i \in DOMAIN s.functions |->
                    LET f == s.functions[i] IN
                    <<f.name, f.symbol, f.params, f.result>>]]

(* What the hash is taken of.  Visibility, header, sources and include     *)
(* directories are not in it, nor are the names of the destructors.        *)
Canonical(s) ==
  [bridge    |-> s.bridge,
   max       |-> s.max,
   handles   |-> [j \in DOMAIN s.handles |->
                    <<s.handles[j].name, s.handles[j].drop.symbol>>],
   functions |-> [i \in DOMAIN s.functions |->
                    LET f == s.functions[i] IN
                    <<f.name, f.symbol, f.params, f.result, f.free>>]]
-----------------------------------------------------------------------------
(* codec_method, and the table a handle's id is looked up in.              *)
Wire(ty) == [method |-> IF ty.kind = "handle" THEN "u64" ELSE ty.kind,
             table  |-> ty.of]

Wires(f) == [k \in DOMAIN f.params |-> Wire(f.params[k].ty)]

Released(s) == {j \in DOMAIN s.handles : s.handles[j].drop # NoDrop}

(* rust.rs: what each generated function sends, what it decodes, and the   *)
(* C function and the release its declaration names.                       *)
FunctionBinding(s, i) ==
  LET f == s.functions[i] IN
  [op |-> i, name |-> f.name, symbol |-> f.symbol, sends |-> Wires(f),
   gets |-> Wire(f.result), free |-> f.free]

ReleaseBinding(s, j, op) ==
  LET h == s.handles[j] IN
  [op |-> op, name |-> h.drop.name, symbol |-> h.drop.symbol,
   sends |-> <<Wire(Opaque(h.name))>>, gets |-> Wire(Void), free |-> ""]

BindingsOfFunctions(s) == {FunctionBinding(s, i) : i \in DOMAIN s.functions}

BindingsOfReleases_Dense(s) ==   \* mutant: types without one are not counted
  {ReleaseBinding(s, j, ReleaseBase + Cardinality({k \in Released(s) : k < j}))
   : j \in Released(s)}

BindingsOfReleases(s) ==
  {ReleaseBinding(s, j, ReleaseBase + j - 1) : j \in Released(s)}

Bindings(s) == BindingsOfFunctions(s) \cup BindingsOfReleases(s)
-----------------------------------------------------------------------------
(* c.rs: the cases of dispatch.  `discards` gets a result the table of its *)
(* type refuses; a release looks its argument up in its own table.         *)
FunctionCase(s, i) ==
  LET f == s.functions[i] IN
  [op |-> i, takes |-> Wires(f), calls |-> f.symbol, gives |-> Wire(f.result),
   frees |-> IF f.result.kind \in {"string", "bytes"} THEN f.free ELSE "",
   discards |-> IF f.result.kind = "handle"
                THEN HandleOf(s, f.result.of).drop.symbol ELSE ""]

ReleaseCase(s, j) ==
  LET h == s.handles[j] IN
  [op |-> ReleaseBase + j - 1, takes |-> <<Wire(Opaque(h.name))>>,
   calls |-> h.drop.symbol, gives |-> Wire(Void), frees |-> "",
   discards |-> ""]

Cases(s) ==
  {FunctionCase(s, i) : i \in DOMAIN s.functions} \cup
  {ReleaseCase(s, j) : j \in Released(s)}

(* A switch has one case for a label.                                      *)
Case(s, op) == CHOOSE c \in Cases(s) : c.op = op

(* What validation leaves: the operations of functions stay below those of *)
(* releases, a destructor has a symbol, and only text is released.         *)
WellFormed(s) ==
  /\ Len(s.functions) < ReleaseBase
  /\ \A j \in DOMAIN s.handles :
       s.handles[j].drop.symbol = "" => s.handles[j].drop = NoDrop
  /\ \A i \in DOMAIN s.functions :
       s.functions[i].free # "" =>
         s.functions[i].result.kind \in {"string", "bytes"}

(* Every operation that bindings made from c send means the same to a      *)
(* helper made from h: the C function, the values, the release.            *)
Serves(h, b) ==
  /\ \E k \in Cases(h) : k.op = b.op
  /\ LET k == Case(h, b.op) IN
     /\ k.takes = b.sends
     /\ k.calls = b.symbol
     /\ k.gives = b.gets
     /\ k.frees = b.free

Interoperate(c, h) ==
  /\ c.max = h.max
  /\ \A b \in Bindings(c) : Serves(h, b)
=============================================================================
