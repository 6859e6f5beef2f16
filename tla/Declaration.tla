---------------------------- MODULE Declaration -----------------------------
(***************************************************************************)
(* From a Rust source file with a #[filc::bridge] block to a validated     *)
(* schema (Schema::parse, one step per turn of its loops), and the         *)
(* attribute macro, which looks at the same block on its own.  A file is   *)
(* what syn makes of it: its foreign blocks in order, those in inline      *)
(* modules included.                                                       *)
(***************************************************************************)
EXTENDS Interface

CONSTANTS
  Files,        \* the source files considered
  Identifiers,  \* the ASCII identifiers among the names in them
  RustName,     \* C type -> the name pascal makes of it
  MinFrame,     \* 1024, scaled down
  DefaultFrame  \* 16 MiB, scaled down

(* &str is [shape |-> "ref", of |-> "str"]; of = "" where there is no one  *)
(* identifier to name.                                                     *)
SynType == [shape : {"unit", "ref", "mutref", "ptr", "path", "other"},
            of : Optional]
Arg == [key : STRING, form : {"str", "array", "int", "other", "flag"},
        text : STRING, number : Nat]
Attr == [path : STRING, form : {"path", "str", "other"},
         text : Named]  \* "" is as bad as any that is no identifier
Item == [fn : BOOLEAN,     \* not a static or a type
         plain : BOOLEAN,  \* not unsafe, variadic or generic, no patterns
         attrs : Seq(Attr), name : Named,
         params : Seq([name : Named, ty : SynType]), result : SynType]
Block == [attribute : BOOLEAN, unsafety : BOOLEAN, abi : STRING,
          args : Seq(Arg), items : Seq(Item)]

ASSUME DeclarationAssumption ==
  /\ Files \subseteq Seq(Block)
  /\ \A f \in Files : \A n \in DOMAIN f : Len(f[n].items) < ReleaseBase
  /\ MinFrame \in Nat /\ DefaultFrame \in Nat
  /\ "" \notin Identifiers

VARIABLES
  file,       \* the input
  pc,         \* where Schema::parse is
  i, k,       \* the item its loop is at, and the type in that item
  handles,    \* Vec<Handle>
  functions   \* Vec<Function>

vars == <<file, pc, i, k, handles, functions>>
-----------------------------------------------------------------------------
(* collect_bridges.                                                        *)
Bridges == {n \in DOMAIN file : file[n].attribute}
Found == file[CHOOSE n \in Bridges : TRUE]
Items == Found.items
-----------------------------------------------------------------------------
(* The arguments of #[filc::bridge(...)]: name = value pairs count.        *)
Given(b, key) ==
  {n \in DOMAIN b.args : b.args[n].key = key /\ b.args[n].form # "flag"}

(* optional_string, optional_strings, optional_u32.                        *)
WellGiven(b, key, form) ==
  /\ \A n \in Given(b, key) : b.args[n].form = form
  /\ \A n, m \in Given(b, key) : n = m

Value(b, key) == b.args[CHOOSE n \in Given(b, key) : TRUE]

FormOf == [name |-> "str", header |-> "str", sources |-> "array",
           includes |-> "array", max_frame_bytes |-> "int"]

BridgeParses(b) ==
  /\ \A key \in DOMAIN FormOf : WellGiven(b, key, FormOf[key])
  /\ \A key \in {"name", "header", "sources"} : Given(b, key) # {}
  /\ \A n \in DOMAIN b.args : b.args[n].key \in DOMAIN FormOf

MaxFrame(b) ==
  IF Given(b, "max_frame_bytes") = {} THEN DefaultFrame
  ELSE Value(b, "max_frame_bytes").number

AbiAccepted(b) == b.abi \in {"Fil-C", "fil-c"}
-----------------------------------------------------------------------------
Bad == Plain("error")

(* type_from_syn, parse_type.                                              *)
TypeOf(ty, result) ==
  CASE ty.shape = "unit" -> Void
    [] ty.shape = "ref" /\ ty.of = "[u8]" /\ ~result -> Plain("bytes")
    [] ty.shape = "ref" /\ ty.of = "str" /\ ~result -> Plain("string")
    [] ty.shape = "ptr" /\ ty.of # "" -> Opaque(ty.of)
    [] ty.shape = "path" /\ ty.of \in Scalars -> Plain(ty.of)
    [] ty.shape = "path" /\ ty.of = "String" /\ result -> Plain("string")
    [] ty.shape = "path" /\ ty.of = "Vec<u8>" /\ result -> Plain("bytes")
    [] OTHER -> Bad

Attrs(f, path) == {n \in DOMAIN f.attrs : f.attrs[n].path = path}

(* attribute_string, is_path_attribute: at most one, of the right form.    *)
AttrParses(f, path, form) ==
  /\ \A n \in Attrs(f, path) : f.attrs[n].form = form
  /\ \A n, m \in Attrs(f, path) : n = m

Text(f, path, default) ==
  IF Attrs(f, path) = {} THEN default
  ELSE f.attrs[CHOOSE n \in Attrs(f, path) : TRUE].text

IsDrop(f) == Attrs(f, "filc::drop") # {}
Symbol(f) == Text(f, "link_name", f.name)

FunctionParses_AnyResult(f) ==   \* mutant: the result is not looked at
  /\ \A n \in DOMAIN f.attrs :
       f.attrs[n].path \in {"doc", "link_name", "filc::free", "filc::drop"}
  /\ f.plain
  /\ \A n \in DOMAIN f.params : TypeOf(f.params[n].ty, FALSE) # Bad
  /\ AttrParses(f, "link_name", "str")
  /\ AttrParses(f, "filc::free", "str")
  /\ AttrParses(f, "filc::drop", "path")

FunctionParses(f) ==
  /\ \A n \in DOMAIN f.attrs :
       f.attrs[n].path \in {"doc", "link_name", "filc::free", "filc::drop"}
  /\ f.plain
  /\ \A n \in DOMAIN f.params : TypeOf(f.params[n].ty, FALSE) # Bad
  /\ TypeOf(f.result, TRUE) # Bad
  /\ AttrParses(f, "link_name", "str")
  /\ AttrParses(f, "filc::free", "str")
  /\ AttrParses(f, "filc::drop", "path")

Parsed(f) ==
  [name   |-> f.name,
   symbol |-> Symbol(f),
   params |-> [n \in DOMAIN f.params |->
                 [name |-> f.params[n].name,
                  ty |-> TypeOf(f.params[n].ty, FALSE)]],
   result |-> TypeOf(f.result, TRUE),
   free   |-> Text(f, "filc::free", "")]

ShapeOfDrop(f) ==
  /\ f.result = Void
  /\ Len(f.params) = 1
  /\ f.params[1].ty.kind = "handle"
-----------------------------------------------------------------------------
schema == [bridge |-> Value(Found, "name").text, max |-> MaxFrame(Found),
           handles |-> handles, functions |-> functions]

Distinct(s) == \A n, m \in DOMAIN s : s[n].name = s[m].name => n = m

ValidType(ty, hs) == ty.kind = "handle" => ty.of \in HandleNames(hs)

ValidHandle(h) ==
  /\ {h.name, RustName[h.name]} \subseteq Identifiers
  /\ h.drop # NoDrop => {h.drop.name, h.drop.symbol} \subseteq Identifiers

ValidFunction(f, hs) ==
  /\ {f.name, f.symbol} \subseteq Identifiers
  /\ Distinct(f.params)
  /\ \A n \in DOMAIN f.params :
       /\ f.params[n].name \in Identifiers
       /\ f.params[n].ty # Void
       /\ ValidType(f.params[n].ty, hs)
  /\ ValidType(f.result, hs)
  /\ f.free # "" => /\ f.free \in Identifiers
                    /\ f.result.kind \in {"string", "bytes"}

(* Schema::validate.                                                       *)
Valid ==
  /\ schema.bridge \in Identifiers
  /\ Value(Found, "header").text # ""
  /\ Value(Found, "sources").number > 0
  /\ schema.max >= MinFrame
  /\ functions # <<>>
  /\ \A n \in DOMAIN handles : ValidHandle(handles[n])
  /\ Distinct(handles)
  /\ \A n \in DOMAIN functions : ValidFunction(functions[n], handles)
  /\ Distinct(functions)
-----------------------------------------------------------------------------
Init ==
  /\ file \in Files
  /\ pc = "find"
  /\ i = 1 /\ k = 1
  /\ handles = <<>> /\ functions = <<>>

Reject(from) ==
  /\ pc = from /\ pc' = "rejected"
  /\ UNCHANGED <<file, i, k, handles, functions>>

BlockAccepted ==
  /\ Cardinality(Bridges) = 1
  /\ Found.unsafety
  /\ AbiAccepted(Found)
  /\ BridgeParses(Found)
  /\ \A n \in DOMAIN Items : Items[n].fn

RejectBlock == Reject("find") /\ ~BlockAccepted

Find ==
  /\ pc = "find" /\ BlockAccepted
  /\ pc' = "collect"
  /\ UNCHANGED <<file, i, k, handles, functions>>

(* The types of an item as collect_pointer_handles takes them: those of    *)
(* its parameters and then the result.                                     *)
TypeAt(f, n) == IF n \in DOMAIN f.params THEN f.params[n].ty ELSE f.result

Collecting == pc = "collect" /\ i <= Len(Items)
NextType ==
  IF k <= Len(Items[i].params) THEN i' = i /\ k' = k + 1
  ELSE i' = i + 1 /\ k' = 1

RejectPointer ==
  /\ Collecting /\ TypeAt(Items[i], k).shape = "ptr"
  /\ TypeAt(Items[i], k).of = ""
  /\ Reject("collect")

Collect_NotDrops ==   \* mutant: destructors are left out
  /\ Collecting
  /\ LET ty == TypeAt(Items[i], k) IN
     /\ ty.shape = "ptr" => ty.of # ""
     /\ handles' = IF /\ ty.shape = "ptr" /\ ~IsDrop(Items[i])
                      /\ ty.of \notin HandleNames(handles)
                   THEN Append(handles, [name |-> ty.of, drop |-> NoDrop])
                   ELSE handles
  /\ NextType
  /\ UNCHANGED <<file, pc, functions>>

Collect ==
  /\ Collecting
  /\ LET ty == TypeAt(Items[i], k) IN
     /\ ty.shape = "ptr" => ty.of # ""
     /\ handles' = IF ty.shape = "ptr" /\ ty.of \notin HandleNames(handles)
                   THEN Append(handles, [name |-> ty.of, drop |-> NoDrop])
                   ELSE handles
  /\ NextType
  /\ UNCHANGED <<file, pc, functions>>

Collected ==
  /\ pc = "collect" /\ i > Len(Items)
  /\ pc' = "parse" /\ i' = 1
  /\ UNCHANGED <<file, k, handles, functions>>

Parsing == pc = "parse" /\ i <= Len(Items)

(* attach_drop finds the handle of its parameter by name.                  *)
Target_First(f) == 1   \* mutant: the destructor goes to the first type

Target(f) == CHOOSE j \in DOMAIN handles : handles[j].name = f.params[1].ty.of

DropParses(f) ==
  /\ ShapeOfDrop(f)
  /\ handles[Target(f)].drop = NoDrop

RejectItem ==
  /\ Parsing
  /\ ~(/\ FunctionParses(Items[i])
       /\ IsDrop(Items[i]) => DropParses(Parsed(Items[i])))
  /\ Reject("parse")

ParseFunction ==
  /\ Parsing /\ FunctionParses(Items[i]) /\ ~IsDrop(Items[i])
  /\ functions' = Append(functions, Parsed(Items[i]))
  /\ i' = i + 1
  /\ UNCHANGED <<file, pc, k, handles>>

AttachDrop ==
  /\ Parsing /\ FunctionParses(Items[i]) /\ IsDrop(Items[i])
  /\ LET f == Parsed(Items[i]) IN
     /\ DropParses(f)
     /\ handles' = [handles EXCEPT ![Target(f)].drop =
                      [name |-> f.name, symbol |-> f.symbol]]
  /\ i' = i + 1
  /\ UNCHANGED <<file, pc, k, functions>>

Validate ==
  /\ pc = "parse" /\ i > Len(Items)
  /\ pc' = IF Valid THEN "accepted" ELSE "rejected"
  /\ UNCHANGED <<file, i, k, handles, functions>>

Ended == pc \in {"accepted", "rejected"} /\ UNCHANGED vars

Next ==
  \/ RejectBlock \/ Find
  \/ RejectPointer \/ Collect \/ Collected
  \/ RejectItem \/ ParseFunction \/ AttachDrop
  \/ Validate
  \/ Ended

Spec == Init /\ [][Next]_vars
-----------------------------------------------------------------------------
(* string_argument and expand_bridge of filc-macros: the block becomes an  *)
(* include of OUT_DIR/<name>.rs.                                           *)
Expands_OneAbi(b) ==   \* mutant: the lowercase spelling is forgotten
  /\ b.abi = "Fil-C"
  /\ b.unsafety
  /\ Given(b, "name") # {} /\ WellGiven(b, "name", "str")

Expands(b) ==
  /\ AbiAccepted(b)
  /\ b.unsafety
  /\ Given(b, "name") # {} /\ WellGiven(b, "name", "str")
-----------------------------------------------------------------------------
TypeOK ==
  /\ file \in Seq(Block)
  /\ pc \in {"find", "collect", "parse", "accepted", "rejected"}
  /\ i \in Nat \ {0} /\ k \in Nat \ {0}
  /\ handles \in Seq(Handle)
  /\ functions \in Seq(Function)

(* The parts of the code that panic when they are given what they do not   *)
(* expect never are: attach_drop finds the handle ("were collected before  *)
(* drop metadata"), Schema::handle finds every handle of an accepted       *)
(* schema ("validated handle reference"), and no generator meets a         *)
(* parameter without a value ("validated parameter").                      *)
NeverPanics ==
  /\ Parsing /\ FunctionParses(Items[i]) /\ IsDrop(Items[i])
     /\ ShapeOfDrop(Parsed(Items[i])) =>
       Parsed(Items[i]).params[1].ty.of \in HandleNames(handles)
  /\ pc = "accepted" =>
       \A n \in DOMAIN functions :
         LET f == functions[n] IN
         /\ \A m \in DOMAIN f.params :
              /\ f.params[m].ty.kind \in Kinds \ {"void"}
              /\ ValidType(f.params[m].ty, handles)
         /\ f.result.kind \in Kinds
         /\ ValidType(f.result, handles)

(* From the declaration to the C code and back: whatever stands before,    *)
(* after or between them, each declared function has a binding of its name *)
(* whose operation makes the helper call its C function with its types,    *)
(* and return or release what the declaration says; a destructor is run by *)
(* the release of the type it is declared for and by no operation of a     *)
(* function; no operation has two cases; and the schema is as the          *)
(* generators, and Build, take it to be.                                   *)
RunsWhatIsDeclared ==
  pc = "accepted" =>
    /\ WellFormed(schema)
    /\ \A c, d \in Cases(schema) : c.op = d.op => c = d
    /\ \A n \in DOMAIN Items :
         LET f == Parsed(Items[n]) IN
         \E b \in Bindings(schema) :
           /\ b.name = f.name
           /\ b.sends = Wires(f)
           /\ b.gets = Wire(f.result)
           /\ Serves(schema, b)
           /\ Case(schema, b.op).calls = f.symbol
           /\ IsDrop(Items[n]) <=> b.op >= ReleaseBase

(* A type the table refuses an object of is discarded with the destructor  *)
(* that is declared for it, wherever in the block that stands.             *)
DiscardsAsDeclared ==
  pc = "accepted" =>
    \A n, m \in DOMAIN Items :
      LET f == Parsed(Items[n])
          d == Parsed(Items[m]) IN
      /\ ~IsDrop(Items[n]) /\ f.result.kind = "handle"
      /\ IsDrop(Items[m]) /\ d.params[1].ty = f.result
      => \A c \in Cases(schema) :
           c.calls = f.symbol /\ c.gives = Wire(f.result) =>
             c.discards = d.symbol

(* Macro and build script read the block with code of their own.  What the *)
(* build accepts the macro expands; what the macro would expand besides,   *)
(* the build has refused before.                                           *)
MacroAgrees == pc = "accepted" => Expands(Found)
=============================================================================
