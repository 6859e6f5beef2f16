--------------------------- MODULE MCDeclaration ----------------------------
EXTENDS Declaration, TLC, SequencesExt

T(shape, of) == [shape |-> shape, of |-> of]
I64 == T("path", "i64")
Unit == T("unit", "")
P(name, ty) == [name |-> name, ty |-> ty]
A(path, form, text) == [path |-> path, form |-> form, text |-> text]
Destructor == A("filc::drop", "path", "-")
F(attrs, name, params, result) ==
  [fn |-> TRUE, plain |-> TRUE, attrs |-> attrs, name |-> name,
   params |-> params, result |-> result]
Counter == T("ptr", "counter_t")
Store == T("ptr", "store_t")

GoodItems == {
  F(<<>>, "counter_new", <<P("initial", I64)>>, Counter),
  F(<<>>, "counter_add", <<P("counter", Counter), P("delta", I64)>>, I64),
  F(<<Destructor>>, "counter_drop", <<P("counter", Counter)>>, Unit),
  F(<<Destructor, A("link_name", "str", "legacy_close")>>, "store_close",
    <<P("store", Store)>>, Unit),
  F(<<A("doc", "str", "-")>>, "open", <<P("at", Counter)>>, Store),
  F(<<A("link_name", "str", "legacy_greet"), A("filc::free", "str", "release")>>,
    "greet", <<P("name", T("ref", "str"))>>, T("path", "String"))}

BadItems == {
  F(<<>>, "reset", <<P("how", Unit)>>, Unit),
  F(<<>>, "counter_add", <<>>, Unit),
  F(<<>>, "join", <<P("a", Counter), P("a", Store)>>, Unit),
  F(<<Destructor>>, "counter_kill", <<P("counter", Counter)>>, Unit),
  F(<<Destructor>>, "counter_end", <<P("counter", Counter)>>, I64),
  F(<<Destructor>>, "finish", <<P("how", I64)>>, Unit),
  F(<<Destructor, Destructor>>, "store_drop", <<P("store", Store)>>, Unit),
  F(<<A("filc::free", "str", "release")>>, "size", <<>>, I64),
  F(<<A("filc::free", "path", "-")>>, "text", <<>>, T("path", "Vec<u8>")),
  F(<<A("inline", "path", "-")>>, "quick", <<>>, Unit),
  F(<<>>, "view", <<>>, T("ref", "[u8]")),
  F(<<>>, "take", <<P("text", T("path", "String"))>>, Unit),
  F(<<>>, "deep", <<P("of", T("ptr", ""))>>, Unit),
  F(<<>>, "blank", <<P("of", T("ptr", "_"))>>, Unit),
  [F(<<>>, "vary", <<>>, Unit) EXCEPT !.plain = FALSE],
  [F(<<>>, "STATIC", <<>>, Unit) EXCEPT !.fn = FALSE],
  F(<<>>, "r#type", <<>>, Unit)}

G(key, form, text, number) ==
  [key |-> key, form |-> form, text |-> text, number |-> number]
Args == <<G("name", "str", "demo", 0), G("header", "str", "demo.h", 0),
          G("sources", "array", "", 1)>>

BlockOf(args, items) ==
  [attribute |-> TRUE, unsafety |-> TRUE, abi |-> "Fil-C",
   args |-> args, items |-> items]

Simple == <<F(<<>>, "counter_add", <<P("counter", Counter)>>, I64)>>
Good == BlockOf(Args, Simple)

ArgsTried ==
  {Append(Args, a) : a \in {
     G("max_frame_bytes", "int", "", 3), G("max_frame_bytes", "int", "", 4),
     G("max_frame_bytes", "str", "4", 0), G("includes", "array", "", 0),
     G("includes", "flag", "", 0), G("name", "str", "demo", 0),
     G("name", "flag", "", 0), G("libs", "array", "", 1)}} \cup
  {[Args EXCEPT ![n] = a] : n \in 1 .. 3, a \in {
     G("name", "flag", "", 0), G("name", "str", "no-name", 0),
     G("header", "str", "", 0), G("sources", "array", "", 0),
     G("sources", "str", "demo.c", 0), G("libs", "array", "", 1)}}

Lists(S, n) == UNION {[1 .. m -> S] : m \in 0 .. n}

MCFiles ==
  {<<BlockOf(Args, items)>> :
     items \in Lists(GoodItems, 4) \cup Lists(GoodItems \cup BadItems, 2)} \cup
  {<<BlockOf(args, Simple)>> : args \in ArgsTried} \cup
  {<<[Good EXCEPT !.abi = abi]>> : abi \in {"fil-c", "C", ""}} \cup
  {<<>>, <<Good, Good>>, <<[Good EXCEPT !.unsafety = FALSE]>>,
   <<[Good EXCEPT !.attribute = FALSE], Good>>}

MCIdentifiers ==
  {"demo", "counter_t", "CounterT", "store_t", "StoreT", "_", "counter_new",
   "counter_add", "counter_drop", "store_close", "legacy_close", "open",
   "greet", "legacy_greet", "release", "reset", "join", "counter_kill",
   "counter_end", "finish", "store_drop", "size", "text", "quick", "view",
   "take", "deep", "blank", "vary", "STATIC", "initial", "counter", "delta",
   "store", "at", "name", "how", "a", "of"}

MCRustName == [counter_t |-> "CounterT", store_t |-> "StoreT"] @@ ("_" :> "")
=============================================================================
