------------------------------ MODULE MCBuild -------------------------------
EXTENDS Build, TLC

Takes == [name |-> "counter", ty |-> Opaque("counter_t")]

Base ==
  [bridge |-> "demo", max |-> 4,
   handles |-> <<[name |-> "store_t", drop |-> NoDrop],
                 [name |-> "counter_t",
                  drop |-> [name |-> "counter_drop",
                            symbol |-> "counter_drop"]]>>,
   functions |-> <<
     [name |-> "counter_new", symbol |-> "counter_new", params |-> <<>>,
      result |-> Opaque("counter_t"), free |-> ""],
     [name |-> "text", symbol |-> "text", params |-> <<Takes>>,
      result |-> Plain("string"), free |-> "release"]>>]

MCSchemas == {
  Base,
  [Base EXCEPT !.functions = <<@[2], @[1]>>],
  [Base EXCEPT !.functions[2].symbol = "legacy_text"],
  [Base EXCEPT !.functions[2].result = Plain("bytes")],
  [Base EXCEPT !.functions[2].free = ""],
  [Base EXCEPT !.handles[2].drop.symbol = "counter_close"],
  [Base EXCEPT !.handles = <<@[2], @[1]>>],
  [Base EXCEPT !.max = 5]}
=============================================================================
