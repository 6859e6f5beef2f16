------------------------------- MODULE Build --------------------------------
(***************************************************************************)
(* Config::build as cargo runs it: a declaration, legacy sources and       *)
(* headers that change; generated bindings and a helper in OUT_DIR; the    *)
(* program linked with the bindings of one build and started, perhaps much *)
(* later, with the helper it then finds.  What keeps a program from being  *)
(* served by a helper that misunderstands it is the schema hash.           *)
(***************************************************************************)
EXTENDS Interface

CONSTANTS
  Schemas,  \* accepted schemas the declaration goes through
  None,     \* no file, no schema, no process
  MaxEdits  \* bound: changes to files and environment

ASSUME BuildAssumption ==
  /\ Schemas \subseteq Schema
  /\ \A s \in Schemas : WellFormed(s)
  /\ None \notin Schemas \cup [schema : Schemas, source : Nat, other : Nat]
  /\ MaxEdits \in Nat

VARIABLES
  decl,     \* the schema of the declaration in the source tree
  source,   \* version of the header and the sources it names
  other,    \* version of the headers these include
  mode,     \* the environment of the next build
  edits,    \* changes so far
  pc, read, \* the build script: where it is, the schema it has read
  stale,    \* cargo: a watched file changed since the script last began
  done,     \* cargo: how the script last ended, and in which mode
  bindings, server,  \* OUT_DIR/<name>.rs, OUT_DIR/<name>_server.c
  helper,   \* OUT_DIR/<name>_helper
  program,  \* the bindings linked into the program
  client,   \* the bindings of the program that runs
  peer,     \* the schema of the helper process it is connected to
  answer    \* what its last call got

tree == <<decl, source, other, mode, edits>>
cargo == <<pc, read, stale, done>>
outDir == <<bindings, server, helper>>
run == <<client, peer, answer>>
vars == <<tree, cargo, outDir, program, run>>
-----------------------------------------------------------------------------
Modes == {"compiler",  \* FILC_CC or Config::compiler
          "analysis",  \* no compiler, but rust-analyzer asks
          "none"}

Init ==
  /\ decl \in Schemas
  /\ source = 0 /\ other = 0 /\ edits = 0
  /\ mode \in Modes
  /\ pc = "idle" /\ read = None
  /\ stale = TRUE /\ done = [ok |-> FALSE, mode |-> mode]
  /\ bindings = None /\ server = None /\ helper = None
  /\ program = None /\ client = None /\ peer = None
  /\ answer = "none"
-----------------------------------------------------------------------------
(* What the script prints as rerun-if-changed.  A header that only other   *)
(* files include is not among it.                                          *)
Watched_NoSources == {"declaration"}  \* mutant: header and sources forgotten

Watched == {"declaration", "source"}

Edit(what) ==
  /\ edits < MaxEdits
  /\ edits' = edits + 1
  /\ stale' = (stale \/ what \in Watched)
  /\ UNCHANGED <<pc, read, done, outDir, program, run>>

EditDeclaration(s) ==
  /\ Edit("declaration") /\ s # decl
  /\ decl' = s
  /\ UNCHANGED <<source, other, mode>>

EditSource ==
  /\ Edit("source")
  /\ source' = source + 1
  /\ UNCHANGED <<decl, other, mode>>

EditOther ==
  /\ Edit("other")
  /\ other' = other + 1
  /\ UNCHANGED <<decl, source, mode>>

SetEnvironment(m) ==
  /\ Edit("environment") /\ m # mode
  /\ mode' = m
  /\ UNCHANGED <<decl, source, other>>
-----------------------------------------------------------------------------
(* Cargo runs the script if its last run failed, or something it watches,  *)
(* files or rerun-if-env-changed, is not as it was when that run began.    *)
UpToDate == done.ok /\ ~stale /\ done.mode = mode

(* The declaration is read, once.                                          *)
Begin ==
  /\ pc = "idle" /\ ~UpToDate
  /\ pc' = "bindings" /\ read' = decl
  /\ stale' = FALSE
  /\ done' = [ok |-> FALSE, mode |-> mode]
  /\ UNCHANGED <<tree, outDir, program, run>>

Fresh ==
  /\ pc = "idle" /\ UpToDate
  /\ pc' = "link"
  /\ UNCHANGED <<tree, read, stale, done, outDir, program, run>>

(* A file cannot be read, parsed or written, or there is no compiler.      *)
Fail ==
  /\ pc \in {"bindings", "server", "compile"}
  /\ pc' = "idle"
  /\ UNCHANGED <<tree, read, stale, done, outDir, program, run>>

WriteBindings ==
  /\ pc = "bindings"
  /\ pc' = "server"
  /\ bindings' = read
  /\ UNCHANGED <<tree, read, stale, done, server, helper, program, run>>

WriteServer_Rereads ==   \* mutant: the declaration is read again
  /\ pc = "server"
  /\ pc' = "compile"
  /\ server' = decl
  /\ UNCHANGED <<tree, read, stale, done, bindings, helper, program, run>>

WriteServer ==
  /\ pc = "server"
  /\ pc' = "compile"
  /\ server' = read
  /\ UNCHANGED <<tree, read, stale, done, bindings, helper, program, run>>

Succeed ==
  /\ pc = "compile"
  /\ pc' = "link"
  /\ done' = [done EXCEPT !.ok = TRUE]
  /\ UNCHANGED <<tree, read, stale, bindings, server, program, run>>

(* analysis_requested: bindings and no helper; one from before stays.      *)
Analyse ==
  /\ done.mode = "analysis"
  /\ Succeed
  /\ UNCHANGED helper

Compile ==
  /\ done.mode = "compiler"
  /\ Succeed
  /\ helper' = [schema |-> server, source |-> source, other |-> other]

(* The compiler fails; the linker may have removed the file.               *)
CompileFails ==
  /\ pc = "compile" /\ done.mode = "compiler"
  /\ pc' = "idle"
  /\ helper' = None
  /\ UNCHANGED <<tree, read, stale, done, bindings, server, program, run>>

(* The crate, in which the macro includes the bindings, compiles or fails. *)
Link ==
  /\ pc = "link"
  /\ pc' = "idle"
  /\ program' \in {program, bindings}
  /\ UNCHANGED <<tree, read, stale, done, outDir, run>>
-----------------------------------------------------------------------------
(* The program as it is on disk starts, now or after more builds.          *)
Start ==
  /\ program # None
  /\ client' = program /\ peer' = None /\ answer' = "none"
  /\ UNCHANGED <<tree, cargo, outDir, program>>

(* Bridge::connection: the helper at the default path, or whichever the    *)
(* environment names, is started.                                          *)
Connect(h) ==
  /\ client # None /\ peer = None
  /\ peer' = h /\ answer' = "none"
  /\ UNCHANGED <<tree, cargo, outDir, program, client>>

ConnectDefault == helper # None /\ Connect(helper.schema)

Matches_Anything(c, h) == TRUE  \* mutant: the hash is not compared

(* dispatch compares the hash in the request with its own.                 *)
Matches(c, h) == Canonical(c) = Canonical(h)

Call ==
  /\ peer # None
  /\ answer' = IF Matches(client, peer) THEN "served" ELSE "schema mismatch"
  /\ UNCHANGED <<tree, cargo, outDir, program, client, peer>>

HelperDies ==
  /\ peer # None
  /\ peer' = None /\ answer' = "none"
  /\ UNCHANGED <<tree, cargo, outDir, program, client>>

Next ==
  \/ \E s \in Schemas : EditDeclaration(s)
  \/ EditSource \/ EditOther \/ \E m \in Modes : SetEnvironment(m)
  \/ Begin \/ Fresh \/ Fail \/ WriteBindings \/ WriteServer
  \/ Analyse \/ Compile \/ CompileFails \/ Link
  \/ Start \/ ConnectDefault \/ \E h \in Schemas : Connect(h)
  \/ Call \/ HelperDies

Spec == Init /\ [][Next]_vars
-----------------------------------------------------------------------------
Helper == [schema : Schemas, source : Nat, other : Nat]

TypeOK ==
  /\ decl \in Schemas
  /\ source \in Nat /\ other \in Nat /\ edits \in 0 .. MaxEdits
  /\ mode \in Modes
  /\ pc \in {"idle", "bindings", "server", "compile", "link"}
  /\ pc # "idle" => read \in Schemas
  /\ stale \in BOOLEAN /\ done \in [ok : BOOLEAN, mode : Modes]
  /\ {bindings, server, program, client, peer} \subseteq Schemas \cup {None}
  /\ helper = None \/ helper \in Helper
  /\ answer \in {"none", "served", "schema mismatch"}

(* Whatever was edited and rebuilt while a program ran, and whichever      *)
(* helper it found: a call that is served is served by a helper for which  *)
(* each operation of the program's bindings means the C function, the      *)
(* types and the release that these were generated from.                   *)
ServedByPeer == answer = "served" => Interoperate(client, peer)

(* A build with a compiler that ended well leaves bindings and a helper of *)
(* one declaration in OUT_DIR, also when the declaration was edited while  *)
(* it ran, and when builds before it failed between their files.           *)
PairOnDisk ==
  pc = "link" /\ done.mode = "compiler" =>
    helper # None /\ Canonical(bindings) = Canonical(helper.schema)

(* When cargo finds nothing to do the helper is that of the declaration,   *)
(* the header and the sources as they are, edits made during the build     *)
(* included.  Headers that only other files include are not covered.       *)
WatchedUpToDate ==
  UpToDate /\ mode = "compiler" =>
    helper # None /\ helper.schema = decl /\ helper.source = source
=============================================================================
