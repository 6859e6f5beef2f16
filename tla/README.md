# A TLA+ model of rust-filc

rust-filc lets a Rust program call legacy C code that is compiled with the
memory-safe Fil-C compiler. The C code runs in a process of its own, the
*helper*; a build script generates the Rust functions that the program calls and
the C program that serves them. The two talk over the helper's stdin and stdout.

This directory holds a specification of that system: modules that TLC checks on
small instances and theorems that TLAPS proves for all of them. The code is the
reference throughout; `PROJECT.json` maps every definition to the lines it
stands for.

## 1. The system

| Component | Where | State | Operations |
|---|---|---|---|
| Bridge, Connection, Process | `crates/filc/src/lib.rs` 272-502 | `Bridge.connection` (mutex, optional `Arc`), per Connection a mutex, a child process, `next_request_id`, the two pipes | `connection`, `call`, `retire`, `spawn`, `Process::call`, `Drop` |
| Generated bindings | `crates/filc-build/src/rust.rs` | one static `BRIDGE`; per handle an `Arc<Connection>` and an optional id | a function per declaration, `id_for`, `release`, `Drop`, the consuming destructor |
| Helper main loop, dispatch | `crates/filc-build/src/c.rs` 252-371, 582-706 | the request in hand, the response buffer | `read_exact`, `dispatch`, `send_response`, `release_all_handles` |
| Helper handle table | `crates/filc-build/src/c.rs` 68-249 | slots, length, capacity, `next_id`, per opaque type | `insert`, `lookup`, `remove`, `remove_all` |
| Wire codec | `lib.rs` 96-270, `c.rs` 449-580 | a payload, a cursor | encode and decode one value, `finish` |
| Response buffer | `c.rs` 409-447, 495-498 | length, capacity, memory | `buffer_reserve`, `buffer_append`, `buffer_error` |
| Pipes of a connection | `lib.rs` 399-463, `c.rs` 584-617, 647-706 | two bounded pipes, `BufReader`, stdio | `write_all`, `read_exact`, `fwrite`, `fflush` |
| Declaration schema | `crates/filc-build/src/schema.rs` | the opaque types and functions found so far | parse, validate, canonical form |
| Build pipeline | `crates/filc-build/src/lib.rs` | files in `OUT_DIR`, cargo's rerun rules | `Config::build` |
| Attribute macros | `crates/filc-macros/src/lib.rs` | none | check the block, include the generated bindings |
| Errors and their texts | `lib.rs` 20-94, `filc-build/src/lib.rs` 15-75 | none | `Display`, `source`, `From` |
| Counter example | `examples/counter` | one counter | a user of the library |
| Packaging | Nix, just, release notes | none | none |

How they interact. A generated function asks the static Bridge for its
Connection (which starts a helper if there is none), encodes its arguments,
refusing a handle that belongs to another Connection, and calls. The call takes
the Connection's mutex, writes one request, reads one response and gives the
mutex up. A transport error makes the Bridge forget the Connection, if it is
still the current one. An opaque object stays in the helper's table under an id;
the Rust program owns a handle with that id and an `Arc` to the Connection. A
handle's destructor sends its release straight to that Connection, around the
Bridge. What a number on the wire means is fixed at build time: the build script
reads the declaration once and generates the bindings and the helper's `dispatch`
from it with two generators that number the operations independently. The
attribute macro reads the declaration a second time, with code of its own. Both
peers carry a hash of the declaration, which the helper compares on every call.

What is hard about it:

- **Several threads.** `connection`, `call` and `retire` are separate critical
  sections. Between them a thread holds an `Arc` that others may have retired and
  replaced.
- **Identity by address.** `id_for` and `retire` compare with `Arc::ptr_eq`.
  This is sound only as long as an address is not reused while someone holds it.
- **Crashes at every point.** Fil-C stops the helper at a memory error, in the
  middle of a function or of a response. Nobody restarts it until the next call.
- **A shared stream.** The legacy code may print to stdout, which is the response
  channel.
- **Ownership across the pipe.** An object in the helper must have one owner in
  the Rust program; each step in between can fail.
- **Limits.** Ids wrap, capacities double, a result may not fit in a frame,
  `malloc` may fail half way through.
- **Bounded pipes.** Neither side reads while it writes. A request longer than a
  pipe must meet a helper that reads all of it.
- **Two generators, two languages.** What one numbers, encodes and frees the other
  must take the same way; a declaration, its bindings, a helper on disk and a
  running program may all be of different ages.

What makes each component correct, in a line: the *Bridge* never forgets a
live helper and never hands out one it knows to be dead; a *handle* names the
object it was made for or nothing; a *call* gets its own response or an error,
and returns; the *helper* answers each request once, runs a function only for a
sound request, and releases what it allocated; the *table* stays in its memory,
never gives an id twice, and destroys every object once; the *codecs* of both
sides are inverse; the *build* never pairs a program with a helper that
misunderstands it.

## 2. The modules

| Module | What it is |
|---|---|
| `Bridge` | the run time: threads in generated functions, the Bridge, Connections, pipes, helpers, handles |
| `BridgeProofs` | inductive invariants of `Bridge`, theorems, in three parts: identity and replies; on top of it, handles; on top of both, ownership |
| `HandleStore` | abstract specification of the helper's handle table |
| `HandleTable` | the slot array that implements it |
| `HandleTableProofs` | its invariants and the refinement, proved |
| `Helper` | main loop and dispatch, over `HandleStore` |
| `HelperProofs` | inductive invariant of `Helper`, theorems |
| `Transport` | one connection at the level of its two bounded pipes |
| `TransportProofs` | its inductive invariant over the two streams, theorems |
| `Codec` | values on the wire in both directions, byte by byte |
| `CodecProofs` | induction without its operators, arithmetic of digits, its inductive invariants, theorems |
| `Buffer` | the helper's response buffer, in `size_t` arithmetic |
| `BufferProofs` | its inductive invariant, theorems |
| `Interface` | a schema, its canonical form, the bindings and the dispatch cases generated from it |
| `Declaration` | the parser of a bridge block, and the attribute macro; extends `Interface` |
| `DeclarationProofs` | its inductive invariant over the two loops, theorems |
| `Build` | `Config::build` under cargo, the files it leaves, programs and helpers; extends `Interface` |
| `BuildProofs` | the hash is a sufficient test; invariants of `Build` |
| `MC...` | what TLC needs besides a specification: symmetry sets, instances of constants |

### Bridge

`current` is `Bridge.connection`. `conn[a]` is the Connection at heap address
`a`: whether its helper runs, who holds the Process mutex, `next_request_id`, the
requests in stdin, the cells in stdout, what `fwrite` still buffers (`stdio`),
and the helper's objects. Addresses are reused when the last `Arc` is gone
(`Referenced`, `DropUnreferenced`), so pointer equality means exactly what it
means in the code; the ghost `gen` tells Connections apart and appears in no
guard. `thread[t]` is the generated function thread `t` is inside.

A call goes through these steps, each one atomic action between two points where
another thread can run:

| Code | Action |
|---|---|
| `BRIDGE.connection()?` (one critical section) | `Connect`, `Spawn`, `SpawnFails` |
| `handle.id_for(&connection)?` | `WrongConnection` |
| the frame size check of `Connection::call` | `Oversize` |
| `process.lock()`, `checked_add` | `Lock`, `Exhausted` |
| `write_all`, `flush` | `Write`, `WriteFails` |
| `read_exact` of the header, `validate_response_header` | `ReadHeader`, `BadHeader`, `ReadEof` |
| `read_exact` of the body, unlock, decode, a new handle | `ReadBody`, `ReadEof` |
| `Bridge::retire` (one critical section), return | `Retire` |
| `release`, from `Drop` or the destructor function | `Release`, then as above with `op = "drop"` |

The helper side of this module is short (`ServeNew`, `ServeNull`, `ServeUse`,
`ServeDrop`, `Flush`, `Crash`); its detail is in `Helper`. Output passes from
`stdio` to the pipe in pieces (`Flush`), so that a crash cuts a frame anywhere.
A response is `HeaderLen` header cells and at most one body cell: two header
cells suffice for a header to be cut and for a reader to be out of step by less
than a header.

### HandleStore and HandleTable

`HandleStore` says what the rest of the system relies on: ids are issued once and
in order, an id names its object until it is discarded, every object is destroyed
once. `HandleTable` is the C code: search for a dead slot, doubling with its
overflow checks, `realloc` that may fail and leaves the block it was given (`allocated`
bytes), the 64-bit counter that wraps to 0, the
linear `lookup` and `remove`, `remove_all` at exit. Widths are parameters
(`MaxId`, `SizeMax`, `SlotSize`, `InitialCapacity`).

### Helper

One action per step of `main` and `dispatch` at which something can fail: read a
header, allocate and read the payload, refuse, call the legacy function, retain
its object, append to the response buffer, send. A frame carries the first
defect that the code would find in it (`Defects`), since the checks come one
after another and the first ends the matter. The table's operations are the
actions of `HandleStore`, conjoined with the helper's own part. Ghosts record
accepted frames, runs of functions, objects made and texts not yet released.

### Transport

`Bridge` lets a pipe grow; here it holds `Capacity` cells and a writer waits.
`pc` is where the `Process::call` that holds the mutex is, `todo` what it has
still to write, `ahead` what `BufReader` has taken and not given out; `hpc` is
where `main` is, `out` the buffer of stdio. `Write`, `Fill`, `ReadHeader`,
`ReadBody`, `Fails` are the steps of `Process::call`; `HelperHeader`,
`HelperPayload`, `Return`, `PutReply`, `Flush`, `Flushed` those of `main`; `Drain`
is libc writing a full or flushed buffer, `Stray` the legacy code printing. A
frame is a header cell, which announces a size, and that many further cells; a
cell of stray output is no header.

### Codec and Buffer

`Codec` sends one request (`to = "helper"`) or one response (`to = "client"`) of
values of given kinds: the writer encodes one value a step (`EncodeArgument`,
`EncodeText`, `EncodeResult`, `EncodeView`, or the ways it gives up), the frame
limit of its side is applied (`SendRequest`, `SendResponse`), then that of the
other (`Receive`), and the reader decodes one value a step (`DecodeFixed`,
`DecodeText`, `BadFixed`, `BadText`, `Finish`) with the bounds checks of its
language (`TakeC`, `TakeRust`). A byte has `Base` values, a `u32` `Short` bytes, a
`u64` `Long` ones. A payload may also come from elsewhere (`honest = FALSE`).

`Buffer` is `buffer_append` and `buffer_error` at a finer grain: the test against
the limit, the choice of the first capacity, one turn of the doubling loop a step,
`realloc`, `memcpy`; sums and products wrap at `SizeMax`.

### Interface, Declaration, Build

`Interface` has no state. `Canonical` is what is hashed; `Bindings` is what
`rust.rs` makes of a schema (operation, C function, types, release); `Cases` is the
`switch` that `c.rs` makes of it; `Interoperate` says that each operation of the
one means the same to the other.

`Declaration` is `Schema::parse`, one turn of its loops a step: find the one block
and read its arguments (`Find`), collect the opaque types in a first pass over
the items (`Collect`), parse functions and attach destructors in a second
(`ParseFunction`, `AttachDrop`), `Validate`; each `Reject...` is the errors of its
step. A file is what `syn` makes of it. `Expands` is the attribute macro's own view
of the same block; `MacroAgrees` asks for one direction only, since what the build
script refuses ends the build before the macro matters.

`Build` is `Config::build` with everything around it that decides which program
meets which helper: edits and changes of environment at any time (`Edit...`,
`SetEnvironment`), cargo's decision to run the script or not (`Begin`, `Fresh`),
the three files written one after another (`WriteBindings`, `WriteServer`,
`Compile`, or `Analyse` for rust-analyzer), a failure at each (`Fail`,
`CompileFails`), the crate linked with the bindings then on disk (`Link`), and a
program started at any later time (`Start`) that connects to the helper on disk
or to any helper the environment names (`ConnectDefault`, `Connect`). `Call` is the
comparison of the hashes in `dispatch`.

## 3. What TLC checks

| Run | Instance | Shows |
|---|---|---|
| `bridge_safety` | 2 threads, 2 addresses, 3 helper starts, 4 calls, 2 stray cells per request, request ids up to 4, low memory | `TypeOK`, `LiveHelperIsCurrent`, `ArcIdentity`, `HandlesResolve`, `ReplyMatchesCall`, `BrokenIsNotReused`, `OnlyDeadIsRetired` |
| `bridge_ownership` | no stray output, enough request ids and memory, 5 calls | `ObjectsAreOwned` |
| `bridge_liveness` | 3 calls, 1 stray cell, fairness but for writes to pipes that may be full | `CallReturns` |
| `handle_table` | 2 objects, 5 ids, `SizeMax` 15, slots of 2, initial capacity 1 | `TypeOK`, `WithinAllocation`, `LiveIdsUnique`, `DestroyedOnce`, `ImplementsStore` |
| `helper_main` | 3 frames, 2 ids, every defect and failure, fairness | `TypeOK`, `OneResponseEach`, `RunsOnceIfValid`, `BodiesWhole`, `TextsReleased`, `ObjectsAccounted`, `EndsWithInput` |
| `transport` | pipes, `BufReader` and stdio of 2 cells, requests and responses of up to 3 cells and a header, 3 stray cells a call, 3 calls, fairness | `TypeOK`, `NoStandoff`, `NothingLeft`, `CallReturns` |
| `codec` | base 4, `u32` of 1 byte, `u64` of 2, frames of 5, up to two values of six kinds, every payload up to the limit from elsewhere | `TypeOK`, `RoundTrip`, `AcceptsOneForm`, `LimitsAgree` |
| `buffer` | `SizeMax` 15, limit 13, first capacity 2, appends of every length, fairness | `CopyFits`, `RefusesOnlyTooLong`, `AppendEnds` |
| `declaration` | all blocks of up to four of six good items, of up to two of these and seventeen bad ones, variations of the attribute's arguments | `TypeOK`, `NeverPanics`, `RunsWhatIsDeclared`, `DiscardsAsDeclared`, `MacroAgrees` |
| `build` | 8 schemas, 2 edits | `ServedByPeer`, `PairOnDisk`, `WatchedUpToDate` |
| `doc_corrupt_discarded`, `doc_release_discarded` | as `bridge_safety`, 3 calls | the two findings below |

**Why these bounds.** Two threads are enough for every race between `connection`,
`call` and `retire`: each of them involves the thread that failed and one that has
gone on. Two addresses let one be reused while the other is held, and three starts
let an address be used a second time. Four calls let a thread make an object, lose
the helper, make another and use the old handle while the second thread is in
between. `MaxRequestId = 4` runs out within four calls, so `Exhausted` occurs;
the ownership run sets it above the number of calls, because an exhausted counter
refuses the release of a handle that is already spent. Two stray cells are a whole
header. In `handle_table` the capacities go 1, 2, 4, and 8 slots of size 2 exceed
`SizeMax`: the last doubling is refused, and five ids wrap the counter.
In `helper_main` three frames allow make, use or drop, and make again in the freed
place; its table refuses at any time, as `HandleStore` allows. In `transport` every
frame length occurs that fits in a pipe, fills it, and exceeds it, and a response
with stray output exceeds pipe and stdio together; with three calls one can be
misled, the second leave its response unread, and the third meet a helper that is
blocked on it: the standoff that `NoStandoff` excludes otherwise does occur then. In
`codec` two values suffice for one to be read at the other's place; length fields
near `SizeMax` make an unchecked sum wrap, and a frame of 5 holds a prefix and
values up to, at and over the limit. In `buffer` the limit lies so close to
`SizeMax` that a doubling wraps and does not divide it, and a capacity of 2, 4, 8,
13 is passed through. The blocks of `declaration` hold two opaque types, so that a
destructor can stand before, between and after them and be attached to the wrong
one; each bad item is refused for a reason of its own. The schemas of `build` differ
from one another in exactly one respect each (order, symbol, result, release,
destructor, order of types, limit); two edits let a declaration change while the
script runs and change again before the next build, with failures in between.

**Symmetry** is used for threads, addresses and objects in the runs that check
safety only; `handle_table` checks a refinement, a step property, which the
permutations of the objects respect.

**Fairness.** `Bridge` assumes weak fairness of each thread that is inside a
function (`Continues`) and of each helper's work (`Serves`): threads run on, the
mutex is granted in turn, a live helper reads and its legacy functions return.
The code has no timeout, so a legacy function that never returns does block its
callers; `CallReturns` does not claim otherwise. Weak fairness of `Continues(t)`
alone does not grant a contended mutex in general; it suffices here because the
number of calls is bounded and every holder returns. No fairness is assumed of
calls, oversized payloads, crashes or starts. Pipes have no bound in `Bridge`, so its
`Write` and `Flush` are always possible; that is more than the program can do, which
is sound for safety, and for liveness the fairness makes up for it: once a call on a
helper has reported that it took stray output for its response (`MayBlock`), writes to
that helper's pipes and by it are given no fairness, for either pipe may be full and stay
so. `CallReturns` of `Bridge` excepts callers that may wait there, as long as the helper
lives; until then `Transport`'s `NoStandoff` is why a write does not wait for good.
`Helper` assumes weak fairness of
`main`; a parent that keeps the pipe open and sends nothing is allowed. `Transport`
assumes it of the caller, of `main`, of libc's writing and of the legacy function,
each a thread of control that goes on when it can (`Legacy` prints at most `MaxStray`
cells and then can only return); not of calls or crashes. `Buffer` assumes it of the
code inside `buffer_append`, not of `dispatch` calling it. The other runs check
safety only.

**Deadlock** is checked in every run but `transport`; `Finished` and `Ended` are the
terminal states in which a program has no more to do. In `transport` the system
stops when its calls are used up or its helper is dead, and in the standoff after
a corrupted stream, which is a deadlock of the code; `NoStandoff` says when.

Every property has a mutant of the code in `PROJECT.json` (a dropped `ptr_eq`, an
unchecked increment, a release before the error, ...) that TLC finds to violate
it.

### Findings

Both concern the comment on `Bridge` (`lib.rs` 332-334): *"When a helper
terminates or corrupts its transport, the failed connection is discarded so the
next independent call can start a clean helper."*

- `CorruptIsDiscarded`: a corrupt stream is `Error::Protocol`, which is not in
  `breaks_connection` (`lib.rs` 401). The connection stays, and with it the frames
  that put later calls out of step. `ReplyMatchesCall` holds all the same: the
  request id keeps a call from taking another's response, it only fails.
- `DeadAtReleaseIsDiscarded`: a generated release uses `self.connection.call`, not
  `BRIDGE.call` (`rust.rs` 207), so a helper found dead by a release stays current
  and one more call fails.

Observations that contradict no text: an object whose id cannot be put into the
response stays in the table without an owner until the helper exits (`LowMemory`
in `Bridge`, `EncodeFails` in `Helper`); a constructor's NULL is handed to the
destructor (`c.rs` 310); after stray output was taken for a response the real one
stays in the pipe, and a later request and a later response that are longer than
the pipes then block caller and helper for good (`Transport`, `Standoff`), since no
call has a timeout; a header that only other headers include is not watched by
cargo (`EditOther`), so a helper compiled from its old text stays; `#[filc::free]` on
a destructor is parsed and ignored.

## 4. What is proved

TLAPS proves, for every value of the constants that satisfies the modules'
assumptions:

| Module | Theorems |
|---|---|
| `BridgeProofs` | `TypeCorrect`, `PointerIsIdentity` (`ArcIdentity`), `NoHelperIsForgotten` (`LiveHelperIsCurrent`), `RetiresOnlyDead` (`OnlyDeadIsRetired`), `DeadIsNotHandedOut` (`BrokenIsNotReused`), `RepliesMatch` (`ReplyMatchesCall`), `HandlesGood` (`HandlesResolve`), `NothingLeaks` (`ObjectsAreOwned`) |
| `HandleTableProofs` | `TypeCorrect`, `MemorySafe` (`WithinAllocation`), `IdsAreUnique`, `DestroyedExactlyOnce`, `TableImplementsStore` (refinement of `HandleStore`) |
| `HelperProofs` | `TypeCorrect`, `OneResponsePerRequest` (`OneResponseEach`), `RunsOnce` (`RunsOnceIfValid`), `NoPartialResults` (`BodiesWhole`), `TextsAreReleased` (`TextsReleased`), `ObjectsAreAccounted` (`ObjectsAccounted`) |
| `DeclarationProofs` | `TypeCorrect`, `PanicsNever` (`NeverPanics`), `DeclarationIsRun` (`RunsWhatIsDeclared`), `RefusedIsDestroyed` (`DiscardsAsDeclared`), `MacroFollows` (`MacroAgrees`) |
| `CodecProofs` | `TypeCorrect`, `ArrivesAsGiven` (`RoundTrip`), `OneFormOnly` (`AcceptsOneForm`), `LimitIsShared` (`LimitsAgree`) |
| `BuildProofs` | `SameHashInteroperates`, `TypeCorrect`, `ServedByItsPeer` (`ServedByPeer`), `PairIsOnDisk` (`PairOnDisk`), `WatchedIsUpToDate` (`WatchedUpToDate`) |
| `BufferProofs` | `TypeCorrect`, `AppendsFit` (`CopyFits`), `LimitIsExact` (`RefusesOnlyTooLong`) |
| `TransportProofs` | `TypeCorrect`, `NeverStandoff` (`NoStandoff`), `LeavesNothing` (`NothingLeft`) |

**Bridge.** `ArcIdentity` and `LiveHelperIsCurrent` are not inductive. The
invariant adds: a thread inside a function holds a Connection
(`InsideHasConnection`); a free address is referenced by nobody and a referenced
one is not free (`FreeIsUnreferenced`), which is what reference counting gives;
and a thread about to retire holds a Connection whose helper is dead
(`RetiresDead`). With the last, `retire` cannot empty the slot of a live helper;
with the second, `Spawn` cannot take an address that anybody holds. Every step
leaves the set of `Arc`s alone, ends a call, or enters one, and one lemma per kind
carries the invariant over.

`BrokenIsNotReused` needs besides (`GenInv`) that no two addresses hold the same
Connection and that a call that reports a death does not leave the Connection in the
slot, which is what `retire` before the return is for. `ReplyMatchesCall` needs
(`CallInv`) that a request id is issued once per Connection, by the holder of the
mutex, and that whatever in the pipes carries the id of the exchange under way
carries its token: everything else there is older and has a lower id, or is noise,
which has none. So comparing ids is enough even when the stream is out of step.

`HandlesResolve` is the result with the longest argument. Its invariant has two
sides. In the program (`Claims`): the token of a constructor call, which names the
object, belongs at any time to one call still under way, or to one handle, or to one
release not yet sent; a method borrows a handle that exists, and when it writes its
request the handle is of the Connection it writes to. That is what ownership in
Rust, `id_for` and `release(self)` give. At the helper (`Service`): ids in the table
are unique and below the counter; the object of every handle and of every release
not yet sent is in the table of a live helper; a release in the pipe is the last
request for its object, and nobody in the program still has a claim to it; a success
of a constructor that has not been taken off the pipe, or has been and is not yet a
handle, names an object in the table. The last part needs `ReplyMatchesCall`: a call
that took the response of another constructor would make a second handle to one
object. So a release takes its object from nobody.

`ObjectsAreOwned` is about a stream the legacy code leaves alone, request ids that last
and memory for every response, as its comment says and as `bridge_ownership` runs it;
`NothingLeaks` states these as `MaxNoise = 0`, `MaxCalls < MaxRequestId` and
`LowMemory = FALSE`. Without each of them it is false: a call that fails in a live
helper leaves an object nobody owns, or a spent handle whose object stays. Its
invariant (`OwnInv`) therefore says that no call fails in a live helper. Whoever
holds the mutex finds both pipes empty, and from then on they hold its request,
or the response to it, and nothing else (`InStep`); the ids given out and those the calls
waiting for the mutex may still take are no more than the calls there were (`IdsLeft`, a
sum with a cardinality). What the response says of an object is then what the table
holds (`Outcome`): a constructor that fails made none, a release that returns took its
own. So the object has an owner (`Owned`); that it has only one is `Claims`.

**HandleTable.** The four checked invariants are inductive together: every live
slot has an id that was issued, no two the same; an issued id is live in exactly
one slot or has been destroyed once; the length stays within a capacity whose slots lie in
the block that `realloc` gave, whose size does not overflow. None is inductive alone: that `remove` finds the right slot,
hence that it destroys the right object, needs unique ids, and that a new id is
unique needs the live ones to lie below the counter. The refinement maps an id to
the object of its live slot.

**Helper.** The invariant (`Place`) says what is true at each point of `main`: one
accepted frame more than responses while a frame is being served, the frame in
hand sound and its function run from the call on, the buffer a prefix of the
result while encoding and all of it before a success is sent. From it each
property follows; without it none of them is inductive. `ObjectsAccounted` is a sum of
cardinalities: `Account` says that live and destroyed ids are disjoint, finite sets
below the counter, and that objects made are the live, the destroyed, the refused and
the one in hand; each operation of the table moves one element between them, and
`remove_all` all of one into the other.

**Build.** `SameHashInteroperates` is about the two generators and has no state: if
two well-formed schemas have one canonical form, every binding of the one finds in
the other's `switch` a case, and only one, with the same C function, types and
release. It needs that functions are numbered below releases and that a destructor
has a symbol, and its proof goes through each field the generators use. `PairOnDisk`
is not inductive: the invariant adds that from one point of the script to the next
the files written so far are of the schema that was read; `WatchedUpToDate` adds that
as long as nothing watched has changed, that schema is the declaration's.

**Declaration.** All five are about the end of `Schema::parse` and need to know what its
two loops leave behind, for blocks of any length. The invariant says of the first that
every pointer it has passed, in whatever item, has its handle (`Pointers`); of the
second, that every item it has passed parses and is in the schema: a function as its
own entry, a destructor in the handle of its parameter (`Entered`). The second half is
where a later item could undo an earlier one; `AttachDrop` refuses a handle that
already has a destructor, so none is replaced. With the validation at the end
(`Checked`: the names are distinct, `free` stands only on text) the rest is about the
two generators alone: distinct names and numbering below `ReleaseBase` give each
operation one case, `HandleOf` finds the handle of each result, so the `expect` of
`c.rs` never fails, and a refused object gets the destructor of its own type.

**Codec.** `Power`, `Number` (the loop of the C decoder) and `Joined` (the payload of a
list of values) are recursive functions. The library's induction theorems take an
operator, which no prover used here can instantiate; `CodecProofs` replaces them by one
about a set: a set of naturals that has 0 and, with each number, the next is `Nat`, since
what it leaves out has no least member (`Least`, `Induction`; `Least` comes from the
library's well-foundedness of `Nat`). From that follow that each recursive function has
the values its recursion gives (`Recursion`, `PowerFacts`, `NumberSums`, `JoinedJoins`),
that `Bytes` and `Number` are inverse both ways (`BytesOfNumber`, `NumberOfBytes`: the
digits of a number are those of its quotients, and the lower digits of a sum are below
the next power), and that one more value joins one more item behind those before
(`JoinedAppend`, `JoinedSplit`). Neither property is inductive. The invariant `Typed`,
`Consumed`, `Carried` says at each step what the cursor stands for: behind it is the
encoding of what has been decoded, whoever wrote the payload (which at the end is
`AcceptsOneForm`); and the payload of the other generated peer is the encoding of
`values`, of which what has been decoded is the first part. So the next item is
complete at the cursor and passes its test, and the only way left to refuse is a result
that is not UTF-8 (`RoundTrip`). That Carried must also say it of a payload being
encoded is why the encoders are part of the induction.

For `LimitsAgree` each encoder stays within the limit of the other side's test: the
client by one test at the end that counts the prefix, the helper by one before each
value. Only the lengths matter to it.

**Buffer.** The invariant says at each point of `buffer_append` what the earlier tests
have established: past the limit test the sum fits in a frame and did not wrap; in
the loop the local capacity is positive, at most the limit and, at its end, enough.
`CopyFits` and `RefusesOnlyTooLong` follow from it for every limit up to `SIZE_MAX`.

**Transport.** Between them, `stdin` and what the caller has still to write are one
stream (`Outgoing`), and `BufReader`, `stdout`, stdio's buffer and what the helper has
still to write another (`Incoming`); a step that only moves cells changes neither, so
neither the capacities nor who fills what when matters. The invariant (`InStep`) says
for each phase of a call what the streams hold as long as no stray output was taken
for a response: both are empty between calls; the rest of a request, as long as its
header announced, until the helper has read it all, and up to then nothing comes
back; then strays, and after the return one response of the announced length behind
them; at last the part of its body still to be read. In a standoff there would be
cells in both streams, and no phase allows that. It holds with crashes at any point.

**Assumptions**: `BridgeAssumption`, `TableAssumption` and `HelperAssumption` only
say that NULL is not an object, that there is a header, that widths and bounds are
numbers, and that a first array of 8 slots (`InitialCapacity`) fits in `size_t`.
`TransportAssumption` says that pipes and buffers hold at least one cell and that bounds
are numbers. `BufferAssumption` adds that the limit is at least the first capacity and at most
`SIZE_MAX`. `BuildAssumption` takes the schemas to be well formed, which validation
ensures: `DeclarationIsRun` proves it of every declaration the parser accepts.
`DeclarationAssumption` says that files are sequences of blocks and that none declares
2^31 functions or more. `CodecAssumption` says that the number of bytes is even (so that
the numbers of an `i32` have two halves), that the numbers are numbers, and that neither
limit is above `SIZE_MAX`.

**Only model-checked**: the liveness properties `CallReturns` (of `Bridge` and of
`Transport`), `EndsWithInput` and `AppendEnds`: liveness under fairness is outside what
the provers used here do. Every invariant and every action property of a passing run is
stated by a theorem.

## 5. Not modelled, and why

- `Error::Poisoned`: no code panics while it holds one of the mutexes.
- In `Bridge` and `Helper`: opaque types without a destructor, functions with several
  handles, several opaque types. Each adds nothing to the control that one type
  with a constructor, a method and a destructor does not have, and tables of
  different types share nothing. Which operation serves which type is in
  `Interface` and `Declaration`, with several types and types without a destructor.
- Bounded pipes in `Bridge`: they are `Transport`, for the one caller that the
  Connection's mutex lets in. `Bridge`'s fairness withholds what they would delay.
- A read that a signal interrupts: `read_exact` tries again at once and nothing has
  changed, so it is no step of `Helper`.
- The text of the generated sources. An accepted declaration can yield code that the
  Rust or the C compiler rejects (two type names with one `pascal` form, a
  destructor named like a function, a parameter called `connection`); then there is
  no program, hence no behaviour to state a property of. That the names of
  environment variables of two bridges may coincide is covered by `Connect`, which
  lets a program find any helper.
- Lexing and parsing, which `syn` does; cargo, which is external and modelled by its
  documented rerun rules; the C compiler's command line.
- `#[filc::free]` and `#[filc::drop]` as macros, which only report that they stand
  outside a bridge.
- Error texts, `Display`, `source`, `From`.
- The counter example, Nix, just and release files.

## 6. Plan

Done: `Bridge`, `HandleStore` and `HandleTable`, `Helper`, `Interface`, `Build`, `Buffer`,
`Transport`, `Declaration` and `Codec` with their proofs. Left:

1. `RemoteObjects`: the abstract specification a user of the bindings sees (an
   object, a handle, calls that take effect at most once), and `Bridge` shown to
   implement it.

## 7. Running it

    tlc -workers 2 -config MCBridge_safety.cfg MCBridge
    tlc -workers 2 -config MCBridge_ownership.cfg MCBridge
    tlc -workers 2 -config MCBridge_liveness.cfg MCBridge
    tlc -workers 2 -config MCBridge_corrupt.cfg MCBridge
    tlc -workers 2 -config MCBridge_release.cfg MCBridge
    tlc -workers 2 -config MCHandleTable.cfg MCHandleTable
    tlc -workers 2 -config MCHelper.cfg MCHelper
    tlc -workers 2 -config MCTransport.cfg MCTransport
    tlc -workers 2 -config MCCodec.cfg MCCodec
    tlc -workers 2 -config MCBuffer.cfg MCBuffer
    tlc -workers 2 -config MCDeclaration.cfg MCDeclaration
    tlc -workers 2 -config MCBuild.cfg MCBuild
    tlapm BridgeProofs.tla
    tlapm HandleTableProofs.tla
    tlapm HelperProofs.tla
    tlapm BuildProofs.tla
    tlapm BufferProofs.tla
    tlapm TransportProofs.tla
    tlapm DeclarationProofs.tla
    tlapm CodecProofs.tla

Each run takes less than a minute on two cores; the two in which a finding is
shown end with a counterexample. The proofs of `BridgeProofs` take about eight
minutes, those of the other modules a minute or two each.
