# Verification of xabi in TLA+

xabi turns a Rust trait into a C ABI: `#[xabi::trait_]` generates a vtable, an
export thunk per method for the side that implements the trait, and a handle
with the same methods for the side that calls it. Either side may be the host
or a dynamically loaded module, the two are compiled apart, and a method may be
synchronous or asynchronous. What can go wrong is mostly who owns what on the
way across: arguments, payloads, futures, wakers, vtables and the library
itself. These modules model that, TLC checks them on small instances, and TLAPS
proves the central facts for every instance.

## Inventory

| Component | Modelled by | State | Operations | Hard part | Correct when |
|---|---|---|---|---|---|
| Method calls (`xabi-macros/src/method`, `xabi/src/contract.rs`) | `OwnedCall` | the arguments of a call: Rust values, wire slots, decoded values, values captured by a future | lower, invoke, decode, run, return, poll, cancel, release | every exit: short vtable, panic while lowering, refused call, a later argument that does not decode, an error or a panic of the implementation, cancellation | each argument has one live owner, and is released once |
| Futures and wakers (`xabi/src/future.rs`) | `FuturePoll` | `XabiFutureState`, the wakers the module has cloned, the payload slot | poll, clone, wake, wake_by_ref, drop, release | module threads wake while the host polls, changes its waker, completes or drops the future | no waker is used after it is freed, none leaks, no wake-up is lost, a result is delivered once |
| Module loading (`xabi/src/library.rs`, `trait_macro.rs`) | `Loader` | manifest, export table, handles | load, validate, look an export up by id, version, name, or all | descriptors and vtables from an older or newer build; failure half way | the right exports become handles, a failure names its reason and keeps nothing |
| Module lifetime (`library.rs`, `retain_module`) | `ModuleLifetime` | `Arc<ModuleHandle>` in handles, futures, values | clone, drop, unload | order of drops; values whose callbacks are in the module | no callback runs after the library is unloaded |
| Results (`handle.rs`, `export.rs`) | `ResultTransfer` | a payload, with vtables and owned bytes in it | encode, guard, answer, decode | any leaf may not decode, `into_wire` may panic half way | each buffer and object is freed once or delivered; only what lies behind a failure leaks |
| FFI values (`xabi/src/ffi.rs`) | `WireForm`, as leaves | owned bytes with their free callback, options | validate, copy, free | free exactly once, also on failed validation | one free per allocation |
| Status codes (`xabi/src/status.rs`) | `ResultTransfer` | none | catch_unwind_*, status_to_result | panics of direct returns | the caller can tell failure from success |
| Data and opaque types (`data_macro.rs`, `opaque_macro.rs`) | `WireForm` | wire structs | into_wire, from_wire | a later field does not decode | earlier fields are dropped once |
| Layouts and snapshots (`xabi/src/layout.rs`, `xabi-assert`) | `LayoutEvolution` | items keyed by identity | collect, render, parse, compare | prefix growth | compatible by the snapshot means accepted at run time |
| Macro front end (`type_shape.rs`, `method/shape.rs`, `method/mod.rs`) | `MethodShape`, `GeneratedCall` | none at run time | classify a signature, give it a slot, collect its layouts | the classification, the thunk, the handle and the snapshot each match on the shape for themselves | what is accepted is expanded, owned and described |
| Module macro, examples | no | none at run time | - | - | - |

The components meet in a call: a handle, found by the loader and keeping its
module alive, lowers arguments into wire slots that its guards own; the thunk
behind the vtable claims and decodes them, runs the implementation under a panic
guard and writes a payload, or exports a future that the host polls with a
borrowed waker and releases when it is done with it.

## Plan

1. `ArgumentOwnership` (abstract) and `OwnedCall`, which implements it. Done.
2. `FuturePoll`: the exported future, its wakers and the module's threads. Done.
3. `ModuleLifetime`: the holders of `Arc<ModuleHandle>` against the callbacks
   that may still run. Done.
4. `Loader`: manifest, export validation, lookup and handle construction, against
   a definition of which exports a loader should return. Done.
5. `LayoutEvolution`: the snapshot comparison against the checks of the run time,
   for peers of any two releases. Done.
6. `MethodShape` and `WireForm`: which methods there are, and what their values look
   like on the wire; `ResultTransfer`: the way back of a call of any of them. Done.
7. Open: wakers against unloading, a composition of `FuturePoll` and
   `ModuleLifetime`; the text of snapshots and the names of their files.

There are three abstract specifications. `ArgumentOwnership` is what a call promises of
its arguments; `AwaitedFuture` is what an exported future promises to the code that awaits
it, and both `FuturePoll` and the async calls of `OwnedCall` implement it; `SharedLibrary`
is what `Arc<ModuleHandle>` promises to the users of a library, and `ModuleLifetime`
implements it. The way back of a call has none: what a result promises depends on where it
failed, and is stated by the properties of `ResultTransfer`.

## Modules

**`ArgumentOwnership`** is what `docs/abi-design.md` (341-375) promises of an
ownership-transferring argument: at most one owner at a time, ownership moves
along caller, wire, callee, future or keeper, and the last owner releases it.

**`AwaitedFuture`** is a future as its caller sees it: started, awaited, given its answer
or given up, and released once, with no payload left to be read by then.

**`SharedLibrary`** is a library with its users: opened for a first one, passed on by one
that has it, left, and unmapped with the departure of the last, for good. No `Arc` and no
count occur in it.

**`OwnedCall`** is a call of a generated method. `caller` holds the arguments
that are Rust values of the generated method, `wire` the `XabiWire` slots
(`armed` after `into_wire`, `cleared` once `xabi_take_from_wire` has emptied the
slot), `callee` the decoded locals of the thunk, `captured` what the exported
future owns, `kept` what the implementation moved elsewhere; `released` counts
release callbacks. There is one action per step of the generated code, and one
for each way out of it: `FieldMissing`, `LowerPanics`, `RefuseCall`,
`DecodeFails`, `MethodReturns` (with OK or ERR_EXPORT), `MethodPanics`,
`PollReady`, `PollPanics`, `Cancel`, `CancelUnpolled`. `RefuseCall` stands for a
producer that returns before it reads an argument; generated Rust thunks do so
for null pointers only. An argument has a kind: `token` (`XabiV1OwnedTrait*`,
`XabiOwnedBytesOwner`), `bytes` (`Vec<u8>`, which copies and frees when it is
decoded) or `plain` (`String`, which keeps the default hooks). The calls of a
run do not share arguments; two of them are there so that the frame of an action
is checked as well.

**`FuturePoll`** is one exported future. `poller` follows `XabiTypedFuture::poll`
on the host and `poll_result_*_future` in the module; `future`, `code`, `out` and
`outcome` are the state, the status, the payload slot and what the caller got.
A waker of the module is a *shell* (`Box<XabiWaker>`) whose `inst` is a *Box*
(`Box<Waker>` of the host), and `holder` says which part of the module has it: the
local of the poll, the slot in which it is registered, or the thread. Freed
addresses are used again, as an allocator would. `raw_waker_wake` is two steps, wake
and release, between which the host may poll, complete and drop the future.
The implementation behind the future and the executor are outside the repository;
they follow the contract of `Future`: register a clone of the latest waker,
wake it when the result is there, poll when woken. The executor may poll
spuriously, change wakers and poll after completion.

**`ModuleLifetime`** follows every Rust value that holds a library or has function
pointers into it. A value (an element of `Items`) has a `shape`, the library of its
callbacks (`code`), the module it retains (`arc`) and its `holder`: the host, or the
value whose instance keeps it, since a module may keep the values it is passed
and a host implementation may wrap a handle. A call (`Invoke`, `InvokeWith`) runs
while its receiver is borrowed; its results are in the call's `frame` until `Decode`
has made them retain the module, and a drop is two steps, `BeginDrop` (the callback
runs) and `FinishDrop` (the fields go, with the last `Arc` the library). Bytes that
retain a module are copied when they are passed on (`into_raw`), so `InvokeWith`
makes them the host's.

**`Loader`** is one host with one library. `table` is what the module exports and
`view` what the host reads; they differ only in `loader_grown`. `Begin` starts one of
the three loaders, `Exports` validates all descriptors, and each iteration of the loop
is one of `BadText`, `Skip`, `SkipVersion`, `Adopt`, `Refuse`. `alive` has the
instances that `make` has constructed, `lost` those whose vtable did not validate
and which nobody releases, `arcs` the strong count of the `ModuleHandle`. The loaders
are defined by their loop; `LoadsTheRightExports` and `FailsForAReason` say in
terms of the whole table what the loop is for.

**`LayoutEvolution`** is the life of a contract: the author edits the tree, runs
`assert_abi!`, updates the snapshot when it is missing, the change is reported
compatible or the contract has a new version, and releases what passes. Any two
releases of one version may meet (`Peers`), and all they check of each other is
sizes: `AcceptsVTable`, `FieldAvailable`, `AcceptsType`. A snapshot is identified with
what it records; equality of texts is `SameText`. A field's type is its recorded
name, and `Width` gives the size of what it names. What is behind the name of a method's
slot is not recorded: `returns` is how its payload is decoded, `collects` has the layouts
of the types that it carries. The recorded name consists of the tokens of the
argument types (`normalized_type_name`, `method/mod.rs:399`), while the slot has their
`Wire` types, so a changed import or alias leaves the name as it was.
`ReplacedTypesStayDescribed` says how far such a change can go: a type may be
exchanged for another behind its name, but not dropped from the snapshot.

**`WireForm`** says what a value of a type is on the wire: a set of forms, each the
sequence of the leaves that a decoder visits (`Wire`, `Payload`, `PayloadForms`). A leaf owns
nothing (`plain`, `check`), or is bytes that are copied and freed (`text`), the buffer of
a wire struct (`payload`, with the `open` leaves inside it), something adopted as it is
(`owner`), or the vtable of an `impl Trait` (`object`). Options give a value two forms.

**`MethodShape`** is the macro as functions of a signature: `Accepted` (the checks of
`MethodSpec::parse`), `FfiType` (the slot), `LayoutDependencies`, and `AnswerIn`, `OkForms`, `ErrForms`, `Converted` (what the
thunk and the handle do). `Expand` makes of a signature the method that is called.

**`ResultTransfer`** is one call, from the return of the implementation. `form` is the
value that is returned, `place` says for each leaf whether a Rust value, the wire, or the
caller has it, or that it is freed or lost, and `released` counts. The thunk is
`MethodReturns`, `Encode`, `Answer`, with the ways out `MethodPanics`, `EncodePanics`, `Refuse`;
the handle is `Accept` or `Ignore`, then `DecodeLeaf` until `Deliver`, with the way out
`DecodeFails` at every leaf that anything is checked of. `Turn` gives the order of the
encoding: inner buffers before the one that contains them, and the object of a pair
before its value. A direct return has no status, so `Caught` puts what the guard
returns in the place of the result, and the handle takes it for one.

**`GeneratedCall`** puts the two together: the methods of `ResultTransfer` are the expansions
of the accepted ones among `Signatures`, and the properties of the macro are invariants of
their calls.

**`*_proofs`** hold the proofs, **`MC*`** the instances.

## Runs

| Run | Question | Bounds |
|---|---|---|
| `owned_hooked` | who owns each argument on every exit, does the call implement `ArgumentOwnership` and `AwaitedFuture`, is every argument released in the end | one call, two trait handles around a `Vec<u8>`: a failing argument has a neighbour on both sides |
| `owned_plain` | is nothing freed twice when a type lacks the hooks; the inductive invariant | two calls, a trait handle and a `String` |
| `owned_unclaimed` | is an unclaimed `String` freed | violated, see Findings |
| `poll` | wakers, wake-ups and results under all interleavings; does the future implement `AwaitedFuture`; is a produced result delivered, do all wakers come back | two task wakers (old and new), three addresses of each kind: the poll's, the registered one and one with the thread |
| `poll_wake` | does `wake` consume the state | violated, see Findings |
| `lifetime` | does what retains a module keep it mapped, whatever is returned and passed on, is the count right, and is each library a `SharedLibrary`; the inductive invariant | two modules, four values, every shape of result: a handle of each module, a value that is passed on and its result, or a pair next to its callee and the `Module`; see below for `OwnedInOneModule` |
| `lifetime_pair` | does every decoded value keep its module | violated, see Findings |
| `loader_lookup` | are the right exports loaded, errors reasoned, and nothing left behind | every manifest, every table of up to three exports of 21 kinds: one before and one after the one that is looked for |
| `loader_grown` | is the table read when its descriptors have grown | two exports; violated, see Findings |
| `layout_peers` | do releases whose snapshots were accepted one by one interwork, and do types that are replaced behind a name stay described; the inductive invariant | one vtable, one other type or two that an argument's name may stand for, two versions, three releases: an old and a new peer that were never compared |
| `layout_results` | do such releases agree on the results of methods | violated, see Findings |
| `returns` | is every result freed or delivered once and whole, whatever fails; does what the macro generates fit together; the inductive invariant | each of the 220 methods accepted among some 1900 signatures, called once: every kind of return, payloads that nest up to a pair of an object and a data type with an option of owned bytes |

Polls, wake-ups, calls, loads and edits are not counted, so the runs need no bound on
them; bounded are the values that exist at a time (`Items`), the table
(`MaxExports`) and the releases (`MaxReleases`). `SYMMETRY` is used in runs of safety
properties only: modules and values of `ModuleLifetime`, addresses and wakers of `poll_wake`.
Deadlock checking is off because calls, futures and loaders end.

`OwnedInOneModule` keeps the run `lifetime` small: once both modules have been loaded, a
state with an owned trait value that calls into a module is checked but not continued. Such
values retain no module, so the second module has nothing to tell about them; with one
module they are explored in full.

Each property has a mutant: a definition such as `Claim_Copies` differs from
`Claim` by one plausible slip, and the property is violated when it takes its place.

## Fairness

`OwnedCall`: code that has started runs on (`Prepare`, `Thunk`, `Unwind`), a future is
polled until it is ready or dropped (`Finish`), and an owner that retains an
argument is dropped some day (`DropKept`). `FuturePoll`: a started poll runs on, a
thread that has taken a waker uses it, and a task that has been woken is polled
(`Resume`), which is what executors promise. Nothing makes the thread produce a
result: `ResultDelivered` speaks of results that are there. The other modules state
safety only and assume nothing.

## Proofs

For any set of calls, number of arguments and kinds, `OwnedCall_proofs` shows that
`Accounting` is inductive: for each argument the number of its owners plus its
releases is 1 from the start of the call (`Conserved`), and each stage allows the
argument only in certain places (`Placed`). `OneOwner` alone is not inductive: that
decoding does not release an argument twice depends on the slot being still armed,
hence on how far the decoding has come. `OneOwner`, `ReleasedAtMostOnce` and
`NothingLost` follow. `Ending` adds how the status, the payload slot and the kept
arguments belong together, which gives `SettledAtReturn` and
`RejectedCallRetainsNothing`. `ImplementsProtocol` holds: if all types have the hooks,
each step is a step of `ArgumentOwnership`. `InvHolds` puts these
into one invariant, `IInv`, from which `ImplementsAwaited` follows: an async call
answers once, is released once, and never with a payload still to be read. The
assumptions are `NumArgsAssumption` and `KindAssumption`.

For any sets of wakers and addresses, `FuturePoll_proofs` shows `Inv` inductive.
Its parts: every live waker owns an allocated Box alone, and every allocated
Box has a waker; a running poll has one waker, a clone of the current one, and at most
one is registered (`PollLocal`); a poll that ends in pending has been woken, or a
clone of its waker is registered or with the thread (`WakeupSeenTo`), from which
`NoLostWakeup` follows; and the status returned fits the state of the future
(`PollFlow`), from which `PendingIsPollable` and `NoSecondResult` follow.
`ImplementsAwaited` maps the polls, wake-ups, panics and cancellations to the few steps of
`AwaitedFuture` (`Stage`); everything the wakers do is a stutter of it. The assumption is `DistinctAddresses`.

For any modules, finite set of values and result shapes, `ModuleLifetime_proofs`
shows `IInv` inductive: free slots are clean (`Slots`), results are in a frame exactly
while they are decoded (`Frames`), a result is of the module that its callee retains
(`Arrivals`), what a value retains is what its callbacks need (`Arcs`), and the
count is the number of holders (`CountIsHolders`). `RetainedStayLoaded` needs all of
them: while a result is in a frame it retains nothing, and is safe only because its
callee does and cannot be dropped. `ImplementsSharedLibrary` maps the holders of an `Arc`
to users (`Users`): retaining is sharing by somebody who has the library, so that no step
makes a user of a library that nobody has, and the last drop and the unmapping are one
step. The assumptions are `ItemsAssumption`,
`NamesAssumption` and `ResultsAssumption`.

For tables of any length, `Loader_proofs` shows `IInv` inductive: what has been
constructed (`Constructed`), who has an `Arc` (`Counted`), and what is known of the
descriptors behind the loop (`Passed`); the four properties follow. The
assumptions are those on descriptors and constants.

For any set of well formed layouts, `LayoutEvolution_proofs` shows that
compatibility is transitive (`CompatibleIsTransitive`), so that a comparison with the
last snapshot relates all releases of a version (`OneLine`), and that two compatible
layouts are read by one another in both directions (`HandlesFit`, `ValuesFit`).
What it takes is in `WellFormed`: fields have a positive width and end within their type,
which is why a new field at or behind the old size is never available to an old size, and
the layouts that a field collects are in the same snapshot, which with a comparison that
removes no type gives `ReplacedTypesAreKept`.

For any set of methods, each with any sequences of leaves as its results,
`ResultTransfer_proofs` shows `IInv` inductive. It says for each stage where the leaves are
(`Encoding`, `Answering`, `Decoding`): when the handle decodes leaf `next`, all later ones
are still on the wire and all earlier ones have been read, so that what a failure frees
has not been freed by a copy before. The exception, carried through all stages, is a
direct return that panicked: the leaves of its own value are settled, and the guard's
one leaf is what the handle decodes (`Message`). All five properties are parts of it. The
assumption is `MethodsAssumption`, which TLC evaluates on the methods of `MethodShape`.

For any types, fields and signatures, `GeneratedCall_proofs` shows what the macro guarantees
of the methods it accepts: their slot is never the placeholder and their thunk is none of
the fallback arms (`MethodsExpand`), no returned type holds a reference or a lifetime at any
depth (`ResultsAreOwned`), and every type of the signature that is converted is asked for its
layout (`LayoutsAreComplete`). The invariant is that the
method of a call is one of the expanded ones; the rest is case analysis of what `ParseRet`
leaves over (`ResultOfKeeps`, `ReturnedAreValid`, `AcceptedSignature`). The depth of a
type takes no induction, because validation and borrowing quantify over the same `Parts`. The
assumptions are `SignaturesAssumption` and `GeneratedAssumption`.

Model-checked only: liveness (`EveryArgumentReleased`, `ResultDelivered`,
`WakersComeBack`), since it rests on fairness; and that `Expand` gives methods with well
formed results, which is `MethodsAssumption` for the methods of the run `returns`. `Wire` is a
recursive function of types, and what it gives for every type takes induction over them.

## Findings

- `owned_unclaimed`: `String`, `Option` and data arguments keep the default no-op
  `xabi_drop_wire`; a wire of theirs that the callee does not claim is leaked, while
  `contract.rs:57-60` says unclaimed wires are released by the caller's glue.
- `poll_wake`: `XabiWaker::wake` is documented to consume the state (`future.rs:28`);
  the host's implementation does not, and the Rust side calls `release` after it.
- `lifetime_pair`: the value part of a `(T, impl Trait + 'static)` result is returned
  without `retain_module` (`handle.rs:458`), so owned bytes in it keep a free callback
  into a library that may be unloaded before they are dropped. The same property fails
  without pairs when a method returns an `XabiV1OwnedTrait` by value (with
  `Results = {"owned"}`), whose `retain_module` is the default that does nothing.
- `loader_grown`: `Module::exports` takes the module's table as a slice of the host's
  `XabiExport`, although the type is declared to grow by appended fields
  (`layout.rs:88-89`): entries after the first are then read at the wrong place.
- `layout_results`: `ffi_type_name` (`method/mod.rs:218`) records the C signature of a
  method, which is the same for every `Result`. A result that changes from `String` to
  `Vec<u8>` leaves the snapshot equal and the version unchanged. The same holds of an argument
  whose name comes to stand for another type that is described already, or for one
  without a layout: `ReplacedTypesStayDescribed` excludes no more than that a type is dropped.

## Not modelled

Borrowed arguments (`&[u8]`, `&str`) own nothing. A panic out of a destructor or
release callback aborts at the `extern "C"` boundary and ends every behaviour. The
data of arguments and results and the texts of errors have no state. Wakers are not tied
to the unloading of a module: a future retains its module, a waker that crosses the
other way does not, and whether its module stays loaded is for the host application to
see to. `ResultTransfer` leaves out the null instance of a direct return, whose thunk answers
with a default as the panic guard does, and forms of futures that do not validate.
`MethodShape` takes types by the name of their last segment, as the macro does, and leaves out
the attributes (`args.rs`) and everything that only rustc checks, lifetimes that are
not written among it. The wire struct of a pair (`export.rs:275`) is generated from
the types of its parts and recorded in no snapshot; it is not one of the types that
`CallsAreDescribed` is about. Futures are not values of `ModuleLifetime`: a generated
async method borrows its receiver, which retains the same module, while it has one.
`LayoutEvolution` takes the
runtime's own types and the sizes behind recorded type names to be the same in all
releases, and leaves out the text of snapshots and the names of their files (two ids
that differ in a replaced character share a file). The module macro fills the static
table that `Loader` starts from; the examples are clients of what is modelled.
