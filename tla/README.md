# A verification of `isolates`

`isolates` binds Go to V8: Go code makes isolates and contexts, runs scripts, calls JavaScript
functions and is called back by them. This directory holds TLA+ modules that model the parts of the
bindings with logic of their own, TLC configurations that check them, and proofs that TLAPS checks.
Paths like `v8_isolate.go:264` are relative to the repository's root.

To check a run: `tlc -workers 2 -config <run>.cfg <module>`. To check the proofs: `tlapm <module>.tla`.
`PROJECT.json` lists the runs, the lines each definition models, the hazards and the theorems.

## Inventory

| Part | State | Operations | Hard behaviour |
| --- | --- | --- | --- |
| Execution (`v8_isolate.go`) | `entrantMutex` per execution context, `syncMutex` and `executionContext` per isolate, native entries, releasers | `Sync`, `WithContext`, `GetExecutionContext`, `Background`, `AddReleaser` | any goroutine, callbacks, finalizers and background goroutines interleave; the context is read twice without the lock; `TryLock` that fails is taken for reentrance |
| Values (`v8_value.go`, `v8_c_value.cc`) | native tuples with counts, the hidden slot of an object, Go `Value`s with counts and finalizers | `newValue`, `release`, `ValueTuple_New/Retain/Release` | two garbage collectors, counts on both sides, pointers neither collector sees |
| Callback bridge (`v8_callback.go`, `v8_c_function.cc`) | ids in function names, weak and strong reference maps | `callbackHandler`, `FunctionCallbackHandler`, accessors | errors and panics that cross the language boundary |
| Isolates and contexts (`v8_isolate.go`, `v8_context.go`, `v8_c_isolate.cc`, `v8_c_context.cc`) | native pointers, reference maps, `running` | `NewIsolate`, `Terminate`, `NewContext`, `release` | operations after termination, finalizers in any order |
| Initialisation (`v8.go`) | `initOnce`, a channel of isolate initialisers | `Initialize`, `NewIsolate` | goroutines that start V8 at the same time |
| Promises and microtasks (`v8_value.go`, `v8_promise.go`, `v8_context.go`) | resolvers, waiting goroutines, the microtask queue | `Await`, `ToCallback`, `AddMicrotask`, checkpoints | waiting while the isolate is held |
| Creation and receivers (`v8_create.go`, `v8_value.go`) | `receivers`, `constructors`, `prototypes` | `create`, `createConstructor`, `CreateConstructor`, `New`, `SetReceiver`, `Context.Receiver` | a map checked, unlocked and then filled; user code that makes calls in between; objects that share an address |
| Marshalling (`v8_unmarshal.go`, `v8_create.go`, `v8_kind.go`) | none | `Create`, `Unmarshal`, kinds | numbers that pass through `float64` |
| Property descriptors (`v8_value.go`, `v8_c_value.cc`) | the properties of objects | `DefineProperty`, `RebindMethod`, `RebindAll` | the order of flags across the boundary; definitions that V8 refuses |
| Module runtime (`v8_runtime.go`) | the module cache of a runtime, registered runtimes | `require`, `resolve`, `RunWithRuntime` | cycles, failures half-way, path search |
| Dynamic import (`v8_module.go`, `v8_c_module.cc`) | the reference map of modules | `importModuleDynamicallyCallbackHandler` | answers from a background goroutine |
| Inspector (`v8_inspector.go`, `v8_c_inspector.cc`) | global maps of inspectors | `NewInspector`, `DispatchMessage`, callbacks | maps without a lock |
| Tracer (`v8_tracer.go`) | retained and released objects | `Retain`, `Release` | counts in map values |
| Helpers (`v8_utils.go`) | none | `Assign`, `Keys`, ... on values | none of its own |
| Code generator (`codegen/`) | none at run time | text generation | none |

How they interact: every operation runs its body through `Isolate.Sync` with a context the caller
made, or one that `GetExecutionContext` found. Native code calls back through `callbackHandler`, which
looks for the context again and joins the session it finds. Finalizers of values, templates, resolvers
and contexts run on the runtime's finalizer goroutine and go the same way. Values returned by native
code pass through `newValueFromTuple`. `Terminate` frees the native isolate under all of these.

## Modules and how they correspond to the code

Each module's `\* Mutant:` definitions are faulty variants of the action that follows them. They are not
part of the specification: they show that a property notices the fault.

### Execution, ReentrantMonitor

A *frame* is one call of `Isolate.Sync` on a goroutine's stack, `<<goroutine, depth>>`. `pc` says where in
`Sync` it is, in the order of `v8_isolate.go:264-296`: `LockEntrant` or `Join` (the `TryLock`),
`LockSync`, `Publish` (`executionContext = ctx`), `Enter` (`v8_Isolate_Enter` and the hooks), the body,
then the deferred calls in reverse: the releasers, `Exit`, `Unpublish`, `UnlockSync`, `UnlockEntrant`. A
frame that joined skips the deferred calls, as in the code. Bodies make nested calls, JavaScript calls
back, finalizers and Background goroutines start on goroutines of their own (`DetachedCall`).
`GetExecutionContext` and `newIsolateContext` are two reads without a lock (`SeeContext`, `TakeContext`);
in between the context can become nil (`NilContext`, which panics: a Background goroutine recovers, a
finalizer does not and the process ends). `EnterPanics` is a hook that panics.

`Usage` lists what the program does: `"shareContext"` (goroutines share a context), `"crossIsolate"` (a
context is used on a second isolate inside a session of the first, which it joins as well), `"detached"` (finalizers and
Background goroutines), `"hookPanics"`. The code neither forbids nor documents any of them, so the
properties say under which they hold. With `Usage = {}` the module implements `ReentrantMonitor`, a lock
that one goroutine takes any number of times. A call inside a session is always made with the context of the
session; one made with a second `WithContext` would wait for `syncMutex` and is not in the model.

### Values

Native memory (`Things` with `nativeCount`, the hidden `slot` of an object that points to its tuple, the
`value` a tuple names) and Go memory (`heap`, `reachable`, `refCount`, `finalizer`, `info`). The private key
of the slot is made for each `Context` (`v8_c_context.cc:26-28`), so an object that two contexts of an isolate
share has a slot, a tuple and a Value in each: `slot` has a context as its first argument, and `scope` is the
context of a tuple. `ReturnKnown` and `ReturnNew` are `v8_Value_ValueTuple`, `Look`, `Resurrect` and `Create`
are `Context.newValue`, `BeginFinalizer`, `CountDown` and `GiveUp` are `Value.release`, `CallbackResult` and
`TakeResult` the way of a value out of a Go function. `Queue` and `Sweep` are Go's collector, which may find
a value unreachable at any time.

`Usage` has `"join"` (finalizers join sessions), `"dropInUse"` (values are collected while native code uses
their pointer) and `"crossResult"` (a callback answers with a Value of another context of its isolate, whose
tuple the handler then releases under the wrong key). Under `"join"`, `newValue` counts a Value up while
`release` counts it down (`v8_value.go:121-123`, `996-1018`): the Value the program is given may be given up at
once. The run follows this race. What holds of it all the same is that `release` never finds a Value without a
tuple (`NoOverrelease`, the panic of `v8_value.go`), and that counts cover their holders; that what the program
can name has its tuple (`ReachableIsLive`) does not, and is proved for programs whose finalizers do not join.

### Callbacks

The stack of nested calls between Go (`"host"`, `"function"`, `"getter"`, `"setter"`) and JavaScript
(`"script"`). `crossing` is the `CallResult` on its way: its `result` (NULL or a tuple), `error` and
`isError` decide what the other side gets. `meant` and `origin` remember what the Go function returned and
which error was raised first; they are history, no action depends on them. `Usage` has `"plain"` (errors
that are not pointers), `"foreign"` (a value of another isolate is returned), `"stale"` (a value that
was given up is returned) and `"ownError"` (the program replaces the global class `Error` by one whose
constructor calls Go). The object of a Go error is made in steps, as `Context.create` makes it:
`FunctionFails` finds one, `BeginErrorObject` finds none and calls the class with the lock released, what the
`"constructor"` does may make objects of the same error, and `EndErrorObject` stores (`SetReceiver`) whatever
was stored before. An error can get several objects that way; `ErrorObjectsSettle` says that this comes to an
end. Constructors return new objects, and goroutines that joined a session are not in this model. The model goes
up to the crash it shows.

### Isolates

`Initialize`, the starter goroutine with its channel, `NewIsolate` and `NewIsolateWithSnapshot`,
`NewContext`, sessions and `Terminate` step by step. `isolateRefs` counts references: `Context.Run`,
`NewFunctionTemplate` and `SetAccessor` take one for as long as they run (`BeginRun`, `EndRun`), and register
the isolate again if a `Terminate` that joined has unregistered it (`v8_context.go:158`, `v8_function.go:145`,
`330`). The reference maps of contexts are sets, without such extra references. `crashed` is set where native code is handed a NULL
isolate. Joining a running session to terminate it is `Usage` `"joinToTerminate"`. `joined` (history)
remembers that it happened: from then on `ContextsDieFirst` has nothing to say, and `FoundIsLive` says how
long a disposed isolate can be found. A `Terminate` called by the code of the session itself is not in the
model. V8 itself also refuses
to dispose of an isolate that is entered, which the one being terminated always is; the model leaves
this to V8 and shows the NULL pointer, which the bindings alone are to blame for.

### Promises

`Value.Await` and everything it depends on: the Background goroutines that call `then`, that enqueue the
microtask of a dynamic import, and that run the microtasks; V8's microtask queue, which one thread runs at a
time (`running`); and the sessions they join or wait for. `Sync` is in fewer steps than in `Execution`,
which justifies that a session is published exactly while it holds the isolate (`PublishedByHolder`).
The two reads of `newIsolateContext` are one step here: that a goroutine can lose its job between them is
in `Execution` (`NilContext`).

### Require, ModuleLoader, Resolve, Runtime

`require` with its cache: `RequireCached`, `RequireNew` (caches and starts the evaluation) and the loop over
the registered parts or the file, whose code may require others, set exports, throw, or return. `failed` is
`Module.Error`. `Usage` `"nativeFails"` lets every operation on module values fail: a module that is left in
the cache by such a failure without an error is `incomplete`. `ModuleLoader` is the abstract promise: a
module is absent, loading, then loaded, failed or incomplete, for good.

`Resolve` is the path search of `v8_runtime.go:116-299`: files with their extensions, directories with their
`package.json` and its `exports` (visited in the order of a Go map, so that answers are sets), the search of
`node_modules`. A path is the sequence of its components, of which the first is `/` (absolute), `.` (relative to
the directory of the process) or a name (a package). A file system says which paths are files and which
directories, and what each `package.json` holds; the values in it are listed, an object before what it holds.
The recursive closures of the code (`extension`, `condition`, `resolve` itself, the loop over `searchPath`)
are recursive functions: `Index`, `Condition`, `ResolveAbsolute` and `Search`, whose bodies (`Look`, `Leads`,
`AbsoluteBy`, `Outward`) are operators of their own. `Endless` is the answer of the search from a relative path,
which never ends. `MCRequire` computes the constant `Module` of `Require` from `RequireFrom` for one file system.
`Runtime` puts the two together and states `AnswersAreStableFiles` and `ResolveAgrees`; the run checks them for
every file system with some of seven files.

### Create, Marshal, Boundary

`Create` has a stack of calls for each goroutine of a session: `create` of a struct or an error, the
making of a class (`createPrototype`, `createConstructor`, `CreateConstructor`), `New`, constructors and
`V8Construct`, which are the program's code and make further calls. `V8Construct` is called in two places:
`create` calls it after `SetReceiver` (`Receive`, `EndConstruct`), the first use of a member before
(`UseMember`, then what it does, then `EndUse`). The points where the calls stop are
those where the lock is not held, so that goroutines that joined a session interleave there. `receivers` is
keyed by addresses, and a struct shares the address of its first field (`AddressOf`). `strayed` is history: it
records that a call began while another goroutine of the session had one under way, that a constructor asked
for the wrapper of the object whose wrapping runs it, or that it used a member of `this`, returned another
object for `this` or returned an object in use, or that a `V8Construct` on first use returned a struct that got
a wrapper in the meantime: one that asks for the wrapper of its own struct gets a second one.
`OneWrapperPerObject` and `OneClassPerType` are stated for programs that have not done so. `LookupPanics` is the
lookup of something without an address, which leaves `receiversMutex` locked (`jammed`): no lookup and no
`SetReceiver` follows.

`Marshal` has `create` and `Unmarshal` as functions between Go values of nested types and JS values. A type is
the sequence of its kind and the kinds of its elements (`<<"slice", "ptr", "int">>`), and the functions recurse
on its tail: `CreateBy` and `UnmarshalBy` are one call of `create` and `Unmarshal`, `FaithfulBy` says what a type
keeps of a value. Integers keep their widths, on words of `WordBits` with a float of `MantissaBits`. Struct types
(`StructKinds`) have the same tagged fields, and structs know their type: `Other` is the answer of `Unmarshal`
when it takes the wrapper of a struct of another type for what was asked (`Received`), which `Set` and
`SetMapIndex` refuse (`Assignable`). `Boundary` extends both modules and states `RoundTripsAreFaithful` and
`UnmarshalIsTyped`, of `Samples` of Go values and of the JS values that are `Passed`, both of which are constants:
any values of the types, and any JS values.

### Descriptors

The own properties of one object, with the rules by which V8 accepts or refuses a new definition.
`Native` is what arrives at the native side: the flags are passed by position.

## Runs

Deadlock is checked unless said otherwise below.

| Run | Shows | Bounds |
| --- | --- | --- |
| `exec_disciplined` | Used with contexts of their own, goroutines see a reentrant lock; entries balance; every releaser runs exactly once; no deadlock | 3 goroutines, 2 isolates, 3 nested calls: two can hold isolates while a third waits |
| `exec_any` | With every kind of use at once, the published context is that of the holder, a callback finds its session, and nothing stays locked | 2 goroutines and isolates, 2 contexts of the program and one that is made, 3 nested calls (session, nested call, callback), two entries left behind by panics |
| `exec_live` | Every call of `Sync` returns; a goroutine that holds the isolate never waits for it | 2 goroutines, 1 isolate, a shared context |
| `values` | No dangling pointer, no use after free, one Go value per object and context, no overrelease in the race of `newValue` with `release`, garbage is freed | 2 contexts that share an object, a primitive, 2 tuples, 2 Go values: each is reused after it was freed |
| `callbacks` | Answers match, errors arrive, the object of an error settles | 2 objects, 2 Go errors, 6 nested calls: an error passes two functions, and gets two objects in nested calls of the class `Error` |
| `callbacks_foreign` | Violation: the error for a value of another isolate dereferences NULL | as above |
| `isolates` | V8 first, contexts before isolates, the starter answers its caller, a disposed isolate is found by the session that put it back at most, `NewIsolate` returns | 3 goroutines, 2 isolates, 2 contexts: one goroutine terminates what a second uses while a third waits for the starter |
| `isolates_terminate` | Violation: Terminate hands NULL to `v8_Isolate_Exit` | 2 goroutines, 2 isolates |
| `promises` | No checkpoint is lost, Await answers, and what alone can hold it up | 2 hosts, 1 promise that is made, settled and awaited in every order |
| `require` | The cache refines the abstract loader, circles and failures included; what is found is a file, found again by its path; `require` returns unless it searches from a relative path | 3 files, a runtime in two parts, 6 specifiers; resolution over 1024 file systems, 3 places and 8 names |
| `create` | Receivers are true, one wrapper per object, one class per type, promoted members are found, classes with instances are settled; round trips are exact or fail as described, a value has the type asked for unless it is a mistaken wrapper | 2 goroutines, 2 calls of the program under way at once (one inside a constructor or `V8Construct` of the other, or on two goroutines, or one after a lookup that jammed the lock), 3 types of which one embeds the others, 4 objects of which two share an address, 2 wrappers, 4 templates; 25 Go types with two struct types, 21 JS values, 6-bit words with 3 bits of precision, so that rounding and saturation happen |
| `descriptors` | Violation: flags are swapped | 2 properties |

`CHECK_DEADLOCK FALSE` stands where the system may really stop: where the program may deadlock or crash
(`exec_any`, `callbacks`, `isolates`, `isolates_terminate`, `promises`), where the bounded supply of contexts, values, objects or calls
is used up (`exec_live`, `values`, `create`).

Symmetry is used in safety runs only, over values no definition tells apart.

### Fairness

- `Execution`: strong fairness for the steps of `Sync` itself. A Go mutex in starvation mode is handed to
  each waiter; goroutines are scheduled; bodies return. Calls are never forced to begin.
- `Values`: the collector runs and finalizers are called, one at a time, by the runtime.
- `Isolates`: goroutines are scheduled; a channel serves its waiting senders in order, so `Send` is strongly
  fair.
- `Promises`: the same for mutexes; hosts end their sessions; Background goroutines as a whole make
  progress. Hosts are not forced to begin, resolve or await.
- `Require`: evaluation proceeds, and module code that is entered again and again returns or throws in the end.

### Findings

- `Terminate` cannot return: it clears `i.pointer` (`v8_isolate.go:446`) and the end of its own session
  exits it. The tests that call it (`v8_isolate_test.go:55`, `124-132`) expect it to return.
- The errors a callback reports without an object (`v8_callback.go:176-191`) crash the handler
  (`v8_c_function.cc:165`, `220`, `267`).
- `DefineProperty` passes configurable and enumerable (`v8_value.go:196`, `198`) where the native functions
  take enumerable and configurable (`v8_c_bridge.h:237-238`): a property is defined with the two swapped.

### Observed, and not asserted

- A call inside a session joins, on any isolate, and so enters a second isolate without its lock. Goroutines
  that make a second `WithContext` inside a session wait with an isolate held, for themselves or in a circle;
  the model has no such calls.
- Finalizers that join put a second goroutine into an isolate; only V8's own lock (`ISOLATE_SCOPE`) then
  keeps native code apart.
- `Values` with `"dropInUse"` violates `NoUseAfterFree`: no operation has a `runtime.KeepAlive`.
- `EveryAwaitReturns` has an exception that is needed: a goroutine started in one session that first runs
  between two sessions uses a context of its own; if an Await then takes the isolate first, it waits for a
  goroutine that waits for the isolate. Also, a Resolver can only be used during an Await by a goroutine
  that joins it, and an Await called by a microtask waits for the microtask itself.
- Under `"nativeFails"` a module whose object could not be completed stays in the cache without an error, and
  the next `require` answers its exports; the models mark it `incomplete`.
- `require` of a package from a registered runtime, whose path is relative, searches for ever
  (`v8_runtime.go:275`).
- A plain error (not a pointer) makes `Context.create` panic at `v.Pointer()` (`v8_create.go:211`), and
  the error that is then reported (`v8_callback.go:176-178`) is the panic, not the one that was returned. The panic comes between `Lock` and `Unlock`, which is not deferred, as
  does that of `Addr` for a struct without an address (`v8_create.go:298`, a struct in a map): `receiversMutex`
  stays locked, and the next wrapping in the context waits for ever.
- `Unmarshal` as a struct or as a pointer to one answers the receiver of a wrapper whatever its type
  (`v8_unmarshal.go:133-140`, `188-193`), without an error.
- The native handler releases the result of a callback under the key of its own context: a Value of another
  context of the isolate leaves a dangling slot (`Values` with `"crossResult"` and `"join"`).
- Isolates stay pinned and contexts are in cycles with finalizers, so that Go never finalizes either:
  only `Terminate` ends them. The same holds for values in `receivers`.
- `receivers` is keyed by the address alone: a struct and its first field share one, so that `create` answers
  the wrapper of the one for the other. `ReceiversAgree` speaks of addresses for this reason.
- `Context.Receiver` makes the receiver of a first use from what `V8Construct` returned, also when that is nil or
  comes with an error (`v8_create.go:645-651`); an object that
  `Unmarshal` gave a struct as receiver makes the next `SetReceiver` panic (`v8_value.go:924`).
- The accessors a class inherits are not copied with it (`v8_create.go:600`): an embedded struct that is not
  the first, and embeds another, loses the members of that one.
- `DefineProperty` with a getter and no setter dereferences nil (`v8_value.go:198`); a data property whose
  value is undefined is redefined as an accessor. `RebindAll` stops at the first refusal with some methods bound.
- `Unmarshal` of an error reads `message` under an inverted condition (`v8_unmarshal.go:49`); `Equals`
  asserts a `*C.bool` to be a `*bool` (`v8_value.go:736`).

## Proofs

TLAPS proves these for every value of the constants that meets the named assumptions of the modules: any
number of goroutines, isolates, objects and modules, and calls nested to any depth. Each `*Proofs` module
extends the module it is about: `RequireProofs` extends `Runtime` (`Require` and `Resolve`), `MarshalProofs`
`Boundary`.

| Module | Theorem | Property | Assumption on use |
| --- | --- | --- | --- |
| `ExecutionProofs` | `TypeCorrect` | `TypeOK` | none |
| | `SessionsAreSound` | `SessionInv` | none |
| | `PublishedIsHeld` | `PublishedByHolder` | none |
| | `CallbacksRejoin` | `CallbackFindsSession` | none |
| | `SessionsDoNotOverlap` | `NoTakeover` | none |
| | `CallsCleanUp` | `NothingLeftBehind` | none |
| | `ReentryNeverWaits` | `NoHoldAndWait` | no `"crossIsolate"` |
| | `EnterExitBalance` | `EnteredOncePerSession` | no `"hookPanics"` |
| | `SyncExcludes` | `MutualExclusion` | `Usage = {}` |
| | `SyncIsReentrantLock` | `ImplementsMonitor` | `Usage = {}` |
| | `ReleasersRunOnce` | `ReleasedOnce` | `Usage = {}` |
| `ValuesProofs` | `TypeCorrect` | `TypeOK` | no `"crossResult"` |
| | `PointersDoNotDangle` | `NoDanglingPointers` | no `"crossResult"` |
| | `HoldersAreCounted` | `CountCoversHolders` | no `"crossResult"` |
| | `NothingIsOverreleased` | `NoOverrelease` | no `"crossResult"` |
| | `ObjectsHaveOneValue` | `OneValuePerObject` | no `"crossResult"` |
| | `TuplesAreReadAlive` | `NoUseAfterFree` | no `"crossResult"`, no `"dropInUse"` |
| | `ReachableStaysLive` | `ReachableIsLive` | no `"crossResult"`, no `"join"` |
| `CallbacksProofs` | `TypeCorrect` | `TypeOK` | none |
| | `AnswersAreMeant` | `AnswersMatch` | none |
| | `ErrorsSurvive` | `ErrorsArrive` | none |
| | `ErrorObjectsSettleDown` | `ErrorObjectsSettle` | none |
| `IsolatesProofs` | `TypeCorrect` | `TypeOK` | none |
| | `V8ComesFirst` | `InitializedFirst` | none |
| | `AnswersFindTheirCaller` | `StarterAnswersItsCaller` | none |
| | `ContextsHaveIsolates` | `ContextsDieFirst` | no Terminate joined (in the property) |
| | `ReferencesAreLive` | `FoundIsLive` | none |
| `PromisesProofs` | `TypeCorrect` | `TypeOK` | none |
| | `CheckpointsAreNotLost` | `NoLostCheckpoint` | none |
| | `AwaitIsTrue` | `AwaitAnswers` | none |
| `RequireProofs` | `TypeCorrect` | `TypeOK` | none |
| | `ModulesDoNotReenter` | `NoReentry` | none |
| | `AnswersAreExplained` | `AnswersAreLoaded` | none |
| | `CacheIsLoader` | `ImplementsLoader` | none |
| | `AnswersAreStable` | `AnswersAreStableFiles` | none |
| | `ResolveAgreesAlways` | `ResolveAgrees` | the module is in a file (in the property) |
| `CreateProofs` | `TypeCorrect` | `TypeOK` | none |
| | `ReceiversAreTrue` | `ReceiversAgree` | none |
| | `InstancesKeepTheirClass` | `SettledClassesStay` | none |
| | `PromotedMembersAreFound` | `PromotedMembersFound` | later bases embed nothing (in the property) |
| | `TypesHaveOneClass` | `OneClassPerType` | nothing strayed (in the property) |
| | `ObjectsHaveOneWrapper` | `OneWrapperPerObject` | nothing strayed (in the property) |
| `MarshalProofs` | `RoundTripsAreFaithfulAlways` | `RoundTripsAreFaithful` | none |
| | `UnmarshalIsTypedAlways` | `UnmarshalIsTyped` | none |

None of the invariants is inductive: that the published context is the holder's, say, depends on who may
still withdraw it. Each module has an inductive invariant `IInv`, one lemma per action that keeps it, and
theorems that follow from it.

- `Execution`: `TypeOK` and `SessionInv`, which says for every frame which locks it holds at its `pc`
  (`FrameInv`, `EntrantInv`), that what is published follows from who holds `syncMutex` (`SyncInv`, `PublishInv`), that an isolate
  entered by a session is entered at least twice (`DepthInv`), and that only the top frame of a goroutine
  moves (`StackInv`). Three more invariants are inductive relative to it: `ReentryInv` (calls made inside a
  session run with its context, so they join), under which a goroutine never waits for what it holds;
  `RootInv` (the first call of a goroutine locks), under which frames inside one isolate have one goroutine;
  and `ReleaseInv` (a releaser waits with one context whose session runs). The refinement of
  `ReentrantMonitor` maps a frame to `inside` while it is natively in the isolate; only `Enter`, `Join`, `Exit`
  and `Return` of joined frames are steps there.
- `Values`: a tuple in use holds a value and its object's slot for its context names it (`TupleInv`, `SlotInv`);
  a Go `Value` has a tuple as long as it has a finalizer (`FinalizerInv`); one that is queued and reachable again is
  counted at least twice, whatever race there was (`CountInv`); and what the caller works with is there, or one of
  the references it was returned with is left (`CallerInv`). `LiveInv` is inductive where finalizers do not join:
  what a finalizer gives up is garbage then. The lemma `Covered` turns the count of a tuple into the fact that one holder fewer leaves it
  covered.
- `Callbacks`: the host is only at the bottom of the stack (`StackInv`); what crosses is what was meant and,
  if something was raised, an object of what was raised (`CrossInv`). A function that makes an object waits for
  the constructor above it (`MakingInv`), what that returned is no error's object yet (`FreshInv`), and
  `receivers` and `Value.receiver` agree (`ReceiversInv`): `EndErrorObject` then takes no object from another
  error.
- `Isolates`: one goroutine initialises V8 (`OnceInv`); one works with an isolate that was made (`MineInv`);
  the starter works for one that waits for it (`StarterInv`); a session is its goroutine's (`RunInv`); what can be
  found is live, or has the one reference of a session that a Terminate joined (`RefsInv`); until a
  Terminate joins, one goroutine at a time works in an isolate (`SessionInv`) and finds it live
  (`ContextInv`).
- `Promises`: who runs microtasks is the only one who does (`LoopInv`); a host awaits only while it waits,
  and a promise that was made (`AwaitInv`); a reaction is queued or run only when its promise is settled
  (`ReactionInv`).
- `Require`: only the innermost call moves (`CallersWait`); a module that is evaluated is in the cache and not yet done
  (`LoadingIsOpen`); what is in the cache is loading, loaded, failed or incomplete (`CacheIsExplained`). The
  refinement maps each module to its state in `ModuleLoader`.
- `Create`: jamming is a step that changes nothing else (`NextMoves`). The calls in progress hold objects, wrappers and templates as their points say (`Typed`):
  `SetReceiver` acts on what a call took long before. That is enough for `ReceiversAgree`. What follows needs
  more, since a step depends on the calls that wait below it:
  - `Known` holds whatever strays. It is `IInv` with `ShapeInv` (below each call waits the one that made it, at
    the point where it made it) and `ClassInv` (a class that is being made has no instance and no base, no two
    calls make the same one, and a call answers the class its caller asked for). From `Known`, a step only
    `Grows` the classes: a finished one stays as it is, and only `EndPrototype` finishes one (`NothingEnds` in
    every other step). `SettledClassesStay` follows.
  - `AloneInv` (one goroutine has a stack) and `SharedInv` (a finished class that is shared is the one
    `prototypes` lists for its type, and none is listed while it is made) hold until something strays. They give
    `OneClassPerType`.
  - `WrapInv` holds until something strays: an object that a call is about to wrap has no wrapper yet
    (`Wrapped`), nobody was told of another one (`Fits`, `Free`), and the calls below are about other addresses
    (`BelowInv`). It gives `OneWrapperPerObject`: `answers` remembers what `create` told its callers.
  - `CompleteInv` says what a finished class has: its own members, those its later bases declare, as its parent
    the finished class of its first base, and a type below which embedding is well-founded (`Grounded`).
    `Promoted` and `Found` are recursive functions over types and templates that may embed themselves for all
    the model knows, so nothing can be had by induction on their depth. The lemma `Inheritance` shows that a
    function with such an equation exists over any set, which unfolds both (`PromotedUnfolds`, `FoundUnfolds`).
    If a finished class missed a promoted member, there would be such a type none of whose bases misses any, and
    its class has the member by `CompleteInv`.

`Resolve` and `Marshal` have no state: their theorems are about functions, which recurse over paths, JSON and
types, and hold in every state (for TLC they are stated of the first ones, `Init => ...`). A recursive function is a CHOOSE, of which nothing is known until a function with its equation exists.
Where that is an induction, it is one over the naturals for a set (`SetInduction`), which follows from their
being well-founded: the library's theorems of induction and recursion take operators.

- `Resolve`: `RecursionExists` shows that a function exists if each of its values depends on those at places of a
  lesser measure (`Descends`), and `ByMeasure` that a set holds every place if it holds each whose lesser places
  it holds. Both are used for each recursion. The index of a directory is one component longer (`IndexIsLonger`),
  and no path of a file system is longer than `LongestPath`: so `Index` and `ResolveAbsolute` end. An object of a
  `package.json` comes before what it holds: so `Condition` ends. The directory of a path is shorter or the path
  itself (`DirFacts`), which for an absolute path is `/`: so `Search` ends there (`SearchEnds`). Everything found is
  in `Answers`, a file or nothing (`LookTyped` up to `ResolveTyped`). `AnswersAreStable` follows with
  `FileIsItself`; `ResolveAgreesAlways` with `NoPackageInside`: the package of a specifier would be at a path
  inside the module's file, and paths lead through directories.
- `Marshal`: the functions unfold by induction over the length of types (`HeldUnfolds`, `CreateUnfolds`,
  `UnmarshalUnfolds`, `FaithfulUnfolds`). `UnmarshalTyped` is by the same induction, with one lemma for each kind.
  For the round trips `AllComeBack` is: what becomes of a value of a type fails or comes back equal just if
  the value is `Faithful`, if this holds for the type of its elements. `IntegersReturn` is the arithmetic of it:
  an integer comes back as it was just if it needs no more than `MantissaBits` and is not above the greatest
  word (`RoundedIsExact`, `ConvertFacts`), or if it is the greatest word, which is rounded up and cut off again
  (`GreatestRoundsUp`).

The assumptions on constants are named in the modules: bounds are natural numbers, `Usage` is among the named
ways of use, kinds of values are disjoint, paths lead through directories, and `None` (`NULL`, `Diverges`) is none
of the values. TLC evaluates them in the runs.

Only model-checked: liveness (`EveryCallReturns`, `GarbageIsFreed`, `EveryNewIsolateReturns`,
`EveryAwaitReturns`, `EveryRequireReturns`), which TLAPS does not prove under fairness. Every other property of a
passing run is a theorem. `ReachableIsLive` is the other way round: a theorem under its assumption, and no property
of a run, since the run of `Values` has finalizers that join.

## Not modelled

`PROJECT.json` (`components`) has the reason for each part. In short:

- The inspector passes messages; its hazard is a data race in a Go map, which no step of a model shows. The
  tracer is a debugging aid that nothing calls.
- The helpers on values call one operation each. The conversions of text and stack traces, the code
  generator and the build and install files have no state of the running system.
- Of modelled parts: floats, times and typed arrays in `Marshal`; registered marshallers; snapshots and heap
  statistics; the lookup of callbacks by their ids; references on contexts
  (`Context.ref`); a `Terminate` that the code of its own session calls; a second `WithContext` inside a session;
  `ToCallback`; the failures of the handler of dynamic imports.
- Go's and V8's own behaviour (collectors, mutexes, channels, JavaScript, the microtask queue) is modelled as
  these bindings use it, and marked external.

## Plan

Done: every module of the list above, with its runs and proofs. What could be added, most useful first:

1. Templates and the maps of functions and accessors by id (`v8_function.go`, `v8_callback.go:20-100`), with
   their weak references and finalizers.
2. `ToCallback` and the failures of dynamic import in `Promises`.
3. `V8Construct` inside `Unmarshal`, which would compose `Marshal` and `Create`.
