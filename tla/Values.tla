-------------------------------- MODULE Values --------------------------------
(***************************************************************************)
(* The life of a value on both sides of the bindings.  A JS value that     *)
(* reaches Go is held by a native ValueTuple, counted in its refCount and  *)
(* deleted at zero; an object remembers its tuple in a hidden slot, one    *)
(* for each context, so that a context finds the same tuple every time.  A *)
(* tuple points back at the Go Value made for it (internal), a pointer     *)
(* Go's garbage collector does not see, so that Go gets the same Value     *)
(* every time.  Go counts in Value.refCount how often it got it; the       *)
(* finalizer of an unreachable Value counts down, asks to be called again, *)
(* and at zero gives up the tuple.                                         *)
(*                                                                         *)
(* One caller at a time holds the isolate (see Execution).  The finalizer  *)
(* goroutine waits for it or, when it finds the caller's context ("join"), *)
(* runs in between its steps: it may then count down what is being counted *)
(* up, without a lock.  Native code is serialised by v8::Locker.  Tuples   *)
(* and Values are addresses, which are used again.                         *)
(***************************************************************************)
EXTENDS Integers, FiniteSets

CONSTANTS
    Contexts,       \* contexts of the isolate, which can share objects
    Objects,        \* JS objects
    Primitives,     \* JS values that have no slot
    Tuples,         \* addresses of ValueTuples
    GoValues,       \* addresses of Values
    MaxCount,       \* bound on ValueTuple.refCount
    Usage,          \* a subset of {"join", "dropInUse", "crossResult"}
    None

Things == Objects \cup Primitives

ASSUME KindsAssumption == Objects \cap Primitives = {}
ASSUME BoundAssumption == MaxCount \in Nat
ASSUME NoneAssumption == None \notin Things \cup Tuples \cup GoValues \cup Contexts

VARIABLES
    slot,           \* internal field 0 of the info object that an object has
                    \* under the private key of a context
    nativeCount,    \* ValueTuple.refCount, 0 where there is no tuple
    value,          \* ValueTuple.value: the JS value it holds
    scope,          \* the context it was made in, Value.context of its Value
    internal,       \* ValueTuple.internal: the Go Value made for it
    results,        \* how many results callbacks gave to V8 with this tuple
    heap,           \* the Go Values in memory
    reachable,      \* those the Go program can still name
    info,           \* Value.info: its tuple
    refCount,       \* Value.refCount
    finalizer,      \* what the runtime and the finalizer goroutine do with it
    caller,         \* what the caller is about to do
    held,           \* the tuple it works with
    seen            \* the Go Value it works with

native == <<slot, nativeCount, value, scope>>
golang == <<heap, reachable, info, refCount, finalizer>>
calling == <<caller, held, seen>>
vars == <<native, internal, results, golang, calling>>

TypeOK ==
    /\ slot \in [Contexts -> [Objects -> Tuples \cup {None}]]
    /\ nativeCount \in [Tuples -> Nat]
    /\ value \in [Tuples -> Things \cup {None}]
    /\ scope \in [Tuples -> Contexts \cup {None}]
    /\ internal \in [Tuples -> GoValues \cup {None}]
    /\ results \in [Tuples -> Nat]
    /\ heap \in SUBSET GoValues
    /\ reachable \in SUBSET heap
    /\ info \in [GoValues -> Tuples \cup {None}]
    /\ refCount \in [GoValues -> Nat]
    /\ finalizer \in [GoValues -> {"none", "armed", "queued", "counting", "giving"}]
    /\ caller \in {"idle", "look", "resurrect", "create", "using"}
    /\ held \in Tuples \cup {None}
    /\ seen \in GoValues \cup {None}

Init ==
    /\ slot = [c \in Contexts |-> [o \in Objects |-> None]]
    /\ nativeCount = [t \in Tuples |-> 0]
    /\ value = [t \in Tuples |-> None]
    /\ scope = [t \in Tuples |-> None]
    /\ internal = [t \in Tuples |-> None]
    /\ results = [t \in Tuples |-> 0]
    /\ heap = {}
    /\ reachable = {}
    /\ info = [v \in GoValues |-> None]
    /\ refCount = [v \in GoValues |-> 0]
    /\ finalizer = [v \in GoValues |-> "none"]
    /\ caller = "idle" /\ held = None /\ seen = None

CallerIs(step, t, v) == caller' = step /\ held' = t /\ seen' = v

-----------------------------------------------------------------------------
(* Tuples *)

\* Mutant: the tuple is not retained.
Retained_Not(t) == UNCHANGED nativeCount

\* v8_Value_ValueTuple_Retain
Retained(t) ==
    /\ nativeCount[t] < MaxCount
    /\ nativeCount' = [nativeCount EXCEPT ![t] = @ + 1]

\* The slots when object x has t in context c, and all others what they had.
SlotsWith(c, x, t) ==
    [d \in Contexts |-> [o \in Objects |-> IF d = c /\ o = x THEN t ELSE slot[d][o]]]

\* Mutant: the slot of the object keeps the pointer to the deleted tuple.
Released_Dangling(t, c) ==
    /\ nativeCount' = [nativeCount EXCEPT ![t] = IF @ = 0 THEN 0 ELSE @ - 1]
    /\ value' = [value EXCEPT ![t] = IF nativeCount[t] = 1 THEN None ELSE @]
    /\ scope' = [scope EXCEPT ![t] = IF nativeCount[t] = 1 THEN None ELSE @]
    /\ UNCHANGED slot

\* v8_Value_ValueTuple_Release in context c: the last one empties the slot that
\* the object has for c, and deletes.
Released(t, c) ==
    /\ nativeCount' = [nativeCount EXCEPT ![t] = IF @ = 0 THEN 0 ELSE @ - 1]
    /\ IF nativeCount[t] = 1
       THEN /\ slot' = SlotsWith(c, value[t], None)
            /\ value' = [value EXCEPT ![t] = None]
            /\ scope' = [scope EXCEPT ![t] = None]
       ELSE UNCHANGED <<slot, value, scope>>

-----------------------------------------------------------------------------
(* A JS value is returned to Go: Get, Call, Create..., or an argument *)

AtWork(v) == finalizer[v] \in {"counting", "giving"}

\* The caller has the isolate, or shares it with the finalizer.
Free ==
    /\ caller = "idle"
    /\ "join" \in Usage \/ \A v \in GoValues : ~AtWork(v)

\* v8_Value_ValueTuple of an object that has a tuple in the context.
ReturnKnown(c, o) ==
    /\ Free
    /\ slot[c][o] # None
    /\ Retained(slot[c][o])
    /\ CallerIs("look", slot[c][o], None)
    /\ UNCHANGED <<slot, value, scope, internal, results, golang>>

\* Mutant: the new tuple is not put in the slot of its object.
ReturnNew_Unslotted(c, x) ==
    /\ Free
    /\ x \in Objects => slot[c][x] = None
    /\ \E t \in Tuples :
        /\ nativeCount[t] = 0
        /\ nativeCount' = [nativeCount EXCEPT ![t] = 1]
        /\ value' = [value EXCEPT ![t] = x]
        /\ scope' = [scope EXCEPT ![t] = c]
        /\ internal' = [internal EXCEPT ![t] = None]
        /\ CallerIs("look", t, None)
    /\ UNCHANGED <<slot, results, golang>>

\* v8_Value_ValueTuple of a primitive, or of an object that has none there.
ReturnNew(c, x) ==
    /\ Free
    /\ x \in Objects => slot[c][x] = None
    /\ \E t \in Tuples :
        /\ nativeCount[t] = 0
        /\ nativeCount' = [nativeCount EXCEPT ![t] = 1]
        /\ value' = [value EXCEPT ![t] = x]
        /\ scope' = [scope EXCEPT ![t] = c]
        /\ internal' = [internal EXCEPT ![t] = None]
        /\ slot' = SlotsWith(c, x, t)
        /\ CallerIs("look", t, None)
    /\ UNCHANGED <<results, golang>>

\* newValue: is there a Go Value for the tuple?
Look ==
    /\ caller = "look"
    /\ IF internal[held] # None THEN CallerIs("resurrect", held, internal[held])
                                ELSE CallerIs("create", held, None)
    /\ UNCHANGED <<native, internal, results, golang>>

\* v.refCount++ and v.refCount-- at the same time: the one that writes last wins,
\* and what the finalizer reads next, to decide, is either.
CountersRace(v) ==
    /\ finalizer[v] = "counting"
    /\ \/ /\ refCount' = [refCount EXCEPT ![v] = @ - 1]
          /\ finalizer' = [finalizer EXCEPT ![v] = IF refCount[v] > 1 THEN "armed" ELSE "giving"]
       \/ /\ refCount' = [refCount EXCEPT ![v] = @ + 1]
          /\ \/ finalizer' = [finalizer EXCEPT ![v] = "armed"]
             \/ refCount[v] = 1 /\ finalizer' = [finalizer EXCEPT ![v] = "giving"]

\* There is: it is counted once more.  Its finalizer may be at work, or done:
\* what the program then has is a Value that loses its tuple, or has lost it.
Resurrect ==
    /\ caller = "resurrect"
    /\ \/ /\ refCount' = [refCount EXCEPT ![seen] = @ + 1]
          /\ UNCHANGED finalizer
       \/ CountersRace(seen)
    /\ reachable' = reachable \cup {seen}
    /\ CallerIs("idle", None, None)
    /\ UNCHANGED <<native, internal, results, heap, info>>

\* The finalizer clears internal between the test and the use of it: newValue
\* panics, and Sync makes that no Value.
ResurrectNothing ==
    /\ caller = "resurrect"
    /\ internal[held] = None
    /\ CallerIs("idle", None, None)
    /\ UNCHANGED <<native, internal, results, golang>>

\* There is none: a new one is made.
Create ==
    /\ caller = "create"
    /\ \E v \in GoValues \ heap :
        /\ heap' = heap \cup {v}
        /\ reachable' = reachable \cup {v}
        /\ info' = [info EXCEPT ![v] = held]
        /\ internal' = [internal EXCEPT ![held] = v]
        /\ refCount' = [refCount EXCEPT ![v] = 1]
        /\ finalizer' = [finalizer EXCEPT ![v] = "armed"]
    /\ CallerIs("idle", None, None)
    /\ UNCHANGED <<native, results>>

-----------------------------------------------------------------------------
(* Go gives a value to V8 *)

\* Set, Call, Resolve...: the pointer of a Value is read for a native call.  A
\* Value that was given up has no context, and the method panics before the call.
BeginUse(v) ==
    /\ Free
    /\ v \in reachable /\ info[v] # None
    /\ CallerIs("using", info[v], v)
    /\ UNCHANGED <<native, internal, results, golang>>

\* The native call is over.
EndUse ==
    /\ caller = "using"
    /\ CallerIs("idle", None, None)
    /\ UNCHANGED <<native, internal, results, golang>>

\* Mutant: the result of a callback is not retained for V8.
CallbackResult_Unretained(v) ==
    /\ Free
    /\ v \in reachable /\ info[v] # None
    /\ results[info[v]] < MaxCount
    /\ results' = [results EXCEPT ![info[v]] = @ + 1]
    /\ UNCHANGED <<native, internal, golang, calling>>

\* callbackHandler returns a Value to V8, retained; it panics on one that was
\* given up (Callbacks.FunctionReturnsStale).
CallbackResult(v) ==
    /\ Free
    /\ v \in reachable /\ info[v] # None
    /\ Retained(info[v])
    /\ results' = [results EXCEPT ![info[v]] = @ + 1]
    /\ UNCHANGED <<slot, value, scope, internal, golang, calling>>

\* FunctionCallbackHandler and the others read the result and release it in the
\* context of the callback: the Value's own, or another one of its isolate, which
\* callbackHandler does not refuse ("crossResult").
TakeResult(t) ==
    /\ results[t] > 0
    /\ results' = [results EXCEPT ![t] = @ - 1]
    /\ \E c \in Contexts :
        /\ c = scope[t] \/ "crossResult" \in Usage
        /\ Released(t, c)
    /\ UNCHANGED <<internal, golang, calling>>

-----------------------------------------------------------------------------
(* The Go program, its garbage collector and its finalizers *)

\* The Go program forgets a Value; a native call may still use its pointer.
Drop(v) ==
    /\ v \in reachable
    /\ caller = "using" /\ seen = v => "dropInUse" \in Usage
    /\ reachable' = reachable \ {v}
    /\ UNCHANGED <<native, internal, results, heap, info, refCount, finalizer, calling>>

\* Nothing in Go's memory points at the Value.
Garbage(v) ==
    /\ v \in heap \ reachable
    /\ seen = v => caller = "using"
    /\ ~AtWork(v)

Queue(v) ==
    /\ Garbage(v)
    /\ finalizer[v] = "armed"
    /\ finalizer' = [finalizer EXCEPT ![v] = "queued"]
    /\ UNCHANGED <<native, internal, results, heap, reachable, info, refCount, calling>>

Sweep(v) ==
    /\ Garbage(v)
    /\ finalizer[v] = "none"
    /\ heap' = heap \ {v}
    /\ UNCHANGED <<native, internal, results, reachable, info, refCount, finalizer, calling>>

\* Value.release begins: the finalizer goroutine is one goroutine.
BeginFinalizer(v) ==
    /\ finalizer[v] = "queued"
    /\ \A w \in GoValues : ~AtWork(w)
    /\ \/ "join" \in Usage
       \/ caller = "idle" /\ \A t \in Tuples : results[t] = 0
    /\ finalizer' = [finalizer EXCEPT ![v] = "counting"]
    /\ UNCHANGED <<native, internal, results, heap, reachable, info, refCount, calling>>

\* Mutant: a Value that is still counted is not armed again.
CountDown_Disarmed(v) ==
    /\ finalizer[v] = "counting"
    /\ refCount' = [refCount EXCEPT ![v] = @ - 1]
    /\ finalizer' = [finalizer EXCEPT ![v] = IF refCount[v] > 1 THEN "none" ELSE "giving"]
    /\ UNCHANGED <<native, internal, results, heap, reachable, info, calling>>

\* Value.release: the count decides whether to arm the finalizer again.
CountDown(v) ==
    /\ finalizer[v] = "counting"
    /\ refCount' = [refCount EXCEPT ![v] = @ - 1]
    /\ finalizer' = [finalizer EXCEPT ![v] = IF refCount[v] > 1 THEN "armed" ELSE "giving"]
    /\ UNCHANGED <<native, internal, results, heap, reachable, info, calling>>

\* Mutant: the finalizer stays armed when the tuple is given up.
GiveUp_Armed(v) ==
    /\ finalizer[v] = "giving"
    /\ internal' = [internal EXCEPT ![info[v]] = None]
    /\ Released(info[v], scope[info[v]])
    /\ info' = [info EXCEPT ![v] = None]
    /\ finalizer' = [finalizer EXCEPT ![v] = "armed"]
    /\ UNCHANGED <<results, heap, reachable, refCount, calling>>

\* The tuple forgets the Value, and is released in the context of the Value.
GiveUp(v) ==
    /\ finalizer[v] = "giving"
    /\ internal' = [internal EXCEPT ![info[v]] = None]
    /\ Released(info[v], scope[info[v]])
    /\ info' = [info EXCEPT ![v] = None]
    /\ finalizer' = [finalizer EXCEPT ![v] = "none"]
    /\ UNCHANGED <<results, heap, reachable, refCount, calling>>

-----------------------------------------------------------------------------
(* Specification *)

Collect(v) == Queue(v) \/ Sweep(v)

Finalize(v) == BeginFinalizer(v) \/ CountDown(v) \/ GiveUp(v)

Proceed ==
    Look \/ Resurrect \/ ResurrectNothing \/ Create \/ EndUse \/ \E t \in Tuples : TakeResult(t)

Begin ==
    \/ \E c \in Contexts : \E o \in Objects : ReturnKnown(c, o)
    \/ \E c \in Contexts : \E x \in Things : ReturnNew(c, x)
    \/ \E v \in GoValues : BeginUse(v) \/ CallbackResult(v)

Next ==
    \/ Proceed
    \/ Begin
    \/ \E v \in GoValues : Drop(v) \/ Collect(v) \/ Finalize(v)

Spec == Init /\ [][Next]_vars

(***************************************************************************)
(* A call in progress goes on; garbage is collected in the end, and the    *)
(* finalizer goroutine runs what the collector queued (strongly fair: it   *)
(* may have to wait for the isolate again and again).                      *)
(***************************************************************************)
Fairness ==
    /\ WF_vars(Proceed)
    /\ \A v \in GoValues : WF_vars(Collect(v)) /\ SF_vars(Finalize(v))

FairSpec == Spec /\ Fairness

-----------------------------------------------------------------------------
(* Properties *)

(***************************************************************************)
(* No pointer between the two memories dangles: the slot of an object      *)
(* points at a tuple of that object, a Go Value at a tuple that points     *)
(* back at it, and a tuple at a Go Value still in Go's memory, although    *)
(* the collector sees none of these pointers.  This needs callbacks that   *)
(* answer with Values of their own context: the last release of a tuple in *)
(* another context empties that context's slot and leaves the right one.   *)
(***************************************************************************)
NoDanglingPointers ==
    /\ \A c \in Contexts : \A o \in Objects : slot[c][o] # None =>
           nativeCount[slot[c][o]] > 0 /\ value[slot[c][o]] = o
    /\ \A v \in GoValues : info[v] # None =>
           v \in heap /\ nativeCount[info[v]] > 0 /\ internal[info[v]] = v
    /\ \A t \in Tuples : nativeCount[t] > 0 /\ internal[t] # None =>
           internal[t] \in heap /\ info[internal[t]] = t

(***************************************************************************)
(* A tuple that native code is about to read (a result of a callback, the  *)
(* tuple of a call under way) has not been deleted, however the finalizer  *)
(* of its Go Value runs in between.                                        *)
(***************************************************************************)
NoUseAfterFree ==
    /\ \A t \in Tuples : results[t] > 0 => nativeCount[t] > 0
    /\ held # None => nativeCount[held] > 0

(***************************************************************************)
(* Go compares the objects of a context by their *Value: of the Values     *)
(* that have a tuple no two of one context are the same object.  (Two      *)
(* contexts give an object two Values, and a Value that was given up under *)
(* the program's hands is replaced by another when the object returns.)    *)
(***************************************************************************)
OneValuePerObject ==
    \A v, w \in GoValues :
        /\ info[v] # None /\ info[w] # None /\ v # w
        /\ value[info[v]] = value[info[w]] /\ scope[info[v]] = scope[info[w]]
        => value[info[v]] \in Primitives

(***************************************************************************)
(* The panic "overrelease on instance" of release does not happen: a       *)
(* finalizer that is armed, waits or runs has a tuple to give up, also     *)
(* when the count of its Value went wrong because newValue counted it up   *)
(* at the same time.                                                       *)
(***************************************************************************)
NoOverrelease == \A v \in GoValues : finalizer[v] # "none" => info[v] # None

(***************************************************************************)
(* What the Go program can name has not been given up by its finalizer: a  *)
(* Value returned again after it was queued survives its finalizer.  Only  *)
(* where finalizers do not join: see ReachableStaysLive in ValuesProofs.   *)
(***************************************************************************)
ReachableIsLive == \A v \in reachable : info[v] # None

(***************************************************************************)
(* The native count of a tuple covers everyone who will release it or read *)
(* it: results on their way to V8, the call under way, and the Go Value,   *)
(* as often as it was returned; a Value that came back to the program when *)
(* its finalizer had decided to give it up counts for both.  (It may be    *)
(* more: a finalizer gives back one reference for all the times a Value    *)
(* was returned, and the rest leaks.)                                      *)
(***************************************************************************)
GoReferences(t) ==
    LET v == internal[t]
    IN IF v = None THEN 0
       ELSE IF finalizer[v] # "giving" THEN refCount[v]
       ELSE IF v \in reachable THEN 2 ELSE 1

InCall(t) == IF held = t /\ caller \in {"look", "resurrect", "create"} THEN 1 ELSE 0

CountCoversHolders ==
    \A t \in Tuples : nativeCount[t] > 0 =>
        nativeCount[t] >= results[t] + InCall(t) + GoReferences(t)

(***************************************************************************)
(* A Go Value the program has forgotten gives up its tuple and leaves      *)
(* memory, or comes back to the program, however often it was counted.     *)
(***************************************************************************)
GarbageIsFreed ==
    \A v \in GoValues :
        (v \in heap \ reachable) ~>
            ((v \notin heap /\ info[v] = None) \/ v \in reachable)
===============================================================================
