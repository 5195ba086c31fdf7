------------------------------- MODULE Isolates -------------------------------
(***************************************************************************)
(* The life of isolates and their contexts.  V8 is initialised once, by    *)
(* the first goroutine that asks for an isolate.  NewIsolate asks a        *)
(* goroutine of its own, the starter, through channels without buffers;    *)
(* NewIsolateWithSnapshot makes the isolate itself.  Contexts are made in  *)
(* sessions of Isolate.Sync, of which an isolate has one at a time (see    *)
(* Execution).  Terminate runs in a session of its own, or joins the one   *)
(* that runs.  A session that runs code or makes a template takes another  *)
(* reference to its isolate meanwhile, as does one that finds the isolate  *)
(* unregistered.                                                           *)
(***************************************************************************)
EXTENDS Naturals, FiniteSets

CONSTANTS
    Goroutines,
    IsolateIds,
    ContextIds,
    Usage,      \* a subset of {"terminate", "joinToTerminate"}
    None

ASSUME UsageAssumption == Usage \subseteq {"terminate", "joinToTerminate"}
ASSUME NoneAssumption == None \notin Goroutines \cup IsolateIds

VARIABLES
    once,           \* initOnce
    initialized,    \* how often V8 was initialised
    starter,        \* what the goroutine of Initialize does
    request,        \* the goroutine it works for
    made,           \* the isolate it made, to be sent back
    pc,             \* where each goroutine is
    mine,           \* the isolate it works with
    pointer,        \* Isolate.pointer: "none" before NewIsolate, "live", "nil"
    isolateRefs,    \* the references to each isolate; callbacks find those that have some
    session,        \* the goroutine that runs a session on each isolate
    contexts,       \* Isolate.contexts
    isolateOf,      \* Context.isolate
    ctxPointer,     \* Context.pointer
    crashed,        \* native code was called with a NULL isolate
    joined          \* a Terminate has joined a session of another goroutine

startup == <<once, initialized, starter, request, made>>
native == <<pointer, isolateOf, ctxPointer>>
refs == <<isolateRefs, contexts>>
vars == <<startup, pc, mine, native, refs, session, crashed, joined>>

Steps ==
    {"idle", "initialize", "doing", "send", "receive", "make", "owner", "session",
     "run", "hooks", "contexts", "dispose", "release", "leave"}

Pointers == {"none", "live", "nil"}

TypeOK ==
    /\ once \in {"new", "running", "done"}
    /\ initialized \in 0..1
    /\ starter \in {"absent", "idle", "busy", "answering"}
    /\ request \in Goroutines \cup {None}
    /\ made \in IsolateIds \cup {None}
    /\ pc \in [Goroutines -> Steps]
    /\ mine \in [Goroutines -> IsolateIds \cup {None}]
    /\ pointer \in [IsolateIds -> Pointers]
    /\ isolateRefs \in [IsolateIds -> Nat]
    /\ session \in [IsolateIds -> Goroutines \cup {None}]
    /\ contexts \in [IsolateIds -> SUBSET ContextIds]
    /\ isolateOf \in [ContextIds -> IsolateIds \cup {None}]
    /\ ctxPointer \in [ContextIds -> Pointers]
    /\ crashed \in BOOLEAN
    /\ joined \in BOOLEAN

Init ==
    /\ once = "new" /\ initialized = 0
    /\ starter = "absent" /\ request = None /\ made = None
    /\ pc = [g \in Goroutines |-> "idle"]
    /\ mine = [g \in Goroutines |-> None]
    /\ pointer = [i \in IsolateIds |-> "none"]
    /\ isolateRefs = [i \in IsolateIds |-> 0]
    /\ session = [i \in IsolateIds |-> None]
    /\ contexts = [i \in IsolateIds |-> {}]
    /\ isolateOf = [c \in ContextIds |-> None]
    /\ ctxPointer = [c \in ContextIds |-> "none"]
    /\ crashed = FALSE /\ joined = FALSE

At(g, step) == ~crashed /\ pc[g] = step
Goto(g, step) == pc' = [pc EXCEPT ![g] = step]

-----------------------------------------------------------------------------
(* Initialize *)

\* NewIsolate or NewIsolateWithSnapshot is called.
Ask(g) ==
    /\ At(g, "idle")
    /\ Goto(g, "initialize")
    /\ UNCHANGED <<startup, mine, native, refs, session, crashed, joined>>

\* Mutant: a flag in the place of sync.Once: others do not wait.
BeginInitialize_Flag(g) ==
    /\ At(g, "initialize")
    /\ once = "new"
    /\ once' = "done"
    /\ Goto(g, "doing")
    /\ UNCHANGED <<initialized, starter, request, made, mine, native, refs, session, crashed, joined>>

\* The first one runs the function.
BeginInitialize(g) ==
    /\ At(g, "initialize")
    /\ once = "new"
    /\ once' = "running"
    /\ Goto(g, "doing")
    /\ UNCHANGED <<initialized, starter, request, made, mine, native, refs, session, crashed, joined>>

\* v8_Initialize, and the starter is started.
EndInitialize(g) ==
    /\ At(g, "doing")
    /\ initialized' = initialized + 1
    /\ starter' = "idle"
    /\ once' = "done"
    /\ Goto(g, "initialize")
    /\ UNCHANGED <<request, made, mine, native, refs, session, crashed, joined>>

\* initOnce is done: NewIsolate goes on to the channel, NewIsolateWithSnapshot does not.
Initialized(g) ==
    /\ At(g, "initialize")
    /\ once = "done"
    /\ Goto(g, "send") \/ Goto(g, "make")
    /\ UNCHANGED <<startup, mine, native, refs, session, crashed, joined>>

-----------------------------------------------------------------------------
(* NewIsolate *)

\* v8_Isolate_New, enter, and the reference: the isolate stays entered.
Make(i) ==
    /\ pointer[i] = "none"
    /\ pointer' = [pointer EXCEPT ![i] = "live"]
    /\ isolateRefs' = [isolateRefs EXCEPT ![i] = 1]

\* The request goes through the channel when the starter receives.
Send(g) ==
    /\ At(g, "send")
    /\ starter = "idle"
    /\ starter' = "busy" /\ request' = g
    /\ Goto(g, "receive")
    /\ UNCHANGED <<once, initialized, made, mine, native, refs, session, crashed, joined>>

Start(i) ==
    /\ ~crashed
    /\ starter = "busy"
    /\ Make(i)
    /\ starter' = "answering" /\ made' = i
    /\ UNCHANGED <<once, initialized, request, pc, mine, contexts, isolateOf, ctxPointer, session, crashed, joined>>

\* Mutant: one channel for the answers to all.
Receive_Any(g) ==
    /\ At(g, "receive")
    /\ starter = "answering"
    /\ mine' = [mine EXCEPT ![g] = made]
    /\ Goto(g, "owner")
    /\ UNCHANGED <<startup, native, refs, session, crashed, joined>>

\* Mutant: the starter serves one request.
Receive_Last(g) ==
    /\ At(g, "receive")
    /\ starter = "answering" /\ request = g
    /\ starter' = "absent" /\ request' = None /\ made' = None
    /\ mine' = [mine EXCEPT ![g] = made]
    /\ Goto(g, "owner")
    /\ UNCHANGED <<once, initialized, native, refs, session, crashed, joined>>

\* Each request has a channel of its own for the answer.
Receive(g) ==
    /\ At(g, "receive")
    /\ starter = "answering" /\ request = g
    /\ starter' = "idle" /\ request' = None /\ made' = None
    /\ mine' = [mine EXCEPT ![g] = made]
    /\ Goto(g, "owner")
    /\ UNCHANGED <<once, initialized, native, refs, session, crashed, joined>>

MakeFromSnapshot(g, i) ==
    /\ At(g, "make")
    /\ Make(i)
    /\ mine' = [mine EXCEPT ![g] = i]
    /\ Goto(g, "owner")
    /\ UNCHANGED <<startup, contexts, isolateOf, ctxPointer, session, crashed, joined>>

\* The goroutine is done with its isolate, or takes up one that another made.
TurnTo(g) ==
    /\ At(g, "owner")
    /\ \/ Goto(g, "idle") /\ mine' = [mine EXCEPT ![g] = None]
       \/ \E h \in Goroutines \ {g} :
            /\ mine[h] # None
            /\ mine' = [mine EXCEPT ![g] = mine[h]]
            /\ UNCHANGED pc
    /\ UNCHANGED <<startup, native, refs, session, crashed, joined>>

-----------------------------------------------------------------------------
(* Sessions *)

\* Sync takes the isolate and enters it.
Sync(g, step) ==
    /\ session[mine[g]] = None
    /\ session' = [session EXCEPT ![mine[g]] = g]
    /\ crashed' = (pointer[mine[g]] = "nil")
    /\ Goto(g, step)

BeginSession(g) ==
    /\ At(g, "owner")
    /\ Sync(g, "session")
    /\ UNCHANGED <<startup, mine, native, refs, joined>>

\* NewContext: the native context, and the reference.
NewContext(g, c) ==
    /\ At(g, "session")
    /\ ctxPointer[c] = "none"
    /\ ctxPointer' = [ctxPointer EXCEPT ![c] = "live"]
    /\ isolateOf' = [isolateOf EXCEPT ![c] = mine[g]]
    /\ contexts' = [contexts EXCEPT ![mine[g]] = @ \cup {c}]
    /\ crashed' = (pointer[mine[g]] = "nil")
    /\ UNCHANGED <<startup, pc, mine, pointer, isolateRefs, session, joined>>

\* Run, NewFunctionTemplate or SetAccessor of a context: another reference, to the
\* isolate and its number in the names of callbacks,
BeginRun(g) ==
    /\ At(g, "session")
    /\ \E c \in ContextIds : isolateOf[c] = mine[g]
    /\ isolateRefs' = [isolateRefs EXCEPT ![mine[g]] = @ + 1]
    /\ Goto(g, "run")
    /\ UNCHANGED <<startup, mine, native, contexts, session, crashed, joined>>

\* the native call, and the reference is given back, if there still is one.
EndRun(g) ==
    /\ At(g, "run")
    /\ \E c \in ContextIds :
        /\ isolateOf[c] = mine[g]
        /\ crashed' = (ctxPointer[c] = "nil" \/ pointer[mine[g]] = "nil")
    /\ isolateRefs' = [isolateRefs EXCEPT ![mine[g]] = IF @ > 0 THEN @ - 1 ELSE 0]
    /\ Goto(g, "session")
    /\ UNCHANGED <<startup, mine, native, contexts, session, joined>>

\* The deferred calls of Sync exit the isolate.
EndSession(g) ==
    /\ At(g, "session")
    /\ session' = [session EXCEPT ![mine[g]] = None]
    /\ crashed' = (pointer[mine[g]] = "nil")
    /\ Goto(g, "owner")
    /\ UNCHANGED <<startup, mine, native, refs, joined>>

-----------------------------------------------------------------------------
(* Terminate *)

BeginTerminate(g) ==
    /\ At(g, "owner")
    /\ "terminate" \in Usage
    /\ Sync(g, "hooks")
    /\ UNCHANGED <<startup, mine, native, refs, joined>>

\* GetExecutionContext finds the context of the session that runs.
JoinToTerminate(g) ==
    /\ At(g, "owner")
    /\ "joinToTerminate" \in Usage
    /\ session[mine[g]] # None
    /\ joined' = TRUE
    /\ Goto(g, "hooks")
    /\ UNCHANGED <<startup, mine, native, refs, session, crashed>>

\* Mutant: the reference is only released at the end.
Unregister_Late(g) ==
    /\ At(g, "hooks")
    /\ Goto(g, "contexts")
    /\ UNCHANGED <<startup, mine, native, refs, session, crashed, joined>>

\* The shutdown hooks ran; callbacks no longer find the isolate.
Unregister(g) ==
    /\ At(g, "hooks")
    /\ isolateRefs' = [isolateRefs EXCEPT ![mine[g]] = 0]
    /\ Goto(g, "contexts")
    /\ UNCHANGED <<startup, mine, native, contexts, session, crashed, joined>>

\* Mutant: the native contexts are left to Context.release.
ReleaseContexts_Later(g) ==
    /\ At(g, "contexts")
    /\ Goto(g, "dispose")
    /\ UNCHANGED <<startup, mine, native, refs, session, crashed, joined>>

\* v8_Context_Release of every context that is not released.
ReleaseContexts(g) ==
    /\ At(g, "contexts")
    /\ ctxPointer' = [c \in ContextIds |-> IF c \in contexts[mine[g]] THEN "nil" ELSE ctxPointer[c]]
    /\ Goto(g, "dispose")
    /\ UNCHANGED <<startup, mine, pointer, isolateOf, refs, session, crashed, joined>>

\* v8_Isolate_Release, which ignores NULL.
Dispose(g) ==
    /\ At(g, "dispose")
    /\ pointer' = [pointer EXCEPT ![mine[g]] = "nil"]
    /\ Goto(g, "release")
    /\ UNCHANGED <<startup, mine, isolateOf, ctxPointer, refs, session, crashed, joined>>

\* Context.release of every context, in this session or, if that one is over, in
\* sessions of their own.
Forget(g) ==
    /\ At(g, "release")
    /\ contexts' = [contexts EXCEPT ![mine[g]] = {}]
    /\ isolateRefs' = [isolateRefs EXCEPT ![mine[g]] = 0]
    /\ crashed' = (session[mine[g]] = None /\ contexts[mine[g]] # {})
    /\ Goto(g, "leave")
    /\ UNCHANGED <<startup, mine, native, session, joined>>

\* Sync returns; its deferred calls exit the isolate if the session is Terminate's.
EndTerminate(g) ==
    /\ At(g, "leave")
    /\ IF session[mine[g]] = g
       THEN /\ session' = [session EXCEPT ![mine[g]] = None]
            /\ crashed' = (pointer[mine[g]] = "nil")
       ELSE UNCHANGED <<session, crashed>>
    /\ Goto(g, "owner")
    /\ UNCHANGED <<startup, mine, native, refs, joined>>

-----------------------------------------------------------------------------
(* Specification *)

New(g) ==
    \/ Ask(g) \/ BeginInitialize(g) \/ EndInitialize(g) \/ Initialized(g)
    \/ Send(g) \/ Receive(g)
    \/ \E i \in IsolateIds : MakeFromSnapshot(g, i)

Terminate(g) ==
    \/ BeginTerminate(g) \/ JoinToTerminate(g) \/ Unregister(g) \/ ReleaseContexts(g)
    \/ Dispose(g) \/ Forget(g) \/ EndTerminate(g)

Use(g) ==
    \/ TurnTo(g) \/ BeginSession(g) \/ BeginRun(g) \/ EndRun(g) \/ EndSession(g)
    \/ \E c \in ContextIds : NewContext(g, c)

Starter == \E i \in IsolateIds : Start(i)

Next == (\E g \in Goroutines : New(g) \/ Use(g) \/ Terminate(g)) \/ Starter

Spec == Init /\ [][Next]_vars

\* A step that a goroutine is scheduled to take, and a channel that is ready.
Progress(g) ==
    \/ BeginInitialize(g) \/ EndInitialize(g) \/ Initialized(g) \/ Receive(g)
    \/ \E i \in IsolateIds : MakeFromSnapshot(g, i)

(***************************************************************************)
(* Goroutines are scheduled, and channels serve waiting senders in turn.   *)
(***************************************************************************)
FairSpec ==
    /\ Spec
    /\ WF_vars(Starter)
    /\ \A g \in Goroutines : WF_vars(Progress(g)) /\ SF_vars(Send(g))

-----------------------------------------------------------------------------
(* Properties *)

Isolates == {i \in IsolateIds : pointer[i] # "none"}

(***************************************************************************)
(* "v8_init must be called once before anything else": no isolate is made  *)
(* before initOnce's function has ended, whichever goroutines come first.  *)
(***************************************************************************)
InitializedFirst == Isolates # {} => initialized = 1

(***************************************************************************)
(* The starter answers the goroutine that asked, and hands the isolate it  *)
(* made to nobody else.                                                    *)
(***************************************************************************)
StarterAnswersItsCaller ==
    starter = "answering" => pc[request] = "receive" /\ \A g \in Goroutines : mine[g] # made

(***************************************************************************)
(* A native context is not left behind by its isolate: Terminate releases  *)
(* the contexts before it disposes of the isolate, also those that are     *)
(* made while it waits for its session; unless it joins the session of     *)
(* another goroutine, which may make contexts under its hands.             *)
(***************************************************************************)
ContextsDieFirst ==
    ~joined =>
      \A c \in ContextIds : ctxPointer[c] = "live" =>
        \E i \in IsolateIds : pointer[i] = "live" /\ c \in contexts[i]

(***************************************************************************)
(* A callback that looks its isolate up in isolateRefs does not find one   *)
(* that was disposed, unless Terminate joined the session of another       *)
(* goroutine.  That session can put the isolate back; then the reference   *)
(* goes with the call that took it, or with Terminate's second Release,    *)
(* and none is left behind.                                                *)
(***************************************************************************)
FoundIsLive ==
    \A i \in IsolateIds : isolateRefs[i] > 0 =>
        \/ pointer[i] = "live"
        \/ joined /\ \E g \in Goroutines : mine[g] = i /\ pc[g] \in {"run", "release"}

(***************************************************************************)
(* Every call of NewIsolate returns, as long as the process lives and the  *)
(* bound IsolateIds leaves isolates to make.                               *)
(***************************************************************************)
EveryNewIsolateReturns ==
    \A g \in Goroutines :
        pc[g] = "initialize" ~> (pc[g] = "owner" \/ crashed \/ Isolates = IsolateIds)

(***************************************************************************)
(* Terminate does its work and returns, as the tests that call it for one  *)
(* isolate and for all expect: it hands no disposed isolate to V8.         *)
(***************************************************************************)
TerminateIsSafe == ~crashed
===============================================================================
