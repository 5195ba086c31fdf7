------------------------------- MODULE Promises -------------------------------
(***************************************************************************)
(* Value.Await and what has to happen for it to return: Background         *)
(* goroutines that call "then", that enqueue microtasks (dynamic import)   *)
(* and that run them, while the awaiting goroutine keeps the isolate.      *)
(*                                                                         *)
(* A session is that of Sync, as Execution models it; here it is taken,    *)
(* published and entered in one step, and ended in one.  A Background      *)
(* goroutine uses the context it finds published when it starts, or one of *)
(* its own; whoever finds the mutex of its context taken joins.  The       *)
(* native part is V8's: one thread runs the microtasks at a time, until    *)
(* there are none, whenever a call of its own from outside ends.           *)
(***************************************************************************)
EXTENDS Naturals, Sequences

CONSTANTS
    Hosts,      \* goroutines of the program, each with a context of its own
    Promises,
    Fresh,      \* the context GetExecutionContext makes when it finds none
    None

Jobs == {"then", "import", "checkpoint"}
Workers == Jobs \X Promises
Processes == Hosts \cup Workers
Contexts == Processes
Microtasks == {"import", "reaction"} \X Promises

ASSUME ProcessAssumption == Hosts \cap Workers = {}
ASSUME NoneAssumption == None \notin Promises \cup Processes \cup Microtasks /\ Fresh # None

VARIABLES
    pc,                 \* where each goroutine is
    ctx,                \* the context it uses
    entrantMutex,       \* the goroutine that locked a context
    session,            \* the goroutine that holds the isolate
    executionContext,   \* the context that is published
    promise,            \* the state of each promise; a pending one is settled by an
                        \* import or by a Resolver of the program
    reactions,          \* the promises that have the functions of Await as reactions
    microtasks,         \* V8's queue
    running,            \* the goroutine that runs microtasks
    task,               \* the microtask it runs
    callbackContext,    \* the context of the Go function that microtask calls
    awaits,             \* the promise a host awaits
    answer              \* what its last Await returned

locks == <<entrantMutex, session, executionContext>>
js == <<promise, reactions, microtasks>>
loop == <<running, task, callbackContext>>
go == <<pc, ctx, awaits, answer>>
vars == <<go, locks, js, loop>>

Settled == {"resolved", "rejected"}
Pending == {"importing", "open"}

TypeOK ==
    /\ pc \in [Processes -> {"idle", "new", "sync", "lock", "body", "wait", "loop", "callback",
                             "callbackLock", "end"}]
    /\ ctx \in [Processes -> Contexts \cup {None}]
    /\ entrantMutex \in [Contexts -> Processes \cup {None}]
    /\ session \in Processes \cup {None}
    /\ executionContext \in Contexts \cup {None}
    /\ promise \in [Promises -> Settled \cup Pending \cup {"none"}]
    /\ reactions \in SUBSET {p \in Promises : promise[p] \in Pending}
    /\ microtasks \in Seq(Microtasks)
    /\ running \in Processes \cup {None}
    /\ task \in Microtasks \cup {None}
    /\ callbackContext \in Contexts \cup {Fresh, None}
    /\ awaits \in [Hosts -> Promises \cup {None}]
    /\ answer \in [Hosts -> Settled \cup {None}]

Init ==
    /\ pc = [x \in Processes |-> "idle"]
    /\ ctx = [x \in Processes |-> IF x \in Hosts THEN x ELSE None]
    /\ entrantMutex = [c \in Contexts |-> None]
    /\ session = None /\ executionContext = None
    /\ promise = [p \in Promises |-> "none"]
    /\ reactions = {}
    /\ microtasks = <<>>
    /\ running = None /\ task = None /\ callbackContext = None
    /\ awaits = [h \in Hosts |-> None]
    /\ answer = [h \in Hosts |-> None]

At(x, step) == pc[x] = step
Goto(x, step) == pc' = [pc EXCEPT ![x] = step]

\* Isolate.Background: the goroutine of the job is started.
Background(job, p, frame) == [frame EXCEPT ![<<job, p>>] = "new"]

-----------------------------------------------------------------------------
(* Sync *)

\* A Background goroutine starts: newIsolateContext.
Start(w) ==
    /\ At(w, "new")
    /\ ctx' = [ctx EXCEPT ![w] = IF executionContext = None THEN w ELSE executionContext]
    /\ Goto(w, "sync")
    /\ UNCHANGED <<awaits, answer, locks, js, loop>>

\* Sync is called: TryLock of the context.
LockEntrant(x) ==
    /\ At(x, IF x \in Hosts THEN "idle" ELSE "sync")
    /\ IF entrantMutex[ctx[x]] = None
       THEN entrantMutex' = [entrantMutex EXCEPT ![ctx[x]] = x] /\ Goto(x, "lock")
       ELSE Goto(x, "body") /\ UNCHANGED entrantMutex
    /\ UNCHANGED <<ctx, awaits, answer, session, executionContext, js, loop>>

LockSync(x) ==
    /\ At(x, "lock")
    /\ session = None
    /\ session' = x /\ executionContext' = ctx[x]
    /\ Goto(x, "body")
    /\ UNCHANGED <<ctx, awaits, answer, entrantMutex, js, loop>>

\* Sync returns: the session ends, if it is x's.
EndSync(x) ==
    /\ \/ x \in Hosts /\ At(x, "body")
       \/ x \in Workers /\ At(x, "end")
    /\ IF session = x
       THEN /\ session' = None /\ executionContext' = None
            /\ entrantMutex' = [entrantMutex EXCEPT ![ctx[x]] = None]
       ELSE UNCHANGED locks
    /\ Goto(x, "idle")
    /\ IF x \in Hosts THEN answer' = [answer EXCEPT ![x] = None] /\ UNCHANGED ctx
       ELSE ctx' = [ctx EXCEPT ![x] = None] /\ UNCHANGED answer
    /\ UNCHANGED <<awaits, js, loop>>

-----------------------------------------------------------------------------
(* JavaScript and its microtasks *)

\* A native call of x ends; it runs the microtasks q unless they are being run.
Checkpoint(x, q, frame) ==
    /\ microtasks' = q
    /\ IF running = None
       THEN running' = x /\ pc' = [frame EXCEPT ![x] = "loop"]
       ELSE UNCHANGED running /\ pc' = [frame EXCEPT ![x] = IF x \in Hosts THEN "body" ELSE "end"]
    /\ UNCHANGED <<task, callbackContext>>

\* The queue once p is settled.
Triggered(p, q) == IF p \in reactions THEN Append(q, <<"reaction", p>>) ELSE q

Settle(p, state) ==
    /\ promise' = [promise EXCEPT ![p] = state]
    /\ reactions' = reactions \ {p}

EndLoop(x) ==
    /\ At(x, "loop")
    /\ microtasks = <<>>
    /\ running' = None
    /\ Goto(x, IF x \in Hosts THEN "body" ELSE "end")
    /\ UNCHANGED <<ctx, awaits, answer, locks, js, task, callbackContext>>

\* The next microtask calls its Go function: GetExecutionContext.
Callback(x) ==
    /\ At(x, "loop")
    /\ microtasks # <<>>
    /\ microtasks' = Tail(microtasks) /\ task' = Head(microtasks)
    /\ callbackContext' = IF executionContext = None THEN Fresh ELSE executionContext
    /\ Goto(x, "callback")
    /\ UNCHANGED <<ctx, awaits, answer, locks, promise, reactions, running>>

\* The function of AddMicrotask settles the promise of the import.
Import(x, p) ==
    /\ task = <<"import", p>>
    /\ \E state \in Settled : Settle(p, state)
    /\ microtasks' = Triggered(p, microtasks)
    /\ Goto(x, "loop")
    /\ UNCHANGED <<ctx, awaits, answer>>

\* Mutant: resolve and reject are handed to "then" in the other order.
React_Swapped(x, p) ==
    /\ task = <<"reaction", p>>
    /\ \E h \in Hosts :
        /\ awaits[h] = p /\ At(h, "wait")
        /\ answer' = [answer EXCEPT ![h] = CHOOSE state \in Settled : state # promise[p]]
        /\ awaits' = [awaits EXCEPT ![h] = None]
        /\ pc' = [pc EXCEPT ![h] = "body", ![x] = "loop"]
    /\ UNCHANGED <<ctx, js>>

\* resolve or reject sends on the channel, and the Await that waits goes on.
React(x, p) ==
    /\ task = <<"reaction", p>>
    /\ \E h \in Hosts :
        /\ awaits[h] = p /\ At(h, "wait")
        /\ answer' = [answer EXCEPT ![h] = promise[p]]
        /\ awaits' = [awaits EXCEPT ![h] = None]
        /\ pc' = [pc EXCEPT ![h] = "body", ![x] = "loop"]
    /\ UNCHANGED <<ctx, js>>

Body(x) == \E p \in Promises : Import(x, p) \/ React(x, p)

\* The function runs in the session it joins.
CallbackJoins(x) ==
    /\ At(x, "callback")
    /\ callbackContext # Fresh
    /\ entrantMutex[callbackContext] # None
    /\ Body(x)
    /\ task' = None /\ callbackContext' = None
    /\ UNCHANGED <<locks, running>>

CallbackLocks(x) ==
    /\ At(x, "callback")
    /\ IF callbackContext = Fresh THEN UNCHANGED entrantMutex
       ELSE /\ entrantMutex[callbackContext] = None
            /\ entrantMutex' = [entrantMutex EXCEPT ![callbackContext] = x]
    /\ Goto(x, "callbackLock")
    /\ UNCHANGED <<ctx, awaits, answer, session, executionContext, js, loop>>

\* The function runs in a session of its own, which waits for nothing.
CallbackRuns(x) ==
    /\ At(x, "callbackLock")
    /\ session = None
    /\ Body(x)
    /\ task' = None /\ callbackContext' = None
    /\ entrantMutex' = [c \in Contexts |-> IF c = callbackContext THEN None ELSE entrantMutex[c]]
    /\ UNCHANGED <<session, executionContext, running>>

-----------------------------------------------------------------------------
(* What hosts do *)

\* Context.Run returns a promise: a settled one, or one of a dynamic import, for
\* which importModuleDynamicallyCallbackHandler starts a goroutine.
Run(h, p) ==
    /\ At(h, "body")
    /\ promise[p] = "none"
    /\ \/ /\ \E state \in Settled : promise' = [promise EXCEPT ![p] = state]
          /\ Checkpoint(h, microtasks, pc)
       \/ /\ promise' = [promise EXCEPT ![p] = "importing"]
          /\ Checkpoint(h, microtasks, Background("import", p, pc))
    /\ UNCHANGED <<ctx, awaits, answer, locks, reactions>>

NewResolver(h, p) ==
    /\ At(h, "body")
    /\ promise[p] = "none"
    /\ promise' = [promise EXCEPT ![p] = "open"]
    /\ UNCHANGED <<go, locks, reactions, microtasks, loop>>

\* Resolver.Resolve or Reject.
Resolve(h, p) ==
    /\ At(h, "body")
    /\ promise[p] = "open"
    /\ \E state \in Settled : Settle(p, state)
    /\ Checkpoint(h, Triggered(p, microtasks), pc)
    /\ UNCHANGED <<ctx, awaits, answer, locks>>

\* Await starts the goroutine that calls "then", and waits for the channel.
Await(h, p) ==
    /\ At(h, "body")
    /\ promise[p] # "none"
    /\ At(<<"then", p>>, "idle") /\ \A g \in Hosts : awaits[g] # p
    /\ awaits' = [awaits EXCEPT ![h] = p]
    /\ answer' = [answer EXCEPT ![h] = None]
    /\ pc' = Background("then", p, [pc EXCEPT ![h] = "wait"])
    /\ UNCHANGED <<ctx, locks, js, loop>>

-----------------------------------------------------------------------------
(* What Background goroutines do *)

\* Mutant: only promises that are pending get the reaction.
CallThen_Pending(p) ==
    LET w == <<"then", p>> IN
    /\ At(w, "body")
    /\ reactions' = IF promise[p] \in Pending THEN reactions \cup {p} ELSE reactions
    /\ Checkpoint(w, microtasks, pc)
    /\ UNCHANGED <<ctx, awaits, answer, locks, promise>>

\* then.Call: the reaction runs at once if the promise is settled.
CallThen(p) ==
    LET w == <<"then", p>> IN
    /\ At(w, "body")
    /\ IF promise[p] \in Pending
       THEN reactions' = reactions \cup {p} /\ Checkpoint(w, microtasks, pc)
       ELSE UNCHANGED reactions /\ Checkpoint(w, Append(microtasks, <<"reaction", p>>), pc)
    /\ UNCHANGED <<ctx, awaits, answer, locks, promise>>

\* Mutant: no checkpoint is asked for.
AddMicrotask_NoCheckpoint(p) ==
    /\ At(<<"import", p>>, "body")
    /\ microtasks' = Append(microtasks, <<"import", p>>)
    /\ Goto(<<"import", p>>, "end")
    /\ UNCHANGED <<ctx, awaits, answer, locks, promise, reactions, loop>>

\* AddMicrotask and EnqueueMicrotaskWithValue, and the goroutine for a checkpoint.
AddMicrotask(p) ==
    /\ At(<<"import", p>>, "body")
    /\ microtasks' = Append(microtasks, <<"import", p>>)
    /\ pc' = Background("checkpoint", p, [pc EXCEPT ![<<"import", p>>] = "end"])
    /\ UNCHANGED <<ctx, awaits, answer, locks, promise, reactions, loop>>

PerformMicrotaskCheckpoint(p) ==
    /\ At(<<"checkpoint", p>>, "body")
    /\ Checkpoint(<<"checkpoint", p>>, microtasks, pc)
    /\ UNCHANGED <<ctx, awaits, answer, locks, promise, reactions>>

-----------------------------------------------------------------------------
(* Specification *)

Loop(x) == EndLoop(x) \/ Callback(x) \/ CallbackJoins(x) \/ CallbackLocks(x) \/ CallbackRuns(x)

Work(p) == CallThen(p) \/ AddMicrotask(p) \/ PerformMicrotaskCheckpoint(p)

Host(h) ==
    \/ LockEntrant(h)
    \/ \E p \in Promises : Run(h, p) \/ NewResolver(h, p) \/ Resolve(h, p) \/ Await(h, p)

\* What a goroutine does next without a choice of the program.
Proceed(x) == LockSync(x) \/ Loop(x) \/ EndSync(x)

BackgroundWork ==
    \/ \E w \in Workers : Start(w) \/ LockEntrant(w)
    \/ \E p \in Promises : Work(p)

Next ==
    \/ \E h \in Hosts : Host(h)
    \/ \E x \in Processes : Proceed(x)
    \/ BackgroundWork

Spec == Init /\ [][Next]_vars

(***************************************************************************)
(* Goroutines are scheduled, mutexes serve every waiter in the end, and a  *)
(* host ends its sessions.  What hosts begin is up to them.                *)
(***************************************************************************)
FairSpec ==
    /\ Spec
    /\ WF_vars(BackgroundWork)
    /\ \A x \in Processes : SF_vars(Proceed(x))

-----------------------------------------------------------------------------
(* Properties *)

Waits(h, p) == awaits[h] = p

(***************************************************************************)
(* Microtasks that nobody runs have a goroutine on its way to run them: no *)
(* checkpoint is lost, though a checkpoint does nothing while microtasks   *)
(* are being run.                                                          *)
(***************************************************************************)
NoLostCheckpoint ==
    microtasks # <<>> /\ running = None =>
        \E w \in {"then", "checkpoint"} \X Promises : pc[w] \in {"new", "sync", "lock", "body"}

(***************************************************************************)
(* Await returns the value or the error with which the promise it was      *)
(* called on was settled, and does not return before.                      *)
(***************************************************************************)
AwaitAnswers ==
    [][\A h \in Hosts, p \in Promises :
        Waits(h, p) /\ ~Waits(h, p)' => promise[p] \in Settled /\ answer'[h] = promise[p]]_vars

\* A goroutine that the bindings started, or one that runs microtasks, waits for
\* the isolate with a context of its own while an Await keeps it.
HeldUp ==
    \E h \in Hosts :
        /\ session = h /\ At(h, "wait")
        /\ \/ \E w \in Workers : At(w, "lock")
           \/ \E x \in Processes : At(x, "callbackLock")

(***************************************************************************)
(* Await of a promise that is settled, or that an import will settle,      *)
(* returns, unless it holds up a goroutine on which it may depend: one that *)
(* started while no session was published.                                 *)
(***************************************************************************)
EveryAwaitReturns ==
    \A h \in Hosts, p \in Promises :
        (Waits(h, p) /\ (promise[p] \in Settled \/ promise[p] = "importing"))
            ~> (~Waits(h, p) \/ HeldUp)
===============================================================================
