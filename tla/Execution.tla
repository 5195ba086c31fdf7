------------------------------ MODULE Execution ------------------------------
(***************************************************************************)
(* How Go code gets to run inside an isolate.  Every entry point of the    *)
(* bindings runs its body through Isolate.Sync, which is meant to be a     *)
(* lock that the code already inside can take again: the first Sync of an  *)
(* execution context locks its entrantMutex with TryLock and then the      *)
(* isolate's syncMutex; a Sync that finds the entrantMutex taken assumes   *)
(* that its own caller holds it, and joins: it runs its body with no lock. *)
(*                                                                         *)
(* The current execution context is published in Isolate.executionContext *)
(* so that callbacks from V8, finalizers and Background goroutines, which  *)
(* have no context of their own, can find it (GetExecutionContext).  They  *)
(* read it twice and without the lock.                                     *)
(*                                                                         *)
(* A frame <<g, n>> is the n-th nested Sync call on the stack of goroutine *)
(* g: frame <<g, n + 1>> was started by the body of <<g, n>>.              *)
(***************************************************************************)
EXTENDS Integers, FiniteSets

CONSTANTS
    Isolates,       \* the *Isolate values
    Goroutines,     \* the goroutines that call into the bindings
    UserContexts,   \* execution contexts made by callers with WithContext
    FreshContexts,  \* execution contexts made by GetExecutionContext
    Releasers,      \* values given to ExecutionContext.AddReleaser
    MaxFrames,      \* bound: nesting of Sync calls on one goroutine
    MaxDepth,       \* bound: native entries a panicking hook can leave behind
    Usage,          \* what callers do, a subset of Usages
    None            \* no frame, no context, no isolate

(***************************************************************************)
(* "shareContext": goroutines pass the same context.Context around.        *)
(* "crossIsolate": a body uses its context on another isolate.             *)
(* "detached": finalizers and Background goroutines run.                   *)
(* "hookPanics": an enter or exit callback, or a releaser, panics.         *)
(***************************************************************************)
Usages == {"shareContext", "crossIsolate", "detached", "hookPanics"}

Contexts == UserContexts \cup FreshContexts
Frames == Goroutines \X (1 .. MaxFrames)

ASSUME BoundsAssumption == MaxFrames \in Nat \ {0} /\ MaxDepth \in Nat
ASSUME UsageAssumption == Usage \subseteq Usages
ASSUME NoneAssumption ==
    /\ None \notin Isolates
    /\ None \notin Contexts
    /\ None \notin Frames

VARIABLES
    entrantMutex,       \* ExecutionContext.entrantMutex: the frame that locked it
    syncMutex,          \* Isolate.syncMutex: the frame that locked it
    executionContext,   \* Isolate.executionContext: the published context
    depth,              \* native v8::Isolate::Enter calls not yet matched by Exit
    pc,                 \* where each frame is in Sync
    ctx,                \* the execution context each frame runs with
    iso,                \* the isolate each frame was called on
    added,              \* releasers given to AddReleaser
    pending,            \* ExecutionContext.releasers
    released,           \* how often Release was called on a releaser (up to 2)
    crashed             \* a nil context was dereferenced where nothing recovers

locks == <<entrantMutex, syncMutex, executionContext, depth>>
frames == <<pc, ctx, iso>>
releasing == <<added, pending, released>>
vars == <<locks, frames, releasing, crashed>>

Owning == {"lock", "publish", "enter", "body", "ecExit", "clear", "exit",
           "unpublish", "unlockSync", "unlockEntrant"}
Locked == Owning \ {"lock", "unlockEntrant"}
Published == Locked \ {"publish", "unlockSync"}
Inside == Published \ {"unpublish"}
PCs == Owning \cup {"idle", "check", "reread", "tryLock", "outside"}

TypeOK ==
    /\ entrantMutex \in [Contexts -> Frames \cup {None}]
    /\ syncMutex \in [Isolates -> Frames \cup {None}]
    /\ executionContext \in [Isolates -> Contexts \cup {None}]
    /\ depth \in [Isolates -> Nat]
    /\ pc \in [Frames -> PCs]
    /\ ctx \in [Frames -> Contexts \cup {None}]
    /\ iso \in [Frames -> Isolates \cup {None}]
    /\ added \in SUBSET Releasers
    /\ pending \in [Contexts -> SUBSET Releasers]
    /\ released \in [Releasers -> 0 .. 2]
    /\ crashed \in BOOLEAN

\* NewIsolate leaves the isolate entered once, for as long as it exists.
Init ==
    /\ entrantMutex = [c \in Contexts |-> None]
    /\ syncMutex = [i \in Isolates |-> None]
    /\ executionContext = [i \in Isolates |-> None]
    /\ depth = [i \in Isolates |-> 1]
    /\ pc = [f \in Frames |-> "idle"]
    /\ ctx = [f \in Frames |-> None]
    /\ iso = [f \in Frames |-> None]
    /\ added = {}
    /\ pending = [c \in Contexts |-> {}]
    /\ released = [r \in Releasers |-> 0]
    /\ crashed = FALSE

-----------------------------------------------------------------------------
(* Frames *)

Callee(f) == <<f[1], f[2] + 1>>

\* The goroutine is not executing a Sync call made by f.
OnTop(f) == f[2] < MaxFrames => pc[Callee(f)] = "idle"

\* The body of f is what its goroutine is executing now.
Running(f) == pc[f] = "body" /\ OnTop(f)

\* f locked the entrantMutex of its context: it did not join another frame.
Owner(f) == pc[f] \in Owning /\ entrantMutex[ctx[f]] = f

Goto(f, label) == pc' = [pc EXCEPT ![f] = label]

Call(f, c, i, label) ==
    /\ pc[f] = "idle"
    /\ Goto(f, label)
    /\ ctx' = [ctx EXCEPT ![f] = c]
    /\ iso' = [iso EXCEPT ![f] = i]
    /\ UNCHANGED <<locks, releasing, crashed>>

\* Sync returns to its caller.
Leave(f) ==
    /\ Goto(f, "idle")
    /\ ctx' = [ctx EXCEPT ![f] = None]
    /\ iso' = [iso EXCEPT ![f] = None]

-----------------------------------------------------------------------------
(* Ways into Sync *)

\* A goroutine calls the API with a context it made with WithContext.
UserCall(f) ==
    /\ f[2] = 1
    /\ \E c \in UserContexts, i \in Isolates :
        /\ \/ "shareContext" \in Usage
           \/ \A g \in Frames : g[2] = 1 => ctx[g] # c
        /\ Call(f, c, i, "tryLock")

\* A body, or the callback of a Background goroutine, calls the API with the
\* context it was given.
NestedCall(f) ==
    /\ pc[f] \in {"body", "outside"}
    /\ OnTop(f)
    /\ f[2] < MaxFrames
    /\ \E i \in Isolates :
        /\ i = iso[f] \/ "crossIsolate" \in Usage
        /\ Call(Callee(f), ctx[f], i, "tryLock")

\* V8 calls back into Go: the handler asks the isolate for the context.
Callback(f) ==
    /\ Running(f)
    /\ f[2] < MaxFrames
    /\ Call(Callee(f), None, iso[f], "check")

\* A finalizer or a Background goroutine asks the isolate for the context.
DetachedCall(f) ==
    /\ "detached" \in Usage
    /\ f[2] = 1
    /\ \E i \in Isolates : Call(f, None, i, "check")

-----------------------------------------------------------------------------
(* GetExecutionContext, newIsolateContext *)

Unused(c) ==
    /\ c \in FreshContexts
    /\ \A f \in Frames : ctx[f] # c

\* A callback and a finalizer go on to Sync; a Background goroutine runs its
\* callback, which is outside of Sync.
MoveOn(f) == \E label \in {"tryLock"} \cup (IF f[2] = 1 THEN {"outside"} ELSE {}) :
                  Goto(f, label)

\* First read: no context is published, a new one is made.
MakeContext(f) ==
    /\ pc[f] = "check"
    /\ executionContext[iso[f]] = None
    /\ \E c \in Contexts :
        /\ Unused(c)
        /\ ctx' = [ctx EXCEPT ![f] = c]
        /\ pending' = [pending EXCEPT ![c] = {}]
    /\ MoveOn(f)
    /\ UNCHANGED <<locks, iso, added, released, crashed>>

\* Mutant: the handler makes a context of its own although one is published.
SeeContext_Own(f) ==
    /\ pc[f] = "check"
    /\ executionContext[iso[f]] # None
    /\ \E c \in Contexts : Unused(c) /\ ctx' = [ctx EXCEPT ![f] = c]
    /\ Goto(f, "tryLock")
    /\ UNCHANGED <<locks, iso, releasing, crashed>>

\* First read: a context is published.
SeeContext(f) ==
    /\ pc[f] = "check"
    /\ executionContext[iso[f]] # None
    /\ Goto(f, "reread")
    /\ UNCHANGED <<locks, ctx, iso, releasing, crashed>>

\* Second read: it is returned, whichever it is by now.
TakeContext(f) ==
    /\ pc[f] = "reread"
    /\ executionContext[iso[f]] # None
    /\ ctx' = [ctx EXCEPT ![f] = executionContext[iso[f]]]
    /\ MoveOn(f)
    /\ UNCHANGED <<locks, iso, releasing, crashed>>

\* Second read: it is gone, and For(nil) panics.  A Background goroutine
\* recovers and is done; a finalizer dies, and so does V8 when the callback
\* handler gives it no result.
NilContext(f) ==
    /\ pc[f] = "reread"
    /\ executionContext[iso[f]] = None
    /\ crashed' \in {TRUE, f[2] # 1}
    /\ Leave(f)
    /\ UNCHANGED <<locks, releasing>>

\* The callback of a Background goroutine is done.
EndBackground(f) ==
    /\ pc[f] = "outside"
    /\ OnTop(f)
    /\ Leave(f)
    /\ UNCHANGED <<locks, releasing, crashed>>

-----------------------------------------------------------------------------
(* Sync *)

\* Mutant: the context is published before the isolate is locked.
LockEntrant_Publishes(f) ==
    /\ pc[f] = "tryLock"
    /\ entrantMutex[ctx[f]] = None
    /\ entrantMutex' = [entrantMutex EXCEPT ![ctx[f]] = f]
    /\ executionContext' = [executionContext EXCEPT ![iso[f]] = ctx[f]]
    /\ Goto(f, "lock")
    /\ UNCHANGED <<syncMutex, depth, ctx, iso, releasing, crashed>>

\* TryLock succeeds.
LockEntrant(f) ==
    /\ pc[f] = "tryLock"
    /\ entrantMutex[ctx[f]] = None
    /\ entrantMutex' = [entrantMutex EXCEPT ![ctx[f]] = f]
    /\ Goto(f, "lock")
    /\ UNCHANGED <<syncMutex, executionContext, depth, ctx, iso, releasing, crashed>>

\* Mutant: "i.enter()" stands after the if, where joining frames reach it.
Join_Enters(f) ==
    /\ pc[f] = "tryLock"
    /\ entrantMutex[ctx[f]] # None
    /\ depth' = [depth EXCEPT ![iso[f]] = @ + 1]
    /\ Goto(f, "body")
    /\ UNCHANGED <<entrantMutex, syncMutex, executionContext, ctx, iso, releasing, crashed>>

\* TryLock fails: whoever holds the context is taken for a caller.
Join(f) ==
    /\ pc[f] = "tryLock"
    /\ entrantMutex[ctx[f]] # None
    /\ Goto(f, "body")
    /\ UNCHANGED <<locks, ctx, iso, releasing, crashed>>

\* Mutant: syncMutex is taken with TryLock too, and its result ignored.
LockSync_Tries(f) ==
    /\ pc[f] = "lock"
    /\ syncMutex' = [syncMutex EXCEPT ![iso[f]] = f]
    /\ Goto(f, "publish")
    /\ UNCHANGED <<entrantMutex, executionContext, depth, ctx, iso, releasing, crashed>>

LockSync(f) ==
    /\ pc[f] = "lock"
    /\ syncMutex[iso[f]] = None
    /\ syncMutex' = [syncMutex EXCEPT ![iso[f]] = f]
    /\ Goto(f, "publish")
    /\ UNCHANGED <<entrantMutex, executionContext, depth, ctx, iso, releasing, crashed>>

Publish(f) ==
    /\ pc[f] = "publish"
    /\ executionContext' = [executionContext EXCEPT ![iso[f]] = ctx[f]]
    /\ Goto(f, "enter")
    /\ UNCHANGED <<entrantMutex, syncMutex, depth, ctx, iso, releasing, crashed>>

Enter(f) ==
    /\ pc[f] = "enter"
    /\ depth' = [depth EXCEPT ![iso[f]] = @ + 1]
    /\ Goto(f, "body")
    /\ UNCHANGED <<entrantMutex, syncMutex, executionContext, ctx, iso, releasing, crashed>>

\* Mutant: the unlocks are not deferred, and a panic skips them.
EnterPanics_Skips(f) ==
    /\ pc[f] = "enter"
    /\ depth[iso[f]] < MaxDepth
    /\ depth' = [depth EXCEPT ![iso[f]] = @ + 1]
    /\ Leave(f)
    /\ UNCHANGED <<entrantMutex, syncMutex, executionContext, releasing, crashed>>

\* An isolate hook panics before "defer i.exit()" is reached, or a context
\* hook after it but before "defer executionContext.exit()".
EnterPanics(f) ==
    /\ "hookPanics" \in Usage
    /\ pc[f] = "enter"
    /\ depth[iso[f]] < MaxDepth
    /\ depth' = [depth EXCEPT ![iso[f]] = @ + 1]
    /\ \E label \in {"unpublish", "exit"} : Goto(f, label)
    /\ UNCHANGED <<entrantMutex, syncMutex, executionContext, ctx, iso, releasing, crashed>>

\* The body hands a releaser to its context.  The append is not locked: with
\* a body of another goroutine on the same context it may be lost.
AddReleaser(f) ==
    /\ Running(f)
    /\ \E r \in Releasers \ added :
        /\ added' = added \cup {r}
        /\ \/ pending' = [pending EXCEPT ![ctx[f]] = @ \cup {r}]
           \/ /\ \E g \in Frames : pc[g] = "body" /\ ctx[g] = ctx[f] /\ g[1] # f[1]
              /\ UNCHANGED pending
    /\ UNCHANGED <<locks, frames, released, crashed>>

\* Mutant: the deferred calls stand outside the if, joining frames run them.
Return_Unlocks(f) ==
    /\ Running(f)
    /\ Goto(f, "ecExit")
    /\ UNCHANGED <<locks, ctx, iso, releasing, crashed>>

\* Mutant: a joining frame resets Isolate.executionContext when it returns.
Return_Unpublishes(f) ==
    /\ Running(f)
    /\ IF Owner(f) THEN Goto(f, "ecExit") /\ UNCHANGED <<executionContext, ctx, iso>>
       ELSE Leave(f) /\ executionContext' = [executionContext EXCEPT ![iso[f]] = None]
    /\ UNCHANGED <<entrantMutex, syncMutex, depth, releasing, crashed>>

\* The body returns, or panics and is recovered: the deferred calls follow.
Return(f) ==
    /\ Running(f)
    /\ IF Owner(f) THEN Goto(f, "ecExit") /\ UNCHANGED <<ctx, iso>>
                   ELSE Leave(f)
    /\ UNCHANGED <<locks, releasing, crashed>>

RunReleasers(f) ==
    /\ pc[f] = "ecExit"
    /\ released' = [r \in Releasers |->
                        IF r \in pending[ctx[f]] /\ released[r] < 2
                        THEN released[r] + 1 ELSE released[r]]
    /\ \/ Goto(f, "clear")
       \/ "hookPanics" \in Usage /\ Goto(f, "exit")
    /\ UNCHANGED <<locks, ctx, iso, added, pending, crashed>>

\* Mutant: the list of releasers is not emptied.
ClearReleasers_Kept(f) ==
    /\ pc[f] = "clear"
    /\ Goto(f, "exit")
    /\ UNCHANGED <<locks, ctx, iso, releasing, crashed>>

ClearReleasers(f) ==
    /\ pc[f] = "clear"
    /\ pending' = [pending EXCEPT ![ctx[f]] = {}]
    /\ Goto(f, "exit")
    /\ UNCHANGED <<locks, ctx, iso, added, released, crashed>>

Exit(f) ==
    /\ pc[f] = "exit"
    /\ \/ depth' = [depth EXCEPT ![iso[f]] = @ - 1]
       \/ /\ "hookPanics" \in Usage
          /\ depth[iso[f]] <= MaxDepth
          /\ UNCHANGED depth
    /\ Goto(f, "unpublish")
    /\ UNCHANGED <<entrantMutex, syncMutex, executionContext, ctx, iso, releasing, crashed>>

Unpublish(f) ==
    /\ pc[f] = "unpublish"
    /\ executionContext' = [executionContext EXCEPT ![iso[f]] = None]
    /\ Goto(f, "unlockSync")
    /\ UNCHANGED <<entrantMutex, syncMutex, depth, ctx, iso, releasing, crashed>>

\* Mutant: syncMutex is not unlocked.
UnlockSync_Forgotten(f) ==
    /\ pc[f] = "unlockSync"
    /\ Goto(f, "unlockEntrant")
    /\ UNCHANGED <<locks, ctx, iso, releasing, crashed>>

UnlockSync(f) ==
    /\ pc[f] = "unlockSync"
    /\ syncMutex' = [syncMutex EXCEPT ![iso[f]] = None]
    /\ Goto(f, "unlockEntrant")
    /\ UNCHANGED <<entrantMutex, executionContext, depth, ctx, iso, releasing, crashed>>

UnlockEntrant(f) ==
    /\ pc[f] = "unlockEntrant"
    /\ entrantMutex' = [entrantMutex EXCEPT ![ctx[f]] = None]
    /\ Leave(f)
    /\ UNCHANGED <<syncMutex, executionContext, depth, releasing, crashed>>

-----------------------------------------------------------------------------
(* Specification *)

Proceed(f) ==
    \/ MakeContext(f) \/ SeeContext(f) \/ TakeContext(f) \/ NilContext(f)
    \/ EndBackground(f) \/ LockEntrant(f) \/ Join(f) \/ LockSync(f) \/ Publish(f)
    \/ Enter(f) \/ EnterPanics(f) \/ Return(f) \/ RunReleasers(f) \/ ClearReleasers(f)
    \/ Exit(f) \/ Unpublish(f) \/ UnlockSync(f) \/ UnlockEntrant(f)

Start(f) == UserCall(f) \/ NestedCall(f) \/ Callback(f) \/ DetachedCall(f)

Step(f) == Start(f) \/ AddReleaser(f) \/ Proceed(f)

Next == ~crashed /\ \E f \in Frames : Step(f)

Spec == Init /\ [][Next]_vars

(***************************************************************************)
(* A goroutine that can run does run; a Go mutex is handed to every waiter *)
(* in the end (its starvation mode); a body makes finitely many calls and  *)
(* returns.  Making a context only waits for one of the finitely many      *)
(* FreshContexts to be unused, an allocation that never waits in the code. *)
(***************************************************************************)
Fairness == \A f \in Frames : SF_vars(~crashed /\ Proceed(f))

FairSpec == Spec /\ Fairness

-----------------------------------------------------------------------------
(* Properties *)

(***************************************************************************)
(* The context GetExecutionContext hands out is that of the frame that     *)
(* holds both locks: a caller that finds it never finds a context of a     *)
(* session that is over, or of one that still waits for the isolate.       *)
(***************************************************************************)
PublishedByHolder ==
    \A i \in Isolates : executionContext[i] # None =>
        /\ syncMutex[i] # None
        /\ ctx[syncMutex[i]] = executionContext[i]
        /\ entrantMutex[executionContext[i]] = syncMutex[i]

(***************************************************************************)
(* Whatever way the calls on an isolate end (return, recovered panic, a    *)
(* panicking hook), Sync's deferred calls leave it unlocked, unpublished   *)
(* and, unless a hook panicked, entered as often as before; and leave no   *)
(* context locked that nobody uses.                                        *)
(***************************************************************************)
NothingLeftBehind ==
    /\ \A i \in Isolates : (\A f \in Frames : iso[f] # i) =>
        /\ syncMutex[i] = None
        /\ executionContext[i] = None
        /\ "hookPanics" \notin Usage => depth[i] = 1
    /\ \A c \in Contexts : (\A f \in Frames : ctx[f] # c) => entrantMutex[c] = None

(***************************************************************************)
(* A session publishes its context once: until it ends, no other frame     *)
(* replaces the context that callbacks of this session are to find.        *)
(***************************************************************************)
NoTakeover ==
    [][\A i \in Isolates :
        executionContext[i] # None => executionContext'[i] \in {executionContext[i], None}]_vars

(***************************************************************************)
(* The inductive invariant of Sync, whatever callers do: which frame can   *)
(* hold which lock, and at which of its steps; what is published follows   *)
(* from who holds syncMutex.                                               *)
(***************************************************************************)
FrameInv ==
    \A f \in Frames :
        /\ pc[f] = "idle" <=> iso[f] = None
        /\ pc[f] \in {"idle", "check", "reread"} <=> ctx[f] = None

EntrantInv ==
    /\ \A c \in Contexts : entrantMutex[c] # None =>
           ctx[entrantMutex[c]] = c /\ pc[entrantMutex[c]] \in Owning
    /\ \A f \in Frames : pc[f] \in Owning \ {"body"} => entrantMutex[ctx[f]] = f

SyncInv ==
    /\ \A i \in Isolates : syncMutex[i] # None =>
           /\ iso[syncMutex[i]] = i
           /\ pc[syncMutex[i]] \in Locked
           /\ Owner(syncMutex[i])
    /\ \A f \in Frames : Owner(f) /\ pc[f] \in Locked => syncMutex[iso[f]] = f

PublishInv ==
    \A i \in Isolates :
        executionContext[i] = IF syncMutex[i] # None /\ pc[syncMutex[i]] \in Published
                              THEN ctx[syncMutex[i]] ELSE None

DepthInv ==
    \A i \in Isolates :
        depth[i] >= IF syncMutex[i] # None /\ pc[syncMutex[i]] \in Inside \ {"enter"}
                    THEN 2 ELSE 1

Below(f, g) == f[1] = g[1] /\ f[2] < g[2]

\* Every frame below an active one waits in its body, or is the callback of a
\* Background goroutine.
StackInv ==
    \A f, g \in Frames : Below(f, g) /\ pc[g] # "idle" => pc[f] \in {"body", "outside"}

SessionInv ==
    FrameInv /\ EntrantInv /\ SyncInv /\ PublishInv /\ DepthInv /\ StackInv

(***************************************************************************)
(* Without "crossIsolate" a goroutine is on one isolate at a time, and the *)
(* calls made inside a session run with the context of that session.       *)
(***************************************************************************)
ReentryInv ==
    \A f, g \in Frames : Below(f, g) /\ pc[g] # "idle" =>
        /\ iso[g] = iso[f]
        /\ Owner(f) => ctx[g] \in {None, ctx[f]}

(***************************************************************************)
(* With Usage = {} the first call of every goroutine locks its context,    *)
(* which no other goroutine has; it never joins.                           *)
(***************************************************************************)
RootInv ==
    \A f \in Frames : f[2] = 1 =>
        /\ pc[f] \notin {"check", "reread", "outside"}
        /\ pc[f] = "body" => Owner(f)
        /\ \A g \in Frames : g[2] = 1 /\ ctx[g] = ctx[f] /\ ctx[f] # None => f = g

\* The call f was made, directly or not, by the body of the frame that holds
\* the isolate f is called on.
InsideSession(f) ==
    \E h \in Frames :
        /\ Below(h, f)
        /\ pc[h] = "body" /\ Owner(h) /\ iso[h] = iso[f]

(***************************************************************************)
(* A callback made while its own goroutine holds the isolate always finds  *)
(* the context of that session, at both reads: it is never lost to a nil   *)
(* context and never given a new one, whose lock it could not get.         *)
(***************************************************************************)
CallbackFindsSession ==
    \A f \in Frames : pc[f] \in {"check", "reread"} /\ InsideSession(f) =>
        executionContext[iso[f]] # None

(***************************************************************************)
(* As long as calls inside a session are made with its own context, and on *)
(* its own isolate, no goroutine waits in Sync for an isolate while a      *)
(* frame of its own holds one: reentry joins, so that goroutines wait      *)
(* neither for themselves nor for one another in a circle.  (A second      *)
(* WithContext inside a session is no such call: it waits for the first.)  *)
(***************************************************************************)
NoHoldAndWait ==
    \A f \in Frames : pc[f] = "lock" =>
        \A i \in Isolates : syncMutex[i] # None => syncMutex[i][1] # f[1]

(***************************************************************************)
(* When every goroutine uses a context of its own on one isolate at a time *)
(* and no finalizer or Background goroutine runs, Sync is a lock: code of  *)
(* two goroutines is never inside one isolate at the same time.            *)
(***************************************************************************)
MutualExclusion ==
    \A f, g \in Frames :
        pc[f] \in Inside /\ pc[g] \in Inside /\ iso[f] = iso[g] => f[1] = g[1]

(***************************************************************************)
(* The isolate is entered natively once more while a session runs, however *)
(* many frames joined it, and never otherwise (unless a hook panics).      *)
(***************************************************************************)
EnteredOncePerSession ==
    \A i \in Isolates :
        depth[i] = IF syncMutex[i] # None /\ pc[syncMutex[i]] \in Inside \ {"enter"}
                   THEN 2 ELSE 1

(***************************************************************************)
(* Every releaser added in a session is released exactly once, by the end  *)
(* of that session.                                                        *)
(***************************************************************************)
ReleasedOnce ==
    \A r \in added :
        /\ released[r] <= 1
        /\ released[r] = 0 =>
            \E c \in Contexts : r \in pending[c] /\ entrantMutex[c] # None

\* Every call of Sync returns, unless a nil context ended the process.
EveryCallReturns == \A f \in Frames : (pc[f] # "idle") ~> (pc[f] = "idle" \/ crashed)

(***************************************************************************)
(* Used the same way, Sync implements the reentrant lock: a frame is       *)
(* inside from the time its isolate is entered, or its body starts, until  *)
(* the isolate is exited.                                                  *)
(***************************************************************************)
Monitor == INSTANCE ReentrantMonitor WITH
    Agents <- Goroutines,
    Places <- Isolates,
    MaxNesting <- MaxFrames,
    inside <- [i \in Isolates |-> {f \in Frames : pc[f] \in Inside /\ iso[f] = i}]

ImplementsMonitor == Monitor!Spec
==============================================================================
