---------------------------- MODULE IsolatesProofs ----------------------------
(***************************************************************************)
(* The safety of the life of isolates, for any number of goroutines,       *)
(* isolates and contexts, and whoever terminates what and when.            *)
(***************************************************************************)
EXTENDS Isolates, TLAPS

(* The points at which a goroutine works in an isolate, and with one. *)
Busy == {"session", "run", "hooks", "contexts", "dispose", "release", "leave"}
Owning == {"owner"} \cup Busy

(* One goroutine initialises V8, and nobody goes past Initialize before it has. *)
OnceInv ==
    /\ \A g, h \in Goroutines : pc[g] = "doing" /\ pc[h] = "doing" => g = h
    /\ \A g \in Goroutines : pc[g] = "doing" => once = "running"
    /\ once = "done" => initialized = 1
    /\ once # "done" =>
         /\ initialized = 0 /\ starter = "absent"
         /\ \A i \in IsolateIds : pointer[i] = "none"
         /\ \A g \in Goroutines : pc[g] \in {"idle", "initialize", "doing"}

(* A goroutine works with an isolate that was made. *)
MineInv ==
    \A g \in Goroutines :
        /\ pc[g] \in Owning => mine[g] # None
        /\ mine[g] # None => mine[g] \in IsolateIds /\ pointer[mine[g]] # "none"

(* The starter works for one that waits for it, and nobody else has what it made. *)
StarterInv ==
    /\ starter \in {"busy", "answering"} => request \in Goroutines /\ pc[request] = "receive"
    /\ starter = "answering" =>
         /\ made \in IsolateIds /\ pointer[made] # "none"
         /\ \A g \in Goroutines : mine[g] # made

(* A session is that of its goroutine until that goroutine ends it. *)
RunInv == \A g \in Goroutines : pc[g] \in {"session", "run"} => session[mine[g]] = g

(* A goroutine that terminates an isolate has taken it from the references.  If a
   session puts it back, that is the one reference there is when Terminate is through. *)
RefsInv ==
    /\ ~joined =>
        /\ \A i \in IsolateIds : pointer[i] = "nil" => isolateRefs[i] = 0
        /\ \A g \in Goroutines : pc[g] \in {"contexts", "dispose", "release", "leave"} => isolateRefs[mine[g]] = 0
    /\ \A i \in IsolateIds : pointer[i] # "live" /\ isolateRefs[i] > 0 =>
        \/ \E g \in Goroutines : mine[g] = i /\ pc[g] = "release"
        \/ isolateRefs[i] = 1 /\ \E g \in Goroutines : mine[g] = i /\ pc[g] = "run"

(* Without joining, one goroutine at a time works in an isolate. *)
SessionInv ==
    ~joined => \A g \in Goroutines : pc[g] \in Busy => session[mine[g]] = g

(* And then the one that works in it finds it live, or knows its contexts dead; a
   context that an isolate has was made. *)
ContextInv ==
    /\ \A i \in IsolateIds : \A c \in contexts[i] : ctxPointer[c] # "none"
    /\ ~joined =>
        /\ \A g \in Goroutines : pc[g] \in {"session", "run", "hooks", "contexts"} =>
              crashed \/ pointer[mine[g]] = "live"
        /\ \A g \in Goroutines : pc[g] \in {"dispose", "release"} =>
              \A c \in contexts[mine[g]] : ctxPointer[c] # "live"
        /\ \A c \in ContextIds : ctxPointer[c] = "live" =>
              \E i \in IsolateIds : pointer[i] = "live" /\ c \in contexts[i]

IInv == TypeOK /\ OnceInv /\ MineInv /\ StarterInv /\ RunInv /\ RefsInv /\ SessionInv /\ ContextInv

-----------------------------------------------------------------------------
(* Steps *)

(* Every step keeps the types; V8 is initialised once since its goroutine finds once running. *)
LEMMA TypeStep ==
    ASSUME IInv, [Next]_vars
    PROVE  TypeOK'
<1> USE NoneAssumption DEF IInv, TypeOK, At, Goto, Steps, Pointers, startup, native, refs
<1>1. CASE UNCHANGED vars
    BY <1>1 DEF vars
<1>2. ASSUME NEW g \in Goroutines, New(g) PROVE TypeOK'
    <2>1. CASE Ask(g)
        BY <2>1 DEF Ask
    <2>2. CASE BeginInitialize(g)
        BY <2>2 DEF BeginInitialize
    <2>3. CASE EndInitialize(g)
        BY <2>3 DEF EndInitialize, OnceInv
    <2>4. CASE Initialized(g)
        BY <2>4 DEF Initialized
    <2>5. CASE Send(g)
        BY <2>5 DEF Send
    <2>6. CASE Receive(g)
        BY <2>6 DEF Receive, StarterInv
    <2>7. ASSUME NEW i \in IsolateIds, MakeFromSnapshot(g, i) PROVE TypeOK'
        BY <2>7 DEF MakeFromSnapshot, Make
    <2>8. QED
        BY <1>2, <2>1, <2>2, <2>3, <2>4, <2>5, <2>6, <2>7 DEF New
<1>3. ASSUME NEW g \in Goroutines, Use(g) PROVE TypeOK'
    <2>1. CASE TurnTo(g)
        BY <2>1 DEF TurnTo
    <2>2. CASE BeginSession(g)
        BY <2>2 DEF BeginSession, Sync
    <2>3. CASE EndSession(g)
        BY <2>3 DEF EndSession
    <2>4. ASSUME NEW c \in ContextIds, NewContext(g, c) PROVE TypeOK'
        BY <2>4 DEF NewContext
    <2>5. CASE BeginRun(g)
        BY <2>5 DEF BeginRun, MineInv, Owning, Busy
    <2>6. CASE EndRun(g)
        BY <2>6 DEF EndRun, MineInv, Owning, Busy
    <2>7. QED
        BY <1>3, <2>1, <2>2, <2>3, <2>4, <2>5, <2>6 DEF Use
<1>4. ASSUME NEW g \in Goroutines, Terminate(g) PROVE TypeOK'
    <2>1. CASE BeginTerminate(g)
        BY <2>1 DEF BeginTerminate, Sync
    <2>2. CASE JoinToTerminate(g)
        BY <2>2 DEF JoinToTerminate
    <2>3. CASE Unregister(g)
        BY <2>3 DEF Unregister
    <2>4. CASE ReleaseContexts(g)
        BY <2>4 DEF ReleaseContexts
    <2>5. CASE Dispose(g)
        BY <2>5 DEF Dispose
    <2>6. CASE Forget(g)
        BY <2>6 DEF Forget
    <2>7. CASE EndTerminate(g)
        BY <2>7 DEF EndTerminate
    <2>8. QED
        BY <1>4, <2>1, <2>2, <2>3, <2>4, <2>5, <2>6, <2>7 DEF Terminate
<1>5. ASSUME NEW i \in IsolateIds, Start(i) PROVE TypeOK'
    BY <1>5 DEF Start, Make
<1>6. QED
    BY <1>1, <1>2, <1>3, <1>4, <1>5 DEF Next, Starter

(* Only the first to find initOnce new runs the function, and all others wait at it. *)
LEMMA OnceStep ==
    ASSUME IInv, [Next]_vars
    PROVE  OnceInv'
<1> USE NoneAssumption DEF IInv, TypeOK, OnceInv, Steps, At, Goto, Busy, Owning, startup, native, refs
<1>1. CASE UNCHANGED vars
    BY <1>1 DEF vars
<1>2. ASSUME NEW g \in Goroutines, New(g) PROVE OnceInv'
    <2>1. CASE Ask(g)
        BY <2>1 DEF Ask
    <2>2. CASE BeginInitialize(g)
        BY <2>2 DEF BeginInitialize
    <2>3. CASE EndInitialize(g)
        BY <2>3 DEF EndInitialize
    <2>4. CASE Initialized(g)
        BY <2>4 DEF Initialized
    <2>5. CASE Send(g)
        BY <2>5 DEF Send
    <2>6. CASE Receive(g)
        BY <2>6 DEF Receive, StarterInv
    <2>7. ASSUME NEW i \in IsolateIds, MakeFromSnapshot(g, i) PROVE OnceInv'
        BY <2>7 DEF MakeFromSnapshot, Make
    <2>8. QED
        BY <1>2, <2>1, <2>2, <2>3, <2>4, <2>5, <2>6, <2>7 DEF New
<1>3. ASSUME NEW g \in Goroutines, Use(g) PROVE OnceInv'
    <2>1. CASE TurnTo(g)
        BY <2>1 DEF TurnTo
    <2>2. CASE BeginSession(g)
        BY <2>2 DEF BeginSession, Sync
    <2>3. CASE EndSession(g)
        BY <2>3 DEF EndSession
    <2>4. ASSUME NEW c \in ContextIds, NewContext(g, c) PROVE OnceInv'
        BY <2>4 DEF NewContext
    <2>5. CASE BeginRun(g)
        BY <2>5 DEF BeginRun
    <2>6. CASE EndRun(g)
        BY <2>6 DEF EndRun
    <2>7. QED
        BY <1>3, <2>1, <2>2, <2>3, <2>4, <2>5, <2>6 DEF Use
<1>4. ASSUME NEW g \in Goroutines, Terminate(g) PROVE OnceInv'
    <2>1. CASE BeginTerminate(g)
        BY <2>1 DEF BeginTerminate, Sync
    <2>2. CASE JoinToTerminate(g)
        BY <2>2 DEF JoinToTerminate
    <2>3. CASE Unregister(g)
        BY <2>3 DEF Unregister
    <2>4. CASE ReleaseContexts(g)
        BY <2>4 DEF ReleaseContexts
    <2>5. CASE Dispose(g)
        BY <2>5 DEF Dispose
    <2>6. CASE Forget(g)
        BY <2>6 DEF Forget
    <2>7. CASE EndTerminate(g)
        BY <2>7 DEF EndTerminate
    <2>8. QED
        BY <1>4, <2>1, <2>2, <2>3, <2>4, <2>5, <2>6, <2>7 DEF Terminate
<1>5. ASSUME NEW i \in IsolateIds, Start(i) PROVE OnceInv'
    BY <1>5 DEF Start, Make
<1>6. QED
    BY <1>1, <1>2, <1>3, <1>4, <1>5 DEF Next, Starter

(* An isolate that was made is never unmade, so that the one a goroutine has stays made. *)
LEMMA MineStep ==
    ASSUME IInv, [Next]_vars
    PROVE  MineInv'
<1> USE NoneAssumption DEF IInv, TypeOK, MineInv, Steps, At, Goto, Busy, Owning, startup, native, refs
<1>1. CASE UNCHANGED vars
    BY <1>1 DEF vars
<1>2. ASSUME NEW g \in Goroutines, New(g) PROVE MineInv'
    <2>1. CASE Ask(g)
        BY <2>1 DEF Ask
    <2>2. CASE BeginInitialize(g)
        BY <2>2 DEF BeginInitialize
    <2>3. CASE EndInitialize(g)
        BY <2>3 DEF EndInitialize
    <2>4. CASE Initialized(g)
        BY <2>4 DEF Initialized
    <2>5. CASE Send(g)
        BY <2>5 DEF Send
    <2>6. CASE Receive(g)
        BY <2>6 DEF Receive, StarterInv
    <2>7. ASSUME NEW i \in IsolateIds, MakeFromSnapshot(g, i) PROVE MineInv'
        BY <2>7 DEF MakeFromSnapshot, Make
    <2>8. QED
        BY <1>2, <2>1, <2>2, <2>3, <2>4, <2>5, <2>6, <2>7 DEF New
<1>3. ASSUME NEW g \in Goroutines, Use(g) PROVE MineInv'
    <2>1. CASE TurnTo(g)
        BY <2>1 DEF TurnTo
    <2>2. CASE BeginSession(g)
        BY <2>2 DEF BeginSession, Sync
    <2>3. CASE EndSession(g)
        BY <2>3 DEF EndSession
    <2>4. ASSUME NEW c \in ContextIds, NewContext(g, c) PROVE MineInv'
        BY <2>4 DEF NewContext
    <2>5. CASE BeginRun(g)
        BY <2>5 DEF BeginRun
    <2>6. CASE EndRun(g)
        BY <2>6 DEF EndRun
    <2>7. QED
        BY <1>3, <2>1, <2>2, <2>3, <2>4, <2>5, <2>6 DEF Use
<1>4. ASSUME NEW g \in Goroutines, Terminate(g) PROVE MineInv'
    <2>1. CASE BeginTerminate(g)
        BY <2>1 DEF BeginTerminate, Sync
    <2>2. CASE JoinToTerminate(g)
        BY <2>2 DEF JoinToTerminate
    <2>3. CASE Unregister(g)
        BY <2>3 DEF Unregister
    <2>4. CASE ReleaseContexts(g)
        BY <2>4 DEF ReleaseContexts
    <2>5. CASE Dispose(g)
        BY <2>5 DEF Dispose
    <2>6. CASE Forget(g)
        BY <2>6 DEF Forget
    <2>7. CASE EndTerminate(g)
        BY <2>7 DEF EndTerminate
    <2>8. QED
        BY <1>4, <2>1, <2>2, <2>3, <2>4, <2>5, <2>6, <2>7 DEF Terminate
<1>5. ASSUME NEW i \in IsolateIds, Start(i) PROVE MineInv'
    BY <1>5 DEF Start, Make
<1>6. QED
    BY <1>1, <1>2, <1>3, <1>4, <1>5 DEF Next, Starter

(* The one that waits for the starter goes on only with the answer, which leaves the starter idle. *)
LEMMA StarterStep ==
    ASSUME IInv, [Next]_vars
    PROVE  StarterInv'
<1> USE NoneAssumption DEF IInv, TypeOK, StarterInv, MineInv, Steps, At, Goto, Busy, Owning, startup, native, refs
<1>1. CASE UNCHANGED vars
    BY <1>1 DEF vars
<1>2. ASSUME NEW g \in Goroutines, New(g) PROVE StarterInv'
    <2>1. CASE Ask(g)
        BY <2>1 DEF Ask
    <2>2. CASE BeginInitialize(g)
        BY <2>2 DEF BeginInitialize
    <2>3. CASE EndInitialize(g)
        BY <2>3 DEF EndInitialize
    <2>4. CASE Initialized(g)
        BY <2>4 DEF Initialized
    <2>5. CASE Send(g)
        BY <2>5 DEF Send
    <2>6. CASE Receive(g)
        BY <2>6 DEF Receive, StarterInv
    <2>7. ASSUME NEW i \in IsolateIds, MakeFromSnapshot(g, i) PROVE StarterInv'
        BY <2>7 DEF MakeFromSnapshot, Make
    <2>8. QED
        BY <1>2, <2>1, <2>2, <2>3, <2>4, <2>5, <2>6, <2>7 DEF New
<1>3. ASSUME NEW g \in Goroutines, Use(g) PROVE StarterInv'
    <2>1. CASE TurnTo(g)
        BY <2>1 DEF TurnTo
    <2>2. CASE BeginSession(g)
        BY <2>2 DEF BeginSession, Sync
    <2>3. CASE EndSession(g)
        BY <2>3 DEF EndSession
    <2>4. ASSUME NEW c \in ContextIds, NewContext(g, c) PROVE StarterInv'
        BY <2>4 DEF NewContext
    <2>5. CASE BeginRun(g)
        BY <2>5 DEF BeginRun
    <2>6. CASE EndRun(g)
        BY <2>6 DEF EndRun
    <2>7. QED
        BY <1>3, <2>1, <2>2, <2>3, <2>4, <2>5, <2>6 DEF Use
<1>4. ASSUME NEW g \in Goroutines, Terminate(g) PROVE StarterInv'
    <2>1. CASE BeginTerminate(g)
        BY <2>1 DEF BeginTerminate, Sync
    <2>2. CASE JoinToTerminate(g)
        BY <2>2 DEF JoinToTerminate
    <2>3. CASE Unregister(g)
        BY <2>3 DEF Unregister
    <2>4. CASE ReleaseContexts(g)
        BY <2>4 DEF ReleaseContexts
    <2>5. CASE Dispose(g)
        BY <2>5 DEF Dispose
    <2>6. CASE Forget(g)
        BY <2>6 DEF Forget
    <2>7. CASE EndTerminate(g)
        BY <2>7 DEF EndTerminate
    <2>8. QED
        BY <1>4, <2>1, <2>2, <2>3, <2>4, <2>5, <2>6, <2>7 DEF Terminate
<1>5. ASSUME NEW i \in IsolateIds, Start(i) PROVE StarterInv'
    BY <1>5 DEF Start, Make
<1>6. QED
    BY <1>1, <1>2, <1>3, <1>4, <1>5 DEF Next, Starter

(* Without joining, nobody else has a session in which to put back an isolate that Terminate
   took from the references.  With joining a session does, and takes it away again, as
   there is one session at a time. *)
LEMMA RefsStep ==
    ASSUME IInv, [Next]_vars
    PROVE  RefsInv'
<1> USE NoneAssumption DEF IInv, TypeOK, RefsInv, RunInv, SessionInv, ContextInv, MineInv, StarterInv, Steps, At, Goto, Busy, Owning, startup, native, refs
<1>1. CASE UNCHANGED vars
    BY <1>1 DEF vars
<1>2. ASSUME NEW g \in Goroutines, New(g) PROVE RefsInv'
    <2>1. CASE Ask(g)
        BY <2>1 DEF Ask
    <2>2. CASE BeginInitialize(g)
        BY <2>2 DEF BeginInitialize
    <2>3. CASE EndInitialize(g)
        BY <2>3 DEF EndInitialize
    <2>4. CASE Initialized(g)
        BY <2>4 DEF Initialized
    <2>5. CASE Send(g)
        BY <2>5 DEF Send
    <2>6. CASE Receive(g)
        BY <2>6 DEF Receive, StarterInv
    <2>7. ASSUME NEW i \in IsolateIds, MakeFromSnapshot(g, i) PROVE RefsInv'
        BY <2>7 DEF MakeFromSnapshot, Make
    <2>8. QED
        BY <1>2, <2>1, <2>2, <2>3, <2>4, <2>5, <2>6, <2>7 DEF New
<1>3. ASSUME NEW g \in Goroutines, Use(g) PROVE RefsInv'
    <2>1. CASE TurnTo(g)
        BY <2>1 DEF TurnTo
    <2>2. CASE BeginSession(g)
        BY <2>2 DEF BeginSession, Sync
    <2>3. CASE EndSession(g)
        BY <2>3 DEF EndSession
    <2>4. ASSUME NEW c \in ContextIds, NewContext(g, c) PROVE RefsInv'
        BY <2>4 DEF NewContext
    <2>5. CASE BeginRun(g)
        BY <2>5 DEF BeginRun
    <2>6. CASE EndRun(g)
        BY <2>6 DEF EndRun
    <2>7. QED
        BY <1>3, <2>1, <2>2, <2>3, <2>4, <2>5, <2>6 DEF Use
<1>4. ASSUME NEW g \in Goroutines, Terminate(g) PROVE RefsInv'
    <2>1. CASE BeginTerminate(g)
        BY <2>1 DEF BeginTerminate, Sync
    <2>2. CASE JoinToTerminate(g)
        BY <2>2 DEF JoinToTerminate
    <2>3. CASE Unregister(g)
        BY <2>3 DEF Unregister
    <2>4. CASE ReleaseContexts(g)
        BY <2>4 DEF ReleaseContexts
    <2>5. CASE Dispose(g)
        BY <2>5 DEF Dispose
    <2>6. CASE Forget(g)
        BY <2>6 DEF Forget
    <2>7. CASE EndTerminate(g)
        BY <2>7 DEF EndTerminate
    <2>8. QED
        BY <1>4, <2>1, <2>2, <2>3, <2>4, <2>5, <2>6, <2>7 DEF Terminate
<1>5. ASSUME NEW i \in IsolateIds, Start(i) PROVE RefsInv'
    BY <1>5 DEF Start, Make
<1>6. QED
    BY <1>1, <1>2, <1>3, <1>4, <1>5 DEF Next, Starter

(* Only the goroutine of a session ends it. *)
LEMMA RunStep ==
    ASSUME IInv, [Next]_vars
    PROVE  RunInv'
<1> USE NoneAssumption DEF IInv, TypeOK, RunInv, MineInv, Steps, At, Goto, Busy, Owning, startup, native, refs
<1>1. CASE UNCHANGED vars
    BY <1>1 DEF vars
<1>2. ASSUME NEW g \in Goroutines, New(g) PROVE RunInv'
    <2>1. CASE Ask(g)
        BY <2>1 DEF Ask
    <2>2. CASE BeginInitialize(g)
        BY <2>2 DEF BeginInitialize
    <2>3. CASE EndInitialize(g)
        BY <2>3 DEF EndInitialize
    <2>4. CASE Initialized(g)
        BY <2>4 DEF Initialized
    <2>5. CASE Send(g)
        BY <2>5 DEF Send
    <2>6. CASE Receive(g)
        BY <2>6 DEF Receive, StarterInv
    <2>7. ASSUME NEW i \in IsolateIds, MakeFromSnapshot(g, i) PROVE RunInv'
        BY <2>7 DEF MakeFromSnapshot, Make
    <2>8. QED
        BY <1>2, <2>1, <2>2, <2>3, <2>4, <2>5, <2>6, <2>7 DEF New
<1>3. ASSUME NEW g \in Goroutines, Use(g) PROVE RunInv'
    <2>1. CASE TurnTo(g)
        BY <2>1 DEF TurnTo
    <2>2. CASE BeginSession(g)
        BY <2>2 DEF BeginSession, Sync
    <2>3. CASE EndSession(g)
        BY <2>3 DEF EndSession
    <2>4. ASSUME NEW c \in ContextIds, NewContext(g, c) PROVE RunInv'
        BY <2>4 DEF NewContext
    <2>5. CASE BeginRun(g)
        BY <2>5 DEF BeginRun
    <2>6. CASE EndRun(g)
        BY <2>6 DEF EndRun
    <2>7. QED
        BY <1>3, <2>1, <2>2, <2>3, <2>4, <2>5, <2>6 DEF Use
<1>4. ASSUME NEW g \in Goroutines, Terminate(g) PROVE RunInv'
    <2>1. CASE BeginTerminate(g)
        BY <2>1 DEF BeginTerminate, Sync
    <2>2. CASE JoinToTerminate(g)
        BY <2>2 DEF JoinToTerminate
    <2>3. CASE Unregister(g)
        BY <2>3 DEF Unregister
    <2>4. CASE ReleaseContexts(g)
        BY <2>4 DEF ReleaseContexts
    <2>5. CASE Dispose(g)
        BY <2>5 DEF Dispose
    <2>6. CASE Forget(g)
        BY <2>6 DEF Forget
    <2>7. CASE EndTerminate(g)
        BY <2>7 DEF EndTerminate
    <2>8. QED
        BY <1>4, <2>1, <2>2, <2>3, <2>4, <2>5, <2>6, <2>7 DEF Terminate
<1>5. ASSUME NEW i \in IsolateIds, Start(i) PROVE RunInv'
    BY <1>5 DEF Start, Make
<1>6. QED
    BY <1>1, <1>2, <1>3, <1>4, <1>5 DEF Next, Starter

(* A session begins only in an isolate that has none, and a step that ends one is that of its
   goroutine. *)
LEMMA SessionStep ==
    ASSUME IInv, [Next]_vars
    PROVE  SessionInv'
<1> USE NoneAssumption DEF IInv, TypeOK, SessionInv, MineInv, Steps, At, Goto, Busy, Owning, startup, native, refs
<1>1. CASE UNCHANGED vars
    BY <1>1 DEF vars
<1>2. ASSUME NEW g \in Goroutines, New(g) PROVE SessionInv'
    <2>1. CASE Ask(g)
        BY <2>1 DEF Ask
    <2>2. CASE BeginInitialize(g)
        BY <2>2 DEF BeginInitialize
    <2>3. CASE EndInitialize(g)
        BY <2>3 DEF EndInitialize
    <2>4. CASE Initialized(g)
        BY <2>4 DEF Initialized
    <2>5. CASE Send(g)
        BY <2>5 DEF Send
    <2>6. CASE Receive(g)
        BY <2>6 DEF Receive, StarterInv
    <2>7. ASSUME NEW i \in IsolateIds, MakeFromSnapshot(g, i) PROVE SessionInv'
        BY <2>7 DEF MakeFromSnapshot, Make
    <2>8. QED
        BY <1>2, <2>1, <2>2, <2>3, <2>4, <2>5, <2>6, <2>7 DEF New
<1>3. ASSUME NEW g \in Goroutines, Use(g) PROVE SessionInv'
    <2>1. CASE TurnTo(g)
        BY <2>1 DEF TurnTo
    <2>2. CASE BeginSession(g)
        BY <2>2 DEF BeginSession, Sync
    <2>3. CASE EndSession(g)
        BY <2>3 DEF EndSession
    <2>4. ASSUME NEW c \in ContextIds, NewContext(g, c) PROVE SessionInv'
        BY <2>4 DEF NewContext
    <2>5. CASE BeginRun(g)
        BY <2>5 DEF BeginRun
    <2>6. CASE EndRun(g)
        BY <2>6 DEF EndRun
    <2>7. QED
        BY <1>3, <2>1, <2>2, <2>3, <2>4, <2>5, <2>6 DEF Use
<1>4. ASSUME NEW g \in Goroutines, Terminate(g) PROVE SessionInv'
    <2>1. CASE BeginTerminate(g)
        BY <2>1 DEF BeginTerminate, Sync
    <2>2. CASE JoinToTerminate(g)
        BY <2>2 DEF JoinToTerminate
    <2>3. CASE Unregister(g)
        BY <2>3 DEF Unregister
    <2>4. CASE ReleaseContexts(g)
        BY <2>4 DEF ReleaseContexts
    <2>5. CASE Dispose(g)
        BY <2>5 DEF Dispose
    <2>6. CASE Forget(g)
        BY <2>6 DEF Forget
    <2>7. CASE EndTerminate(g)
        BY <2>7 DEF EndTerminate
    <2>8. QED
        BY <1>4, <2>1, <2>2, <2>3, <2>4, <2>5, <2>6, <2>7 DEF Terminate
<1>5. ASSUME NEW i \in IsolateIds, Start(i) PROVE SessionInv'
    BY <1>5 DEF Start, Make
<1>6. QED
    BY <1>1, <1>2, <1>3, <1>4, <1>5 DEF Next, Starter

(* A context is made by the one goroutine that works in its isolate, which is then not the one
   that has released the contexts and disposes of the isolate. *)
LEMMA ContextStep ==
    ASSUME IInv, [Next]_vars
    PROVE  ContextInv'
<1> USE NoneAssumption DEF IInv, TypeOK, ContextInv, SessionInv, MineInv, StarterInv, Steps, At, Goto, Busy, Owning, startup, native, refs
<1>1. CASE UNCHANGED vars
    BY <1>1 DEF vars
<1>2. ASSUME NEW g \in Goroutines, New(g) PROVE ContextInv'
    <2>1. CASE Ask(g)
        BY <2>1 DEF Ask
    <2>2. CASE BeginInitialize(g)
        BY <2>2 DEF BeginInitialize
    <2>3. CASE EndInitialize(g)
        BY <2>3 DEF EndInitialize
    <2>4. CASE Initialized(g)
        BY <2>4 DEF Initialized
    <2>5. CASE Send(g)
        BY <2>5 DEF Send
    <2>6. CASE Receive(g)
        BY <2>6 DEF Receive, StarterInv
    <2>7. ASSUME NEW i \in IsolateIds, MakeFromSnapshot(g, i) PROVE ContextInv'
        BY <2>7 DEF MakeFromSnapshot, Make
    <2>8. QED
        BY <1>2, <2>1, <2>2, <2>3, <2>4, <2>5, <2>6, <2>7 DEF New
<1>3. ASSUME NEW g \in Goroutines, Use(g) PROVE ContextInv'
    <2>1. CASE TurnTo(g)
        BY <2>1 DEF TurnTo
    <2>2. CASE BeginSession(g)
        <3>1. UNCHANGED <<pointer, contexts, ctxPointer, mine, joined>>
            BY <2>2 DEF BeginSession
        <3>2. mine[g] \in IsolateIds /\ pointer[mine[g]] \in {"live", "nil"}
            BY <2>2 DEF BeginSession, Pointers
        <3>3. crashed' = (pointer[mine[g]] = "nil") /\ ~crashed
            BY <2>2 DEF BeginSession, Sync
        <3>4. pc'[g] = "session" /\ \A h \in Goroutines \ {g} : pc'[h] = pc[h]
            BY <2>2 DEF BeginSession, Sync
        <3>5. \A i \in IsolateIds : \A c \in contexts[i] : ctxPointer[c] # "none"
            OBVIOUS
        <3>6. ASSUME ~joined, NEW h \in Goroutines, pc'[h] \in {"session", "run", "hooks", "contexts"}
              PROVE  crashed' \/ pointer[mine[h]] = "live"
            <4>1. CASE h = g
                BY <3>2, <3>3, <4>1
            <4>2. CASE h # g
                BY <3>3, <3>4, <3>6, <4>2
            <4>3. QED
                BY <4>1, <4>2
        <3>7. ASSUME ~joined, NEW h \in Goroutines, pc'[h] \in {"dispose", "release"}, NEW c \in contexts[mine[h]]
              PROVE  ctxPointer[c] # "live"
            <4>1. h # g
                BY <3>4, <3>7
            <4>2. QED
                BY <3>4, <3>7, <4>1
        <3>8. ASSUME ~joined, NEW c \in ContextIds, ctxPointer[c] = "live"
              PROVE  \E i \in IsolateIds : pointer[i] = "live" /\ c \in contexts[i]
            BY <3>8
        <3>9. QED
            BY <3>1, <3>5, <3>6, <3>7, <3>8
    <2>3. CASE EndSession(g)
        BY <2>3 DEF EndSession
    <2>4. ASSUME NEW c \in ContextIds, NewContext(g, c) PROVE ContextInv'
        <3>1. /\ UNCHANGED <<pc, mine, pointer, session, joined>> /\ ~crashed
              /\ mine[g] \in IsolateIds /\ pc[g] = "session" /\ ctxPointer[c] = "none"
              /\ ctxPointer' = [ctxPointer EXCEPT ![c] = "live"]
              /\ contexts' = [contexts EXCEPT ![mine[g]] = @ \cup {c}]
            BY <2>4 DEF NewContext
        <3>2. \A i \in IsolateIds : contexts[i] \subseteq contexts'[i] /\ contexts'[i] \subseteq contexts[i] \cup {c}
            BY <3>1
        <3>3. \A d \in ContextIds \ {c} : ctxPointer'[d] = ctxPointer[d]
            BY <3>1
        <3>4. \A i \in IsolateIds : \A d \in contexts'[i] : ctxPointer'[d] # "none"
            BY <3>1, <3>2, <3>3
        <3>5. ASSUME ~joined, NEW h \in Goroutines, pc[h] \in {"dispose", "release"}, NEW d \in contexts'[mine[h]]
              PROVE  ctxPointer'[d] # "live"
            <4>1. mine[h] # mine[g] /\ mine[h] \in IsolateIds
                BY <3>1, <3>5
            <4>2. d \in contexts[mine[h]]
                BY <3>1, <4>1
            <4>3. d # c
                BY <3>1, <4>1, <4>2
            <4>4. QED
                BY <3>3, <3>5, <4>1, <4>2, <4>3
        <3>6. ASSUME ~joined, NEW d \in ContextIds, ctxPointer'[d] = "live"
              PROVE  \E i \in IsolateIds : pointer[i] = "live" /\ d \in contexts'[i]
            <4>1. CASE d = c
                BY <3>1, <3>6, <4>1
            <4>2. CASE d # c
                BY <3>2, <3>3, <3>6, <4>2
            <4>3. QED
                BY <4>1, <4>2
        <3>7. \A h \in Goroutines : ~joined /\ pc[h] \in {"session", "run", "hooks", "contexts"} => pointer[mine[h]] = "live"
            BY <3>1
        <3>8. QED
            BY <3>1, <3>4, <3>5, <3>6, <3>7
    <2>5. CASE BeginRun(g)
        BY <2>5 DEF BeginRun
    <2>6. CASE EndRun(g)
        BY <2>6 DEF EndRun
    <2>7. QED
        BY <1>3, <2>1, <2>2, <2>3, <2>4, <2>5, <2>6 DEF Use
<1>4. ASSUME NEW g \in Goroutines, Terminate(g) PROVE ContextInv'
    <2>1. CASE BeginTerminate(g)
        <3>1. UNCHANGED <<pointer, contexts, ctxPointer, mine, joined>>
            BY <2>1 DEF BeginTerminate
        <3>2. mine[g] \in IsolateIds /\ pointer[mine[g]] \in {"live", "nil"}
            BY <2>1 DEF BeginTerminate, Pointers
        <3>3. crashed' = (pointer[mine[g]] = "nil") /\ ~crashed
            BY <2>1 DEF BeginTerminate, Sync
        <3>4. pc'[g] = "hooks" /\ \A h \in Goroutines \ {g} : pc'[h] = pc[h]
            BY <2>1 DEF BeginTerminate, Sync
        <3>5. \A i \in IsolateIds : \A c \in contexts[i] : ctxPointer[c] # "none"
            OBVIOUS
        <3>6. ASSUME ~joined, NEW h \in Goroutines, pc'[h] \in {"session", "run", "hooks", "contexts"}
              PROVE  crashed' \/ pointer[mine[h]] = "live"
            <4>1. CASE h = g
                BY <3>2, <3>3, <4>1
            <4>2. CASE h # g
                BY <3>3, <3>4, <3>6, <4>2
            <4>3. QED
                BY <4>1, <4>2
        <3>7. ASSUME ~joined, NEW h \in Goroutines, pc'[h] \in {"dispose", "release"}, NEW c \in contexts[mine[h]]
              PROVE  ctxPointer[c] # "live"
            <4>1. h # g
                BY <3>4, <3>7
            <4>2. QED
                BY <3>4, <3>7, <4>1
        <3>8. ASSUME ~joined, NEW c \in ContextIds, ctxPointer[c] = "live"
              PROVE  \E i \in IsolateIds : pointer[i] = "live" /\ c \in contexts[i]
            BY <3>8
        <3>9. QED
            BY <3>1, <3>5, <3>6, <3>7, <3>8
    <2>2. CASE JoinToTerminate(g)
        BY <2>2 DEF JoinToTerminate
    <2>3. CASE Unregister(g)
        BY <2>3 DEF Unregister
    <2>4. CASE ReleaseContexts(g)
        BY <2>4 DEF ReleaseContexts
    <2>5. CASE Dispose(g)
        BY <2>5 DEF Dispose
    <2>6. CASE Forget(g)
        BY <2>6 DEF Forget
    <2>7. CASE EndTerminate(g)
        BY <2>7 DEF EndTerminate
    <2>8. QED
        BY <1>4, <2>1, <2>2, <2>3, <2>4, <2>5, <2>6, <2>7 DEF Terminate
<1>5. ASSUME NEW i \in IsolateIds, Start(i) PROVE ContextInv'
    BY <1>5 DEF Start, Make
<1>6. QED
    BY <1>1, <1>2, <1>3, <1>4, <1>5 DEF Next, Starter

-----------------------------------------------------------------------------
(* Theorems *)

(* Before anything is called the invariant holds. *)
LEMMA InitIInv == Init => IInv
<1> SUFFICES ASSUME Init PROVE IInv
    OBVIOUS
<1>1. TypeOK
    <2>1. initialized \in 0 .. 1 /\ made \in IsolateIds \cup {None} /\ request \in Goroutines \cup {None}
        BY DEF Init
    <2>2. pc \in [Goroutines -> Steps] /\ pointer \in [IsolateIds -> Pointers] /\ ctxPointer \in [ContextIds -> Pointers]
        BY DEF Init, Steps, Pointers
    <2>3. contexts \in [IsolateIds -> SUBSET ContextIds] /\ isolateRefs \in [IsolateIds -> Nat] /\ isolateOf \in [ContextIds -> IsolateIds \cup {None}]
        BY DEF Init
    <2>4. mine \in [Goroutines -> IsolateIds \cup {None}] /\ session \in [IsolateIds -> Goroutines \cup {None}]
        BY DEF Init
    <2>5. QED
        BY <2>1, <2>2, <2>3, <2>4 DEF Init, TypeOK
<1>2. OnceInv /\ MineInv /\ StarterInv
    BY DEF Init, OnceInv, MineInv, StarterInv, Owning, Busy
<1>3. RunInv /\ RefsInv /\ SessionInv
    BY DEF Init, RefsInv, SessionInv, Busy, RunInv
<1>4. ContextInv
    BY DEF Init, ContextInv
<1>5. QED
    BY <1>1, <1>2, <1>3, <1>4 DEF IInv

(* It is kept by every step, so it always holds. *)
LEMMA Invariance == Spec => []IInv
<1>1. IInv /\ [Next]_vars => IInv'
    BY TypeStep, OnceStep, MineStep, StarterStep, RunStep, RefsStep, SessionStep, ContextStep DEF IInv
<1>2. QED
    BY <1>1, InitIInv, PTL DEF Spec

(***************************************************************************)
(* No isolate exists before V8 is initialised, however many goroutines ask *)
(* for their first isolate at the same time, and V8 is initialised once.   *)
(***************************************************************************)
THEOREM V8ComesFirst == Spec => []InitializedFirst
<1>1. IInv => InitializedFirst
    BY DEF IInv, OnceInv, TypeOK, InitializedFirst, Isolates
<1>2. QED
    BY <1>1, Invariance, PTL

(***************************************************************************)
(* The isolate that the starter made is given to the caller that waits for *)
(* it and is known to nobody else until then.                              *)
(***************************************************************************)
THEOREM AnswersFindTheirCaller == Spec => []StarterAnswersItsCaller
<1>1. IInv => StarterAnswersItsCaller
    BY DEF IInv, StarterInv, StarterAnswersItsCaller
<1>2. QED
    BY <1>1, Invariance, PTL

(***************************************************************************)
(* As long as no Terminate joins a session, no context outlives its        *)
(* isolate: the isolate of a native context is there, and knows it.        *)
(***************************************************************************)
THEOREM ContextsHaveIsolates == Spec => []ContextsDieFirst
<1>1. IInv => ContextsDieFirst
    BY DEF IInv, ContextInv, ContextsDieFirst
<1>2. QED
    BY <1>1, Invariance, PTL

(***************************************************************************)
(* A callback finds no isolate that was disposed, as long as no Terminate  *)
(* joins a session; and if one does, the references that the session takes *)
(* again do not outlast the call of Run, NewFunctionTemplate or            *)
(* SetAccessor that took them.                                             *)
(***************************************************************************)
THEOREM ReferencesAreLive == Spec => []FoundIsLive
<1>1. IInv => FoundIsLive
    BY NoneAssumption DEF IInv, TypeOK, Pointers, MineInv, RefsInv, FoundIsLive
<1>2. QED
    BY <1>1, Invariance, PTL

(***************************************************************************)
(* Isolates, contexts and the goroutines that use them are what the        *)
(* program has, whatever it terminates while it is in use.                 *)
(***************************************************************************)
THEOREM TypeCorrect == Spec => []TypeOK
<1>1. IInv => TypeOK
    BY DEF IInv
<1>2. QED
    BY <1>1, Invariance, PTL
=============================================================================
