---------------------------- MODULE PromisesProofs ----------------------------
(***************************************************************************)
(* No checkpoint is lost and Await answers truly, for any number of hosts  *)
(* and promises, whatever order they are made, settled and awaited in.     *)
(***************************************************************************)
EXTENDS Promises, TLAPS

(* The points of a goroutine that runs microtasks, and those of a worker on its way. *)
Looping == {"loop", "callback", "callbackLock"}
Coming == {"new", "sync", "lock", "body"}
Steps == {"idle", "wait", "end"} \cup Looping \cup Coming

Typed ==
    /\ pc \in [Processes -> Steps]
    /\ promise \in [Promises -> Settled \cup Pending \cup {"none"}]
    /\ microtasks \in Seq(Microtasks)
    /\ task \in Microtasks \cup {None}
    /\ awaits \in [Hosts -> Promises \cup {None}]
    /\ answer \in [Hosts -> Settled \cup {None}]

(* Who runs microtasks is known as the one who does, and is the only one. *)
LoopInv == \A x \in Processes : pc[x] \in Looping => running = x

(* A host awaits while it waits, and only then; a promise is awaited when it was made. *)
AwaitInv ==
    /\ \A h \in Hosts : pc[h] # "wait" => awaits[h] = None
    /\ \A p \in Promises : pc[<<"then", p>>] # "idle" => promise[p] # "none"

(* A reaction is in the queue, or is run, when its promise is settled. *)
InQueue(m, q) == \E n \in 1 .. Len(q) : q[n] = m
Reacts(p) == InQueue(<<"reaction", p>>, microtasks) \/ task = <<"reaction", p>>
ReactionInv == \A p \in Promises : Reacts(p) => promise[p] \in Settled

IInv == Typed /\ LoopInv /\ AwaitInv /\ ReactionInv /\ NoLostCheckpoint

(* What is in a queue after one microtask was added. *)
LEMMA Appended ==
    ASSUME NEW q \in Seq(Microtasks), NEW m \in Microtasks
    PROVE  /\ Append(q, m) \in Seq(Microtasks)
           /\ \A r : InQueue(r, Append(q, m)) => InQueue(r, q) \/ r = m
<1> DEFINE M == Microtasks
<1>1. \A b \in Seq(M), c \in M : Append(b, c) \in Seq(M)
    OBVIOUS
<1>2. Len(Append(q, m)) = Len(q) + 1 /\ Len(q) \in Nat
    OBVIOUS
<1>3. \A n \in 1 .. Len(q) + 1 : IF n = Len(q) + 1 THEN Append(q, m)[n] = m ELSE Append(q, m)[n] = q[n]
    OBVIOUS
<1>4. QED
    BY <1>1, <1>2, <1>3 DEF InQueue

(* A goroutine that starts stays on its way. *)
LEMMA StartIInv ==
    ASSUME IInv, NEW x \in Workers, Start(x)
    PROVE  IInv'
<1> USE NoneAssumption, ProcessAssumption
    DEF IInv, Typed, Start, At, Goto, Jobs, Workers, Processes, Steps,
        Looping, Coming, Settled, Pending, Microtasks, go, js, loop, locks
<1>1. Typed'
    OBVIOUS
<1>2. LoopInv'
    BY DEF LoopInv
<1>3. AwaitInv'
    BY DEF AwaitInv
<1>4. ReactionInv'
    BY DEF ReactionInv, Reacts, InQueue, AwaitInv
<1>5. NoLostCheckpoint'
    BY DEF NoLostCheckpoint, LoopInv
<1>6. QED
    BY <1>1, <1>2, <1>3, <1>4, <1>5

(* So does one that locks its context, or finds it locked. *)
LEMMA LockEntrantIInv ==
    ASSUME IInv, NEW x \in Processes, LockEntrant(x)
    PROVE  IInv'
<1> USE NoneAssumption, ProcessAssumption
    DEF IInv, Typed, LockEntrant, At, Goto, Jobs, Workers, Processes, Steps,
        Looping, Coming, Settled, Pending, Microtasks, go, js, loop, locks
<1>1. Typed'
    OBVIOUS
<1>2. LoopInv'
    BY DEF LoopInv
<1>3. AwaitInv'
    BY DEF AwaitInv
<1>4. ReactionInv'
    BY DEF ReactionInv, Reacts, InQueue, AwaitInv
<1>5. NoLostCheckpoint'
    BY DEF NoLostCheckpoint, LoopInv
<1>6. QED
    BY <1>1, <1>2, <1>3, <1>4, <1>5

(* And one that gets the isolate. *)
LEMMA LockSyncIInv ==
    ASSUME IInv, NEW x \in Processes, LockSync(x)
    PROVE  IInv'
<1> USE NoneAssumption, ProcessAssumption
    DEF IInv, Typed, LockSync, At, Goto, Jobs, Workers, Processes, Steps,
        Looping, Coming, Settled, Pending, Microtasks, go, js, loop, locks
<1>1. Typed'
    OBVIOUS
<1>2. LoopInv'
    BY DEF LoopInv
<1>3. AwaitInv'
    BY DEF AwaitInv
<1>4. ReactionInv'
    BY DEF ReactionInv, Reacts, InQueue, AwaitInv
<1>5. NoLostCheckpoint'
    BY DEF NoLostCheckpoint, LoopInv
<1>6. QED
    BY <1>1, <1>2, <1>3, <1>4, <1>5

(* Only a goroutine that did its work ends its session. *)
LEMMA EndSyncIInv ==
    ASSUME IInv, NEW x \in Processes, EndSync(x)
    PROVE  IInv'
<1> USE NoneAssumption, ProcessAssumption
    DEF IInv, Typed, EndSync, At, Goto, Jobs, Workers, Processes, Steps,
        Looping, Coming, Settled, Pending, Microtasks, go, js, loop, locks
<1>1. Typed'
    OBVIOUS
<1>2. LoopInv'
    BY DEF LoopInv
<1>3. AwaitInv'
    BY DEF AwaitInv
<1>4. ReactionInv'
    BY DEF ReactionInv, Reacts, InQueue, AwaitInv
<1>5. NoLostCheckpoint'
    BY DEF NoLostCheckpoint, LoopInv
<1>6. QED
    BY <1>1, <1>2, <1>3, <1>4, <1>5

(* Microtasks stop being run when there are none. *)
LEMMA EndLoopIInv ==
    ASSUME IInv, NEW x \in Processes, EndLoop(x)
    PROVE  IInv'
<1> USE NoneAssumption, ProcessAssumption
    DEF IInv, Typed, EndLoop, At, Goto, Jobs, Workers, Processes, Steps,
        Looping, Coming, Settled, Pending, Microtasks, go, js, loop, locks
<1>1. Typed'
    OBVIOUS
<1>2. LoopInv'
    BY DEF LoopInv
<1>3. AwaitInv'
    BY DEF AwaitInv
<1>4. ReactionInv'
    BY DEF ReactionInv, Reacts, InQueue, AwaitInv
<1>5. NoLostCheckpoint'
    BY DEF NoLostCheckpoint, LoopInv
<1>6. QED
    BY <1>1, <1>2, <1>3, <1>4, <1>5

(* The microtask that is taken is the one that runs. *)
LEMMA CallbackIInv ==
    ASSUME IInv, NEW x \in Processes, Callback(x)
    PROVE  IInv'
<1> USE NoneAssumption, ProcessAssumption
    DEF IInv, Typed, Callback, At, Goto, Jobs, Workers, Processes, Steps,
        Looping, Coming, Settled, Pending, Microtasks, go, js, loop, locks
<1>1. Typed'
    OBVIOUS
<1>2. LoopInv'
    BY DEF LoopInv
<1>3. AwaitInv'
    BY DEF AwaitInv
<1>4. ReactionInv'
    BY DEF ReactionInv, Reacts, InQueue, AwaitInv
<1>5. NoLostCheckpoint'
    BY DEF NoLostCheckpoint, LoopInv
<1>6. QED
    BY <1>1, <1>2, <1>3, <1>4, <1>5

(* An import settles its promise, and its reaction is a microtask only then. *)
LEMMA ImportIInv ==
    ASSUME IInv, NEW x \in Processes, NEW p \in Promises, pc[x] \in {"callback", "callbackLock"},
           Import(x, p),
           running' = running, task' = None
    PROVE  IInv'
<1> USE NoneAssumption, ProcessAssumption
    DEF IInv, Typed, Import, Settle, Triggered, At, Goto, Jobs, Workers, Processes, Steps,
        Looping, Coming, Settled, Pending, Microtasks, go, js, loop, locks
<1>1. Typed'
    OBVIOUS
<1>2. LoopInv'
    BY DEF LoopInv
<1>3. AwaitInv'
    BY DEF AwaitInv
<1>4. ReactionInv'
  <2>1. microtasks \in Seq(Microtasks) /\ \A r \in Promises : <<"reaction", r>> \in Microtasks
    OBVIOUS
  <2>2. /\ microtasks' = microtasks \/ microtasks' = Append(microtasks, <<"reaction", p>>)
        /\ \A r \in Promises : promise'[r] \in Settled \/ (r # p /\ promise'[r] = promise[r])
        /\ task' = task \/ task' = None
    OBVIOUS
  <2>3. \A r \in Promises : Reacts(r)' => Reacts(r) \/ r = p
    <3> HIDE DEF Import, Resolve, Settle, Triggered, Checkpoint, Microtasks, Settled, Pending, IInv, Typed, Workers, Processes, Jobs, At, Goto, Steps, Looping, Coming
    <3>1. QED
      BY <2>1, <2>2, Appended DEF Reacts
  <2>4. QED
    BY <2>2, <2>3 DEF ReactionInv
<1>5. NoLostCheckpoint'
    BY DEF NoLostCheckpoint, LoopInv
<1>6. QED
    BY <1>1, <1>2, <1>3, <1>4, <1>5

(* The Await that is answered stops waiting. *)
LEMMA ReactIInv ==
    ASSUME IInv, NEW x \in Processes, NEW p \in Promises, pc[x] \in {"callback", "callbackLock"},
           React(x, p),
           running' = running, task' = None
    PROVE  IInv'
<1> USE NoneAssumption, ProcessAssumption
    DEF IInv, Typed, React, At, Goto, Jobs, Workers, Processes, Steps,
        Looping, Coming, Settled, Pending, Microtasks, go, js, loop, locks
<1>1. Typed'
    <2>1. promise[p] \in Settled
        BY DEF ReactionInv, Reacts
    <2>2. QED
        BY <2>1
<1>2. LoopInv'
    BY DEF LoopInv
<1>3. AwaitInv'
    BY DEF AwaitInv
<1>4. ReactionInv'
  <2>1. \A r \in Promises : Reacts(r)' => Reacts(r)
    BY DEF Reacts, InQueue
  <2>2. QED
    BY <2>1 DEF ReactionInv
<1>5. NoLostCheckpoint'
    BY DEF NoLostCheckpoint, LoopInv
<1>6. QED
    BY <1>1, <1>2, <1>3, <1>4, <1>5

(* A Go function that takes a context is still being called. *)
LEMMA CallbackLocksIInv ==
    ASSUME IInv, NEW x \in Processes, CallbackLocks(x)
    PROVE  IInv'
<1> USE NoneAssumption, ProcessAssumption
    DEF IInv, Typed, CallbackLocks, At, Goto, Jobs, Workers, Processes, Steps,
        Looping, Coming, Settled, Pending, Microtasks, go, js, loop, locks
<1>1. Typed'
    OBVIOUS
<1>2. LoopInv'
    BY DEF LoopInv
<1>3. AwaitInv'
    BY DEF AwaitInv
<1>4. ReactionInv'
    BY DEF ReactionInv, Reacts, InQueue, AwaitInv
<1>5. NoLostCheckpoint'
    BY DEF NoLostCheckpoint, LoopInv
<1>6. QED
    BY <1>1, <1>2, <1>3, <1>4, <1>5

(* A promise that is made has no reaction yet. *)
LEMMA RunIInv ==
    ASSUME IInv, NEW h \in Hosts, NEW p \in Promises, Run(h, p)
    PROVE  IInv'
<1> USE NoneAssumption, ProcessAssumption
    DEF IInv, Typed, Run, Checkpoint, Background, At, Goto, Jobs, Workers, Processes, Steps,
        Looping, Coming, Settled, Pending, Microtasks, go, js, loop, locks
<1>1. Typed'
  <2>1. PICK frame \in [Processes -> Steps] :
            /\ \A y \in Processes : frame[y] \in {pc[y], "new"}
            /\ Checkpoint(h, microtasks, frame)
      <3>1. CASE Checkpoint(h, microtasks, pc)
        BY <3>1
      <3>2. CASE Checkpoint(h, microtasks, [pc EXCEPT ![<<"import", p>>] = "new"])
        <4>1. <<"import", p>> \in Processes
          OBVIOUS
        <4> DEFINE f == [pc EXCEPT ![<<"import", p>>] = "new"]
        <4>2. f \in [Processes -> Steps] /\ \A y \in Processes : f[y] \in {pc[y], "new"}
          BY <4>1
        <4>3. Checkpoint(h, microtasks, f)
          BY <3>2
        <4> HIDE DEF f, Checkpoint
        <4>4. QED
          BY <4>2, <4>3
      <3>3. Checkpoint(h, microtasks, pc) \/ Checkpoint(h, microtasks, [pc EXCEPT ![<<"import", p>>] = "new"])
        BY DEF Run, Background
      <3>4. QED
        BY <3>1, <3>2, <3>3
  <2>2. pc' \in [Processes -> Steps]
    BY <2>1
  <2>3. QED
    BY <2>2
<1>2. LoopInv'
  <2>1. PICK frame \in [Processes -> Steps] :
            /\ \A y \in Processes : frame[y] \in {pc[y], "new"}
            /\ Checkpoint(h, microtasks, frame)
      <3>1. CASE Checkpoint(h, microtasks, pc)
        BY <3>1
      <3>2. CASE Checkpoint(h, microtasks, [pc EXCEPT ![<<"import", p>>] = "new"])
        <4>1. <<"import", p>> \in Processes
          OBVIOUS
        <4> DEFINE f == [pc EXCEPT ![<<"import", p>>] = "new"]
        <4>2. f \in [Processes -> Steps] /\ \A y \in Processes : f[y] \in {pc[y], "new"}
          BY <4>1
        <4>3. Checkpoint(h, microtasks, f)
          BY <3>2
        <4> HIDE DEF f, Checkpoint
        <4>4. QED
          BY <4>2, <4>3
      <3>3. Checkpoint(h, microtasks, pc) \/ Checkpoint(h, microtasks, [pc EXCEPT ![<<"import", p>>] = "new"])
        BY DEF Run, Background
      <3>4. QED
        BY <3>1, <3>2, <3>3
  <2>2. QED
    BY <2>1 DEF LoopInv
<1>3. AwaitInv'
    BY DEF AwaitInv
<1>4. ReactionInv'
    BY DEF ReactionInv, Reacts, InQueue, AwaitInv
<1>5. NoLostCheckpoint'
    BY DEF NoLostCheckpoint, LoopInv
<1>6. QED
    BY <1>1, <1>2, <1>3, <1>4, <1>5

(* Nor has one that the program will settle. *)
LEMMA NewResolverIInv ==
    ASSUME IInv, NEW h \in Hosts, NEW p \in Promises, NewResolver(h, p)
    PROVE  IInv'
<1> USE NoneAssumption, ProcessAssumption
    DEF IInv, Typed, NewResolver, At, Goto, Jobs, Workers, Processes, Steps,
        Looping, Coming, Settled, Pending, Microtasks, go, js, loop, locks
<1>1. Typed'
    OBVIOUS
<1>2. LoopInv'
    BY DEF LoopInv
<1>3. AwaitInv'
    BY DEF AwaitInv
<1>4. ReactionInv'
    BY DEF ReactionInv, Reacts, InQueue, AwaitInv
<1>5. NoLostCheckpoint'
    BY DEF NoLostCheckpoint, LoopInv
<1>6. QED
    BY <1>1, <1>2, <1>3, <1>4, <1>5

(* The reactions of a promise are queued when it is settled. *)
LEMMA ResolveIInv ==
    ASSUME IInv, NEW h \in Hosts, NEW p \in Promises, Resolve(h, p)
    PROVE  IInv'
<1> USE NoneAssumption, ProcessAssumption
    DEF IInv, Typed, Resolve, Settle, Triggered, Checkpoint, At, Goto, Jobs, Workers, Processes, Steps,
        Looping, Coming, Settled, Pending, Microtasks, go, js, loop, locks
<1>1. Typed'
    OBVIOUS
<1>2. LoopInv'
    BY DEF LoopInv
<1>3. AwaitInv'
    BY DEF AwaitInv
<1>4. ReactionInv'
  <2>1. microtasks \in Seq(Microtasks) /\ \A r \in Promises : <<"reaction", r>> \in Microtasks
    OBVIOUS
  <2>2. /\ microtasks' = microtasks \/ microtasks' = Append(microtasks, <<"reaction", p>>)
        /\ \A r \in Promises : promise'[r] \in Settled \/ (r # p /\ promise'[r] = promise[r])
        /\ task' = task \/ task' = None
    OBVIOUS
  <2>3. \A r \in Promises : Reacts(r)' => Reacts(r) \/ r = p
    <3> HIDE DEF Import, Resolve, Settle, Triggered, Checkpoint, Microtasks, Settled, Pending, IInv, Typed, Workers, Processes, Jobs, At, Goto, Steps, Looping, Coming
    <3>1. QED
      BY <2>1, <2>2, Appended DEF Reacts
  <2>4. QED
    BY <2>2, <2>3 DEF ReactionInv
<1>5. NoLostCheckpoint'
    BY DEF NoLostCheckpoint, LoopInv
<1>6. QED
    BY <1>1, <1>2, <1>3, <1>4, <1>5

(* Await is called on a promise that exists, by a host that awaits nothing. *)
LEMMA AwaitIInv ==
    ASSUME IInv, NEW h \in Hosts, NEW p \in Promises, Await(h, p)
    PROVE  IInv'
<1> USE NoneAssumption, ProcessAssumption
    DEF IInv, Typed, Await, Background, At, Goto, Jobs, Workers, Processes, Steps,
        Looping, Coming, Settled, Pending, Microtasks, go, js, loop, locks
<1>1. Typed'
    OBVIOUS
<1>2. LoopInv'
    BY DEF LoopInv
<1>3. AwaitInv'
    BY DEF AwaitInv
<1>4. ReactionInv'
    BY DEF ReactionInv, Reacts, InQueue, AwaitInv
<1>5. NoLostCheckpoint'
    BY DEF NoLostCheckpoint, LoopInv
<1>6. QED
    BY <1>1, <1>2, <1>3, <1>4, <1>5

(* The reaction of a settled promise is queued at once, and the call runs it, or
   someone does already. *)
LEMMA CallThenIInv ==
    ASSUME IInv, NEW p \in Promises, CallThen(p)
    PROVE  IInv'
<1> USE NoneAssumption, ProcessAssumption
    DEF IInv, Typed, CallThen, Checkpoint, At, Goto, Jobs, Workers, Processes, Steps,
        Looping, Coming, Settled, Pending, Microtasks, go, js, loop, locks
<1>1. Typed'
  <2>1. <<"reaction", p>> \in Microtasks /\ <<"then", p>> \in Workers
    OBVIOUS
  <2>2. microtasks' \in Seq(Microtasks)
    <3>1. microtasks' = microtasks \/ microtasks' = Append(microtasks, <<"reaction", p>>)
      OBVIOUS
    <3>2. microtasks \in Seq(Microtasks)
      OBVIOUS
    <3> HIDE DEF CallThen, Checkpoint, Microtasks, Settled, Pending, IInv, Typed, Workers, Processes, Jobs, At, Goto, Steps, Looping, Coming
    <3>3. QED
      BY <2>1, <3>1, <3>2, Appended
  <2>3. QED
    BY <2>1, <2>2
<1>2. LoopInv'
  <2>1. <<"then", p>> \in Processes /\ <<"then", p>> \notin Hosts
    OBVIOUS
  <2>2. \E q \in {microtasks, Append(microtasks, <<"reaction", p>>)} : Checkpoint(<<"then", p>>, q, pc)
    BY DEF CallThen
  <2>3. QED
    <3> HIDE DEF CallThen
    <3>1. QED
      BY <2>1, <2>2 DEF LoopInv
<1>3. AwaitInv'
    BY DEF AwaitInv
<1>4. ReactionInv'
  <2>1. microtasks \in Seq(Microtasks) /\ \A r \in Promises : <<"reaction", r>> \in Microtasks
    OBVIOUS
  <2>2. promise[p] # "none"
    BY DEF AwaitInv
  <2>3. \/ microtasks' = microtasks
        \/ promise[p] \in Settled /\ microtasks' = Append(microtasks, <<"reaction", p>>)
    BY <2>2
  <2>4. task' = task /\ promise' = promise
    OBVIOUS
  <2>5. \A r \in Promises : Reacts(r)' => Reacts(r) \/ (r = p /\ promise[p] \in Settled)
    <3> HIDE DEF CallThen, Checkpoint, Microtasks, Settled, Pending, IInv, Typed, Workers, Processes, Jobs, At, Goto, Steps, Looping, Coming
    <3>1. QED
      BY <2>1, <2>3, <2>4, Appended DEF Reacts
  <2>6. QED
    BY <2>4, <2>5 DEF ReactionInv
<1>5. NoLostCheckpoint'
    BY DEF NoLostCheckpoint, LoopInv
<1>6. QED
    BY <1>1, <1>2, <1>3, <1>4, <1>5

(* The microtask of an import comes with a goroutine for a checkpoint. *)
LEMMA AddMicrotaskIInv ==
    ASSUME IInv, NEW p \in Promises, AddMicrotask(p)
    PROVE  IInv'
<1> USE NoneAssumption, ProcessAssumption
    DEF IInv, Typed, AddMicrotask, Background, At, Goto, Jobs, Workers, Processes, Steps,
        Looping, Coming, Settled, Pending, Microtasks, go, js, loop, locks
<1>1. Typed'
  <2>1. <<"import", p>> \in Microtasks /\ <<"import", p>> \in Workers /\ <<"checkpoint", p>> \in Workers
    OBVIOUS
  <2>2. microtasks' \in Seq(Microtasks)
    BY <2>1, Appended
  <2>3. QED
    BY <2>1, <2>2
<1>2. LoopInv'
    BY DEF LoopInv
<1>3. AwaitInv'
    BY DEF AwaitInv
<1>4. ReactionInv'
  <2>1. <<"import", p>> \in Microtasks
    OBVIOUS
  <2>2. \A r \in Promises : Reacts(r)' => Reacts(r)
    BY <2>1, Appended DEF Reacts
  <2>3. QED
    BY <2>2 DEF ReactionInv
<1>5. NoLostCheckpoint'
    BY DEF NoLostCheckpoint, LoopInv
<1>6. QED
    BY <1>1, <1>2, <1>3, <1>4, <1>5

(* After a checkpoint microtasks are run, by this goroutine or by another. *)
LEMMA PerformMicrotaskCheckpointIInv ==
    ASSUME IInv, NEW p \in Promises, PerformMicrotaskCheckpoint(p)
    PROVE  IInv'
<1> USE NoneAssumption, ProcessAssumption
    DEF IInv, Typed, PerformMicrotaskCheckpoint, Checkpoint, At, Goto, Jobs, Workers, Processes, Steps,
        Looping, Coming, Settled, Pending, Microtasks, go, js, loop, locks
<1>1. Typed'
    OBVIOUS
<1>2. LoopInv'
    BY DEF LoopInv
<1>3. AwaitInv'
    BY DEF AwaitInv
<1>4. ReactionInv'
    BY DEF ReactionInv, Reacts, InQueue, AwaitInv
<1>5. NoLostCheckpoint'
    BY DEF NoLostCheckpoint, LoopInv
<1>6. QED
    BY <1>1, <1>2, <1>3, <1>4, <1>5

-----------------------------------------------------------------------------
(* The specification *)

(* No goroutine runs at first. *)
LEMMA InitIInv == Init => IInv
<1> SUFFICES ASSUME Init PROVE IInv
    OBVIOUS
<1> USE NoneAssumption DEF Init, Processes, Workers, Jobs
<1>1. Typed
    BY DEF Typed, Steps, Settled, Pending
<1>2. LoopInv /\ AwaitInv /\ NoLostCheckpoint
    BY DEF LoopInv, AwaitInv, NoLostCheckpoint, Looping
<1>3. ReactionInv
    BY DEF ReactionInv, Reacts, InQueue, Microtasks
<1>4. QED
    BY <1>1, <1>2, <1>3 DEF IInv

(* A Go function that a microtask calls settles a promise or answers an Await,
   in the session it joins or in one of its own. *)
LEMMA BodyIInv ==
    ASSUME IInv, NEW x \in Processes, CallbackJoins(x) \/ CallbackRuns(x)
    PROVE  IInv'
<1>1. /\ pc[x] \in {"callback", "callbackLock"} /\ Body(x)
      /\ running' = running /\ task' = None
    BY DEF CallbackJoins, CallbackRuns, At
<1>2. PICK p \in Promises : Import(x, p) \/ React(x, p)
    BY <1>1 DEF Body
<1>3. QED
    BY <1>1, <1>2, ImportIInv, ReactIInv

(* Every step keeps the invariant. *)
LEMMA NextIInv == IInv /\ [Next]_vars => IInv'
<1> SUFFICES ASSUME IInv, [Next]_vars PROVE IInv'
    OBVIOUS
<1>1. ASSUME NEW h \in Hosts, Host(h) PROVE IInv'
  <2>1. h \in Processes
    BY DEF Processes
  <2>2. QED
    BY <1>1, <2>1, LockEntrantIInv, RunIInv, NewResolverIInv, ResolveIInv, AwaitIInv DEF Host
<1>2. ASSUME NEW x \in Processes, Proceed(x) PROVE IInv'
    BY <1>2, LockSyncIInv, EndSyncIInv, EndLoopIInv, CallbackIInv, CallbackLocksIInv, BodyIInv DEF Proceed, Loop
<1>3. ASSUME NEW w \in Workers, Start(w) \/ LockEntrant(w) PROVE IInv'
  <2>1. w \in Processes
    BY DEF Processes
  <2>2. QED
    BY <1>3, <2>1, StartIInv, LockEntrantIInv
<1>4. ASSUME NEW p \in Promises, Work(p) PROVE IInv'
    BY <1>4, CallThenIInv, AddMicrotaskIInv, PerformMicrotaskCheckpointIInv DEF Work
<1>5. ASSUME UNCHANGED vars PROVE IInv'
    BY <1>5 DEF IInv, Typed, LoopInv, AwaitInv, ReactionInv, Reacts, InQueue, NoLostCheckpoint, vars, go, locks, js, loop
<1>6. QED
    BY <1>1, <1>2, <1>3, <1>4, <1>5 DEF Next, BackgroundWork

(* Every reachable state has the invariant. *)
LEMMA IInvHolds == Spec => []IInv
<1>1. QED
    BY InitIInv, NextIInv, PTL DEF Spec

(* Microtasks are never left in the queue without a goroutine that runs them or
   that comes to: the checkpoints of importModuleDynamicallyCallbackHandler and
   the calls of "then" are enough. *)
THEOREM CheckpointsAreNotLost == Spec => []NoLostCheckpoint
<1>1. IInv => NoLostCheckpoint
    BY DEF IInv
<1>2. QED
    BY IInvHolds, <1>1, PTL

(* What an Await leaves is a promise that was settled, with its value or error. *)
LEMMA Answered ==
    ASSUME IInv, [Next]_vars, NEW h \in Hosts, NEW p \in Promises, Waits(h, p), ~Waits(h, p)'
    PROVE  promise[p] \in Settled /\ answer'[h] = promise[p]
<1>1. awaits[h] = p /\ awaits'[h] # p /\ pc[h] = "wait"
    BY NoneAssumption DEF Waits, IInv, AwaitInv
<1>2. \A x \in Processes, r \in Promises : React(x, r) => promise[p] \in Settled /\ answer'[h] = promise[p]
  <2> SUFFICES ASSUME NEW x \in Processes, NEW r \in Promises, React(x, r)
               PROVE  promise[p] \in Settled /\ answer'[h] = promise[p]
    OBVIOUS
  <2>1. PICK g \in Hosts : /\ awaits[g] = r /\ answer' = [answer EXCEPT ![g] = promise[r]]
                           /\ awaits' = [awaits EXCEPT ![g] = None]
    BY DEF React
  <2>2. g = h /\ r = p
    BY <1>1, <2>1 DEF IInv, Typed
  <2>3. promise[r] \in Settled
    BY DEF React, IInv, ReactionInv, Reacts
  <2>4. QED
    BY <2>1, <2>2, <2>3 DEF IInv, Typed
<1>3. ASSUME NEW g \in Hosts, NEW r \in Promises, Await(g, r) PROVE FALSE
  <2>1. pc[g] = "body" /\ awaits' = [awaits EXCEPT ![g] = r]
    BY <1>3 DEF Await, At
  <2>2. QED
    BY <1>1, <2>1 DEF IInv, Typed
<1>4. awaits' # awaits
    BY <1>1
<1>5. ASSUME NEW g \in Hosts, Host(g) PROVE FALSE
    BY <1>3, <1>4, <1>5 DEF Host, LockEntrant, Run, NewResolver, Resolve, go
<1>6. ASSUME NEW x \in Processes, Proceed(x) PROVE \E r \in Promises : React(x, r)
    BY <1>4, <1>6 DEF Proceed, Loop, LockSync, EndSync, EndLoop, Callback, CallbackJoins, CallbackLocks, CallbackRuns, Body, Import
<1>7. ~BackgroundWork
    BY <1>4 DEF BackgroundWork, Start, LockEntrant, Work, CallThen, AddMicrotask, PerformMicrotaskCheckpoint
<1>8. ~UNCHANGED vars
    BY <1>4 DEF vars, go
<1>9. QED
    BY <1>2, <1>5, <1>6, <1>7, <1>8 DEF Next

(* Value.Await returns only what its promise was settled with, and only after it
   was settled: the reaction it installs is the one that answers it. *)
THEOREM AwaitIsTrue == Spec => AwaitAnswers
<1>1. IInv /\ [Next]_vars =>
        [\A h \in Hosts, p \in Promises :
            Waits(h, p) /\ ~Waits(h, p)' => promise[p] \in Settled /\ answer'[h] = promise[p]]_vars
    BY Answered
<1>2. QED
    BY IInvHolds, <1>1, PTL DEF Spec, AwaitAnswers

(* The variables that the invariant does not need have their types, too. *)
LEMMA TypeStep ==
    ASSUME IInv, TypeOK, [Next]_vars
    PROVE  TypeOK'
<1> DEFINE Rest == /\ ctx \in [Processes -> Contexts \cup {None}]
                   /\ entrantMutex \in [Contexts -> Processes \cup {None}]
                   /\ session \in Processes \cup {None}
                   /\ executionContext \in Contexts \cup {None}
                   /\ reactions \in SUBSET {p \in Promises : promise[p] \in Pending}
                   /\ running \in Processes \cup {None}
                   /\ callbackContext \in Contexts \cup {Fresh, None}
<1>1. SUFFICES Rest'
    <2>1. Typed'
        BY NextIInv DEF IInv
    <2>2. QED
        BY <2>1 DEF Typed, TypeOK, Steps, Looping, Coming
<1>2. Rest /\ promise \in [Promises -> Settled \cup Pending \cup {"none"}]
      /\ Hosts \subseteq Processes /\ Workers \subseteq Processes
    BY DEF TypeOK, Processes
<1>3. ASSUME NEW x \in Processes, LockEntrant(x) \/ LockSync(x) \/ EndSync(x) PROVE Rest'
    BY <1>2, <1>3 DEF LockEntrant, LockSync, EndSync, Contexts, js, loop, locks
<1>4. ASSUME NEW x \in Processes, NEW q, NEW frame, Checkpoint(x, q, frame),
             UNCHANGED <<ctx, locks>>, NEW p \in Promises,
             \/ UNCHANGED <<promise, reactions>>
             \/ UNCHANGED reactions /\ promise[p] \notin Pending /\ \E s : promise' = [promise EXCEPT ![p] = s]
             \/ UNCHANGED promise /\ promise[p] \in Pending /\ reactions' = reactions \cup {p}
             \/ \E s : Settle(p, s)
      PROVE  Rest'
    BY <1>2, <1>4 DEF Checkpoint, Settle, locks
<1>5. ASSUME NEW h \in Hosts, Host(h) PROVE Rest'
    <2>1. "none" \notin Pending
        BY DEF Pending
    <2>2. ASSUME NEW p \in Promises, Run(h, p) \/ Resolve(h, p) PROVE Rest'
        BY <1>2, <1>4, <2>1, <2>2 DEF Run, Resolve, locks
    <2>3. ASSUME NEW p \in Promises, NewResolver(h, p) \/ Await(h, p) PROVE Rest'
        BY <1>2, <2>1, <2>3 DEF NewResolver, Await, go, locks, js, loop
    <2>4. QED
        BY <1>2, <1>3, <1>5, <2>2, <2>3 DEF Host
<1>6. ASSUME NEW x \in Processes, Loop(x) PROVE Rest'
    <2>1. ASSUME Body(x) PROVE /\ UNCHANGED ctx
                              /\ reactions' \in SUBSET {p \in Promises : promise'[p] \in Pending}
        BY <1>2, <2>1 DEF Body, Import, React, Settle, js
    <2>2. CASE EndLoop(x) \/ Callback(x) \/ CallbackLocks(x)
        BY <1>2, <2>2 DEF EndLoop, Callback, CallbackLocks, locks, js, loop
    <2>3. CASE CallbackJoins(x) \/ CallbackRuns(x)
        BY <1>2, <2>1, <2>3 DEF CallbackJoins, CallbackRuns, locks
    <2>4. QED
        BY <1>6, <2>2, <2>3 DEF Loop
<1>7. ASSUME NEW p \in Promises, Work(p) PROVE Rest'
    <2>1. <<"then", p>> \in Processes /\ <<"checkpoint", p>> \in Processes
        BY DEF Processes, Workers, Jobs
    <2>2. CASE CallThen(p) \/ PerformMicrotaskCheckpoint(p)
        BY <1>4, <2>1, <2>2 DEF CallThen, PerformMicrotaskCheckpoint
    <2>3. CASE AddMicrotask(p)
        BY <1>2, <2>3 DEF AddMicrotask, locks, loop
    <2>4. QED
        BY <1>7, <2>2, <2>3 DEF Work
<1>8. ASSUME NEW w \in Workers, Start(w) PROVE Rest'
    BY <1>2, <1>8 DEF Start, Contexts, locks, js, loop
<1>9. CASE UNCHANGED vars
    BY <1>2, <1>9 DEF vars, go, locks, js, loop
<1>10. QED
    BY <1>2, <1>3, <1>5, <1>6, <1>7, <1>8, <1>9 DEF Next, Proceed, BackgroundWork

(***************************************************************************)
(* Contexts, locks and queues hold what the program has; a reaction waits  *)
(* only for a promise that is pending.                                     *)
(***************************************************************************)
THEOREM TypeCorrect == Spec => []TypeOK
<1>1. Init => TypeOK
    <2>1. Init => Typed
        BY InitIInv DEF IInv
    <2>2. QED
        BY <2>1 DEF Init, Typed, TypeOK, Steps, Looping, Coming, Contexts, Processes
<1>2. IInv /\ TypeOK /\ [Next]_vars => TypeOK'
    BY TypeStep
<1>3. QED
    BY <1>1, <1>2, IInvHolds, PTL DEF Spec
==============================================================================
