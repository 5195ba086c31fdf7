--------------------------- MODULE ExecutionProofs ---------------------------
(* Proofs about Execution, for any sets of isolates, goroutines and         *)
(* contexts and any bounds.                                                 *)
EXTENDS Execution, TLAPS

IInv == TypeOK /\ SessionInv

\* The frame a call is made in is a frame, and the next one of the goroutine.
LEMMA CalleeIsFrame ==
    ASSUME NEW f \in Frames, f[2] < MaxFrames
    PROVE  Callee(f) \in Frames
BY BoundsAssumption DEF Frames, Callee

\* What a frame is made of.
LEMMA FrameFacts ==
    ASSUME NEW f \in Frames
    PROVE  /\ f = <<f[1], f[2]>>
           /\ f[1] \in Goroutines
           /\ f[2] \in 1 .. MaxFrames
           /\ f[2] \in Int
BY BoundsAssumption DEF Frames

\* The frame above f is the next one: nothing is between f and Callee(f).
LEMMA CalleeFacts ==
    ASSUME NEW f \in Frames, NEW g \in Frames, Below(f, g)
    PROVE  /\ f[2] < MaxFrames
           /\ g = Callee(f) \/ Below(Callee(f), g)
BY FrameFacts, BoundsAssumption DEF Below, Callee

\* The invariant holds initially.
LEMMA TypeInit == Init => IInv
<1> SUFFICES ASSUME Init PROVE IInv
  OBVIOUS
<1>1. TypeOK
  <2>1. crashed \in BOOLEAN
    BY DEF Init
  <2>2. /\ added \in SUBSET Releasers
        /\ pending \in [Contexts -> SUBSET Releasers]
        /\ released \in [Releasers -> 0 .. 2]
    BY DEF Init
  <2>3. /\ pc \in [Frames -> PCs]
        /\ ctx \in [Frames -> Contexts \cup {None}]
        /\ iso \in [Frames -> Isolates \cup {None}]
    BY DEF Init, PCs
  <2> QED BY <2>1, <2>2, <2>3 DEF Init, TypeOK
<1>2. SessionInv
  BY NoneAssumption DEF Init, SessionInv, FrameInv, EntrantInv, SyncInv, PublishInv, DepthInv,
     StackInv, Owner, Owning, Locked, Published, Inside
<1> QED BY <1>1, <1>2 DEF IInv

\* A call of any kind preserves the invariant.
LEMMA CallPreserves ==
    ASSUME IInv, NEW f \in Frames,
           \A g \in Frames : Below(g, f) => pc[g] \in {"body", "outside"},
           NEW i \in Isolates, NEW c \in Contexts \cup {None},
           NEW label \in {"check", "tryLock"}, label = "check" <=> c = None,
           Call(f, c, i, label)
    PROVE  IInv'
<1> USE NoneAssumption
   DEF IInv, SessionInv, Call, Goto, locks, releasing, Owning, Locked, Published, Inside
<1>1. TypeOK'
  BY DEF TypeOK, PCs
<1>2. FrameInv'
  BY DEF TypeOK, FrameInv
<1>3. EntrantInv'
  BY DEF TypeOK, EntrantInv, FrameInv
<1>4. SyncInv'
  BY DEF TypeOK, SyncInv, Owner, FrameInv
<1>5. PublishInv'
  BY DEF TypeOK, SyncInv, Owner, FrameInv, PublishInv
<1>6. DepthInv'
  BY DEF TypeOK, SyncInv, Owner, FrameInv, DepthInv
<1>7. StackInv'
  BY FrameFacts DEF TypeOK, StackInv, Below
<1> QED BY <1>1, <1>2, <1>3, <1>4, <1>5, <1>6, <1>7

\* A frame that moves on has no active frame above it.
LEMMA StackMoves ==
    ASSUME TypeOK, StackInv, NEW f \in Frames, NEW label \in PCs,
           Goto(f, label), pc[f] # "idle",
           pc[f] \in {"body", "outside"} => OnTop(f)
    PROVE  StackInv'
<1> SUFFICES ASSUME NEW h \in Frames, NEW g \in Frames, Below(h, g), pc'[g] # "idle"
             PROVE  pc'[h] \in {"body", "outside"}
  BY DEF StackInv, Below
<1>1. h # g
  BY FrameFacts DEF Below
<1>2. pc[g] # "idle" /\ pc[h] \in {"body", "outside"}
  BY DEF TypeOK, StackInv, Goto
<1>3. h # f
  <2> SUFFICES ASSUME h = f PROVE FALSE
    OBVIOUS
  <2>1. f[2] < MaxFrames /\ pc[Callee(f)] = "idle" /\ Callee(f) \in Frames
    BY <1>2, CalleeFacts, CalleeIsFrame DEF OnTop
  <2>2. Below(Callee(f), g)
    BY <1>2, <2>1, CalleeFacts
  <2> QED BY <1>2, <2>1, <2>2 DEF StackInv
<1> QED BY <1>2, <1>3 DEF TypeOK, Goto

\* When the body of f makes a call, f and all frames below it wait.
LEMMA CallersWait ==
    ASSUME TypeOK, StackInv, NEW f \in Frames, pc[f] \in {"body", "outside"},
           NEW g \in Frames, Below(g, Callee(f))
    PROVE  pc[g] \in {"body", "outside"}
<1>1. g = f \/ Below(g, f)
  BY FrameFacts DEF Below, Callee
<1> QED BY <1>1 DEF StackInv

\* Every other step of a frame preserves it, one action at a time.
LEMMA StepPreserves ==
    ASSUME IInv, NEW f \in Frames, Step(f)
    PROVE  IInv'
<1> USE NoneAssumption
   DEF IInv, SessionInv, Goto, locks, releasing, Owning, Locked, Published, Inside, Owner
<1>1. CASE MakeContext(f)
  <2>1. TypeOK'
    BY <1>1 DEF TypeOK, PCs, FrameInv, DepthInv, SyncInv, EntrantInv, MakeContext, MoveOn, Unused
  <2>2. FrameInv' /\ EntrantInv' /\ SyncInv'
    BY <1>1 DEF TypeOK, FrameInv, EntrantInv, SyncInv, PublishInv, MakeContext, MoveOn, Unused
  <2>3. PublishInv' /\ DepthInv'
    BY <1>1
       DEF TypeOK, FrameInv, EntrantInv, SyncInv, PublishInv, DepthInv, MakeContext, MoveOn,
           Unused
  <2>4. StackInv'
    BY <1>1, StackMoves DEF PCs, MakeContext, MoveOn
  <2> QED BY <2>1, <2>2, <2>3, <2>4
<1>2. CASE SeeContext(f)
  <2>1. TypeOK'
    BY <1>2 DEF TypeOK, PCs, FrameInv, DepthInv, SyncInv, EntrantInv, SeeContext
  <2>2. FrameInv' /\ EntrantInv' /\ SyncInv'
    BY <1>2 DEF TypeOK, FrameInv, EntrantInv, SyncInv, PublishInv, SeeContext
  <2>3. PublishInv' /\ DepthInv'
    BY <1>2 DEF TypeOK, FrameInv, EntrantInv, SyncInv, PublishInv, DepthInv, SeeContext
  <2>4. StackInv'
    BY <1>2, StackMoves DEF PCs, SeeContext
  <2> QED BY <2>1, <2>2, <2>3, <2>4
<1>3. CASE TakeContext(f)
  <2>1. TypeOK'
    BY <1>3 DEF TypeOK, PCs, FrameInv, DepthInv, SyncInv, EntrantInv, TakeContext, MoveOn
  <2>2. FrameInv' /\ EntrantInv' /\ SyncInv'
    BY <1>3 DEF TypeOK, FrameInv, EntrantInv, SyncInv, PublishInv, TakeContext, MoveOn
  <2>3. PublishInv' /\ DepthInv'
    BY <1>3 DEF TypeOK, FrameInv, EntrantInv, SyncInv, PublishInv, DepthInv, TakeContext, MoveOn
  <2>4. StackInv'
    BY <1>3, StackMoves DEF PCs, TakeContext, MoveOn
  <2> QED BY <2>1, <2>2, <2>3, <2>4
<1>4. CASE NilContext(f)
  <2>1. TypeOK'
    BY <1>4 DEF TypeOK, PCs, FrameInv, DepthInv, SyncInv, EntrantInv, NilContext, Leave
  <2>2. FrameInv' /\ EntrantInv' /\ SyncInv'
    BY <1>4 DEF TypeOK, FrameInv, EntrantInv, SyncInv, PublishInv, NilContext, Leave
  <2>3. PublishInv' /\ DepthInv'
    BY <1>4 DEF TypeOK, FrameInv, EntrantInv, SyncInv, PublishInv, DepthInv, NilContext, Leave
  <2>4. StackInv'
    BY <1>4, StackMoves DEF PCs, NilContext, Leave
  <2> QED BY <2>1, <2>2, <2>3, <2>4
<1>5. CASE EndBackground(f)
  <2>1. TypeOK'
    BY <1>5 DEF TypeOK, PCs, FrameInv, DepthInv, SyncInv, EntrantInv, EndBackground, Leave, OnTop
  <2>2. FrameInv' /\ EntrantInv' /\ SyncInv'
    BY <1>5 DEF TypeOK, FrameInv, EntrantInv, SyncInv, PublishInv, EndBackground, Leave, OnTop
  <2>3. PublishInv' /\ DepthInv'
    BY <1>5
       DEF TypeOK, FrameInv, EntrantInv, SyncInv, PublishInv, DepthInv, EndBackground, Leave,
           OnTop
  <2>4. StackInv'
    BY <1>5, StackMoves DEF PCs, EndBackground, Leave
  <2> QED BY <2>1, <2>2, <2>3, <2>4
<1>6. CASE LockEntrant(f)
  <2>1. TypeOK'
    BY <1>6 DEF TypeOK, PCs, FrameInv, DepthInv, SyncInv, EntrantInv, LockEntrant
  <2>2. FrameInv' /\ EntrantInv' /\ SyncInv'
    BY <1>6 DEF TypeOK, FrameInv, EntrantInv, SyncInv, PublishInv, LockEntrant
  <2>3. PublishInv' /\ DepthInv'
    BY <1>6 DEF TypeOK, FrameInv, EntrantInv, SyncInv, PublishInv, DepthInv, LockEntrant
  <2>4. StackInv'
    BY <1>6, StackMoves DEF PCs, LockEntrant
  <2> QED BY <2>1, <2>2, <2>3, <2>4
<1>7. CASE Join(f)
  <2>1. TypeOK'
    BY <1>7 DEF TypeOK, PCs, FrameInv, DepthInv, SyncInv, EntrantInv, Join
  <2>2. FrameInv' /\ EntrantInv' /\ SyncInv'
    BY <1>7 DEF TypeOK, FrameInv, EntrantInv, SyncInv, PublishInv, Join
  <2>3. PublishInv' /\ DepthInv'
    BY <1>7 DEF TypeOK, FrameInv, EntrantInv, SyncInv, PublishInv, DepthInv, Join
  <2>4. StackInv'
    BY <1>7, StackMoves DEF PCs, Join
  <2> QED BY <2>1, <2>2, <2>3, <2>4
<1>8. CASE LockSync(f)
  <2>1. TypeOK'
    BY <1>8 DEF TypeOK, PCs, FrameInv, DepthInv, SyncInv, EntrantInv, LockSync
  <2>2. FrameInv' /\ EntrantInv' /\ SyncInv'
    BY <1>8 DEF TypeOK, FrameInv, EntrantInv, SyncInv, PublishInv, LockSync
  <2>3. PublishInv' /\ DepthInv'
    BY <1>8 DEF TypeOK, FrameInv, EntrantInv, SyncInv, PublishInv, DepthInv, LockSync
  <2>4. StackInv'
    BY <1>8, StackMoves DEF PCs, LockSync
  <2> QED BY <2>1, <2>2, <2>3, <2>4
<1>9. CASE Publish(f)
  <2>1. TypeOK'
    BY <1>9 DEF TypeOK, PCs, FrameInv, DepthInv, SyncInv, EntrantInv, Publish
  <2>2. FrameInv' /\ EntrantInv' /\ SyncInv'
    BY <1>9 DEF TypeOK, FrameInv, EntrantInv, SyncInv, PublishInv, Publish
  <2>3. PublishInv' /\ DepthInv'
    BY <1>9 DEF TypeOK, FrameInv, EntrantInv, SyncInv, PublishInv, DepthInv, Publish
  <2>4. StackInv'
    BY <1>9, StackMoves DEF PCs, Publish
  <2> QED BY <2>1, <2>2, <2>3, <2>4
<1>10. CASE Enter(f)
  <2>1. TypeOK'
    BY <1>10 DEF TypeOK, PCs, FrameInv, DepthInv, SyncInv, EntrantInv, Enter
  <2>2. FrameInv' /\ EntrantInv' /\ SyncInv'
    BY <1>10 DEF TypeOK, FrameInv, EntrantInv, SyncInv, PublishInv, Enter
  <2>3. PublishInv' /\ DepthInv'
    BY <1>10 DEF TypeOK, FrameInv, EntrantInv, SyncInv, PublishInv, DepthInv, Enter
  <2>4. StackInv'
    BY <1>10, StackMoves DEF PCs, Enter
  <2> QED BY <2>1, <2>2, <2>3, <2>4
<1>11. CASE EnterPanics(f)
  <2>1. TypeOK'
    BY <1>11 DEF TypeOK, PCs, FrameInv, DepthInv, SyncInv, EntrantInv, EnterPanics
  <2>2. FrameInv' /\ EntrantInv' /\ SyncInv'
    BY <1>11 DEF TypeOK, FrameInv, EntrantInv, SyncInv, PublishInv, EnterPanics
  <2>3. PublishInv' /\ DepthInv'
    BY <1>11 DEF TypeOK, FrameInv, EntrantInv, SyncInv, PublishInv, DepthInv, EnterPanics
  <2>4. StackInv'
    BY <1>11, StackMoves DEF PCs, EnterPanics
  <2> QED BY <2>1, <2>2, <2>3, <2>4
<1>12. CASE AddReleaser(f)
  <2>1. TypeOK'
    BY <1>12
       DEF TypeOK, PCs, FrameInv, DepthInv, SyncInv, EntrantInv, AddReleaser, Running, OnTop,
           frames
  <2>2. FrameInv' /\ EntrantInv' /\ SyncInv'
    BY <1>12
       DEF TypeOK, FrameInv, EntrantInv, SyncInv, PublishInv, AddReleaser, Running, OnTop,
           frames
  <2>3. PublishInv' /\ DepthInv'
    BY <1>12
       DEF TypeOK, FrameInv, EntrantInv, SyncInv, PublishInv, DepthInv, AddReleaser, Running,
           OnTop, frames
  <2>4. StackInv'
    BY <1>12 DEF StackInv, Below, AddReleaser, frames
  <2> QED BY <2>1, <2>2, <2>3, <2>4
<1>13. CASE Return(f)
  <2>1. TypeOK'
    BY <1>13
       DEF TypeOK, PCs, FrameInv, DepthInv, SyncInv, EntrantInv, Return, Leave, Running,
           OnTop
  <2>2. FrameInv' /\ EntrantInv' /\ SyncInv'
    BY <1>13 DEF TypeOK, FrameInv, EntrantInv, SyncInv, PublishInv, Return, Leave, Running, OnTop
  <2>3. PublishInv' /\ DepthInv'
    BY <1>13
       DEF TypeOK, FrameInv, EntrantInv, SyncInv, PublishInv, DepthInv, Return, Leave,
           Running, OnTop
  <2>4. StackInv'
    BY <1>13, StackMoves DEF PCs, Return, Leave, Running
  <2> QED BY <2>1, <2>2, <2>3, <2>4
<1>14. CASE RunReleasers(f)
  <2>1. TypeOK'
    BY <1>14 DEF TypeOK, PCs, FrameInv, DepthInv, SyncInv, EntrantInv, RunReleasers
  <2>2. FrameInv' /\ EntrantInv' /\ SyncInv'
    BY <1>14 DEF TypeOK, FrameInv, EntrantInv, SyncInv, PublishInv, RunReleasers
  <2>3. PublishInv' /\ DepthInv'
    BY <1>14 DEF TypeOK, FrameInv, EntrantInv, SyncInv, PublishInv, DepthInv, RunReleasers
  <2>4. StackInv'
    BY <1>14, StackMoves DEF PCs, RunReleasers
  <2> QED BY <2>1, <2>2, <2>3, <2>4
<1>15. CASE ClearReleasers(f)
  <2>1. TypeOK'
    BY <1>15 DEF TypeOK, PCs, FrameInv, DepthInv, SyncInv, EntrantInv, ClearReleasers
  <2>2. FrameInv' /\ EntrantInv' /\ SyncInv'
    BY <1>15 DEF TypeOK, FrameInv, EntrantInv, SyncInv, PublishInv, ClearReleasers
  <2>3. PublishInv' /\ DepthInv'
    BY <1>15 DEF TypeOK, FrameInv, EntrantInv, SyncInv, PublishInv, DepthInv, ClearReleasers
  <2>4. StackInv'
    BY <1>15, StackMoves DEF PCs, ClearReleasers
  <2> QED BY <2>1, <2>2, <2>3, <2>4
<1>16. CASE Exit(f)
  <2>1. TypeOK'
    BY <1>16 DEF TypeOK, PCs, FrameInv, DepthInv, SyncInv, EntrantInv, Exit
  <2>2. FrameInv' /\ EntrantInv' /\ SyncInv'
    BY <1>16 DEF TypeOK, FrameInv, EntrantInv, SyncInv, PublishInv, Exit
  <2>3. PublishInv' /\ DepthInv'
    BY <1>16 DEF TypeOK, FrameInv, EntrantInv, SyncInv, PublishInv, DepthInv, Exit
  <2>4. StackInv'
    BY <1>16, StackMoves DEF PCs, Exit
  <2> QED BY <2>1, <2>2, <2>3, <2>4
<1>17. CASE Unpublish(f)
  <2>1. TypeOK'
    BY <1>17 DEF TypeOK, PCs, FrameInv, DepthInv, SyncInv, EntrantInv, Unpublish
  <2>2. FrameInv' /\ EntrantInv' /\ SyncInv'
    BY <1>17 DEF TypeOK, FrameInv, EntrantInv, SyncInv, PublishInv, Unpublish
  <2>3. PublishInv' /\ DepthInv'
    BY <1>17 DEF TypeOK, FrameInv, EntrantInv, SyncInv, PublishInv, DepthInv, Unpublish
  <2>4. StackInv'
    BY <1>17, StackMoves DEF PCs, Unpublish
  <2> QED BY <2>1, <2>2, <2>3, <2>4
<1>18. CASE UnlockSync(f)
  <2>1. TypeOK'
    BY <1>18 DEF TypeOK, PCs, FrameInv, DepthInv, SyncInv, EntrantInv, UnlockSync
  <2>2. FrameInv' /\ EntrantInv' /\ SyncInv'
    BY <1>18 DEF TypeOK, FrameInv, EntrantInv, SyncInv, PublishInv, UnlockSync
  <2>3. PublishInv' /\ DepthInv'
    BY <1>18 DEF TypeOK, FrameInv, EntrantInv, SyncInv, PublishInv, DepthInv, UnlockSync
  <2>4. StackInv'
    BY <1>18, StackMoves DEF PCs, UnlockSync
  <2> QED BY <2>1, <2>2, <2>3, <2>4
<1>19. CASE UnlockEntrant(f)
  <2>1. TypeOK'
    BY <1>19 DEF TypeOK, PCs, FrameInv, DepthInv, SyncInv, EntrantInv, UnlockEntrant, Leave
  <2>2. FrameInv' /\ EntrantInv' /\ SyncInv'
    BY <1>19 DEF TypeOK, FrameInv, EntrantInv, SyncInv, PublishInv, UnlockEntrant, Leave
  <2>3. PublishInv' /\ DepthInv'
    BY <1>19 DEF TypeOK, FrameInv, EntrantInv, SyncInv, PublishInv, DepthInv, UnlockEntrant, Leave
  <2>4. StackInv'
    BY <1>19, StackMoves DEF PCs, UnlockEntrant, Leave
  <2> QED BY <2>1, <2>2, <2>3, <2>4
<1>20. CASE Start(f)
  <2>1. CASE UserCall(f)
    <3>1. PICK c \in UserContexts, i \in Isolates : Call(f, c, i, "tryLock")
      BY <2>1 DEF UserCall
    <3>2. \A g \in Frames : ~Below(g, f)
      BY <2>1, FrameFacts DEF UserCall, Below
    <3> QED BY <3>1, <3>2, CallPreserves DEF Contexts
  <2>2. CASE NestedCall(f)
    <3>1. Callee(f) \in Frames /\ ctx[f] \in Contexts
      BY <2>2, CalleeIsFrame DEF NestedCall, TypeOK, FrameInv
    <3>2. PICK i \in Isolates : Call(Callee(f), ctx[f], i, "tryLock")
      BY <2>2 DEF NestedCall
    <3>3. \A g \in Frames : Below(g, Callee(f)) => pc[g] \in {"body", "outside"}
      BY <2>2, CallersWait DEF NestedCall
    <3> QED BY <3>1, <3>2, <3>3, CallPreserves
  <2>3. CASE Callback(f)
    <3>1. Callee(f) \in Frames /\ iso[f] \in Isolates
      BY <2>3, CalleeIsFrame DEF Callback, Running, TypeOK, FrameInv
    <3>2. \A g \in Frames : Below(g, Callee(f)) => pc[g] \in {"body", "outside"}
      BY <2>3, CallersWait DEF Callback, Running
    <3> QED BY <2>3, <3>1, <3>2, CallPreserves DEF Callback
  <2>4. CASE DetachedCall(f)
    <3>1. PICK i \in Isolates : Call(f, None, i, "check")
      BY <2>4 DEF DetachedCall
    <3>2. \A g \in Frames : ~Below(g, f)
      BY <2>4, FrameFacts DEF DetachedCall, Below
    <3> QED BY <3>1, <3>2, CallPreserves
  <2> QED BY <1>20, <2>1, <2>2, <2>3, <2>4 DEF Start
<1> QED
  BY <1>1, <1>2, <1>3, <1>4, <1>5, <1>6, <1>7, <1>8, <1>9, <1>10, <1>11, <1>12, <1>13, <1>14,
     <1>15, <1>16, <1>17, <1>18, <1>19, <1>20 DEF Step, Proceed

\* So does every step, and every stutter.
LEMMA NextPreserves == IInv /\ [Next]_vars => IInv'
<1>1. ASSUME IInv, UNCHANGED vars PROVE IInv'
  BY <1>1 DEF IInv, TypeOK, SessionInv, FrameInv, EntrantInv, SyncInv, PublishInv, DepthInv,
     StackInv, Below, Owner, vars, locks, frames, releasing
<1> QED BY <1>1, StepPreserves DEF Next

\* The inductive invariant of Sync, for every use of it.
LEMMA Invariance == Spec => []IInv
BY TypeInit, NextPreserves, PTL DEF Spec

-----------------------------------------------------------------------------
(***************************************************************************)
(* The variables keep their types; in particular native Exit calls never   *)
(* outnumber the Enter calls, with whatever use and whatever panics.       *)
(***************************************************************************)
THEOREM TypeCorrect == Spec => []TypeOK
<1>1. IInv => TypeOK
  BY DEF IInv
<1> QED BY <1>1, Invariance, PTL

(***************************************************************************)
(* The inductive invariant of Sync, for every use of it: which frame holds *)
(* which lock at which step, what is published, and the shape of stacks.   *)
(***************************************************************************)
THEOREM SessionsAreSound == Spec => []SessionInv
<1>1. IInv => SessionInv
  BY DEF IInv
<1> QED BY <1>1, Invariance, PTL

(***************************************************************************)
(* What GetExecutionContext can see is the context of the frame that holds *)
(* both locks, however Sync is used.                                       *)
(***************************************************************************)
THEOREM PublishedIsHeld == Spec => []PublishedByHolder
<1>1. IInv => PublishedByHolder
  BY NoneAssumption
     DEF IInv, TypeOK, SessionInv, PublishInv, SyncInv, EntrantInv, Owner, PublishedByHolder
<1> QED BY <1>1, Invariance, PTL

(***************************************************************************)
(* A callback inside its own session never sees a nil context at either of *)
(* the two reads, however many outsiders read and join at the same time.   *)
(***************************************************************************)
THEOREM CallbacksRejoin == Spec => []CallbackFindsSession
<1>1. IInv => CallbackFindsSession
  <2> SUFFICES ASSUME IInv, NEW f \in Frames, NEW h \in Frames,
                      pc[h] = "body", Owner(h), iso[h] = iso[f]
               PROVE  executionContext[iso[f]] # None
    BY DEF CallbackFindsSession, InsideSession
  <2>1. iso[h] \in Isolates /\ ctx[h] # None
    BY DEF IInv, TypeOK, SessionInv, FrameInv
  <2>2. syncMutex[iso[h]] = h
    BY DEF IInv, SessionInv, SyncInv, Owning, Locked
  <2> QED
    BY <2>1, <2>2, NoneAssumption
       DEF IInv, TypeOK, SessionInv, PublishInv, Owning, Locked, Published
<1> QED BY <1>1, Invariance, PTL

(***************************************************************************)
(* No frame replaces the context of a session that is running.             *)
(***************************************************************************)
THEOREM SessionsDoNotOverlap == Spec => NoTakeover
<1> DEFINE A == \A i \in Isolates :
        executionContext[i] # None => executionContext'[i] \in {executionContext[i], None}
<1>1. IInv /\ [Next]_vars => [A]_vars
  <2> SUFFICES ASSUME IInv, Next PROVE A
    OBVIOUS
  <2> PICK f \in Frames : Step(f)
    BY DEF Next
  <2>1. CASE Publish(f)
    <3>1. iso[f] \in Isolates /\ syncMutex[iso[f]] = f
      BY <2>1
         DEF Publish, IInv, TypeOK, SessionInv, FrameInv, EntrantInv, SyncInv, Owner, Owning,
             Locked
    <3>2. executionContext[iso[f]] = None
      BY <2>1, <3>1 DEF Publish, IInv, SessionInv, PublishInv, Owning, Locked, Published
    <3> QED BY <2>1, <3>1, <3>2 DEF Publish, IInv, TypeOK
  <2>2. CASE Unpublish(f)
    BY <2>2 DEF Unpublish, IInv, TypeOK
  <2>3. CASE ~Publish(f) /\ ~Unpublish(f)
    <3>1. UNCHANGED executionContext
      BY <2>3 DEF Step, Start, Proceed, UserCall, NestedCall, Callback, DetachedCall, Call,
         AddReleaser, MakeContext, SeeContext, TakeContext, NilContext, EndBackground,
         LockEntrant, Join, LockSync, Enter, EnterPanics, Return, RunReleasers,
         ClearReleasers, Exit, UnlockSync, UnlockEntrant, locks
    <3> QED BY <3>1
  <2> QED BY <2>1, <2>2, <2>3
<1> QED BY <1>1, Invariance, PTL DEF Spec, NoTakeover

-----------------------------------------------------------------------------
(* What a step of one frame leaves alone *)

\* A frame proceeds only when nothing is active above it.
LEMMA TopProceeds ==
    ASSUME TypeOK, StackInv, NEW f \in Frames, Proceed(f), NEW g \in Frames, Below(f, g)
    PROVE  pc[g] = "idle"
<1> SUFFICES ASSUME pc[g] # "idle" PROVE FALSE
  OBVIOUS
<1>1. pc[f] \in {"body", "outside"}
  BY DEF StackInv
<1>2. OnTop(f)
  BY <1>1
     DEF Proceed, MakeContext, SeeContext, TakeContext, NilContext, EndBackground,
         LockEntrant,
     Join, LockSync, Publish, Enter, EnterPanics, Return, Running, RunReleasers, ClearReleasers,
     Exit, Unpublish, UnlockSync, UnlockEntrant
<1>3. f[2] < MaxFrames /\ pc[Callee(f)] = "idle" /\ Callee(f) \in Frames
  BY <1>2, CalleeFacts, CalleeIsFrame DEF OnTop
<1>4. Below(Callee(f), g)
  BY <1>3, CalleeFacts
<1> QED BY <1>3, <1>4 DEF StackInv

\* A frame that proceeds leaves the other frames alone, gives none of them a
\* lock, and gets a context only from GetExecutionContext.
LEMMA ProceedFrames ==
    ASSUME IInv, NEW f \in Frames, Proceed(f)
    PROVE  /\ \A g \in Frames \ {f} :
                  /\ pc'[g] = pc[g] /\ ctx'[g] = ctx[g] /\ iso'[g] = iso[g]
                  /\ Owner(g)' <=> Owner(g)
           /\ pc'[f] # "idle" =>
                  /\ iso'[f] = iso[f]
                  /\ ctx'[f] = ctx[f] \/ MakeContext(f) \/ TakeContext(f)
<1> USE DEF IInv, TypeOK, Owner, Goto, Leave, MoveOn, locks
<1>1. CASE MakeContext(f) \/ SeeContext(f) \/ TakeContext(f) \/ NilContext(f) \/ EndBackground(f)
  BY <1>1 DEF MakeContext, SeeContext, TakeContext, NilContext, EndBackground
<1>2. CASE Join(f) \/ LockSync(f) \/ Publish(f) \/ Enter(f) \/ EnterPanics(f)
  BY <1>2 DEF Join, LockSync, Publish, Enter, EnterPanics
<1>3. CASE \/ Return(f) \/ RunReleasers(f) \/ ClearReleasers(f) \/ Exit(f)
           \/ Unpublish(f) \/ UnlockSync(f)
  BY <1>3 DEF Return, RunReleasers, ClearReleasers, Exit, Unpublish, UnlockSync
<1>4. CASE UnlockEntrant(f)
  <2>1. ctx[f] \in Contexts /\ entrantMutex[ctx[f]] = f
    BY <1>4 DEF UnlockEntrant, SessionInv, FrameInv, EntrantInv, Owning
  <2>2. \A g \in Frames \ {f} : entrantMutex'[ctx[g]] = g <=> entrantMutex[ctx[g]] = g
    BY <1>4, <2>1, NoneAssumption DEF UnlockEntrant
  <2> QED BY <1>4, <2>2 DEF UnlockEntrant
<1>5. CASE LockEntrant(f)
  <2>1. ctx[f] \in Contexts
    BY <1>5 DEF LockEntrant, SessionInv, FrameInv
  <2>2. \A g \in Frames \ {f} : entrantMutex'[ctx[g]] = g <=> entrantMutex[ctx[g]] = g
    BY <1>5, <2>1, NoneAssumption DEF LockEntrant
  <2> QED BY <1>5, <2>2 DEF LockEntrant
<1> QED BY <1>1, <1>2, <1>3, <1>4, <1>5 DEF Proceed

-----------------------------------------------------------------------------
(* Without "crossIsolate" *)

\* A new frame has the isolate of the frames below it, and the context of the
\* session it is in, if it has one.
LEMMA CallReenters ==
    ASSUME IInv, ReentryInv, NEW f \in Frames, NEW i \in Isolates, NEW c \in Contexts \cup {None},
           NEW label \in {"check", "tryLock"}, Call(f, c, i, label),
           \A g \in Frames : Below(g, f) =>
               /\ iso[g] = i
               /\ Owner(g) => c \in {None, ctx[g]}
    PROVE  ReentryInv'
<1> SUFFICES ASSUME NEW h \in Frames, NEW g \in Frames, Below(h, g), pc'[g] # "idle"
             PROVE  /\ iso'[g] = iso'[h]
                    /\ Owner(h)' => ctx'[g] \in {None, ctx'[h]}
  BY DEF ReentryInv, Below
<1>1. h # g
  BY FrameFacts DEF Below
<1>2. h # f
  BY <1>1 DEF IInv, TypeOK, SessionInv, StackInv, Call, Goto
<1> QED
  BY <1>1, <1>2 DEF IInv, TypeOK, ReentryInv, Call, Goto, Owner, locks

\* Unless contexts cross isolates, every step preserves ReentryInv.
LEMMA ReentryPreserves ==
    ASSUME "crossIsolate" \notin Usage, IInv, ReentryInv, NEW f \in Frames, Step(f)
    PROVE  ReentryInv'
<1>1. CASE Proceed(f)
  <2> SUFFICES ASSUME NEW h \in Frames, NEW g \in Frames, Below(h, g), pc'[g] # "idle"
               PROVE  /\ iso'[g] = iso'[h]
                      /\ Owner(h)' => ctx'[g] \in {None, ctx'[h]}
    BY DEF ReentryInv, Below
  <2>1. h # g
    BY FrameFacts DEF Below
  <2>2. h # f
    BY <1>1, <2>1, TopProceeds, ProceedFrames DEF IInv, SessionInv
  <2>3. /\ pc'[h] = pc[h] /\ ctx'[h] = ctx[h] /\ iso'[h] = iso[h]
        /\ Owner(h)' => Owner(h)
    BY <1>1, <2>2, ProceedFrames
  <2>4. CASE g # f
    BY <1>1, <2>3, <2>4, ProceedFrames DEF ReentryInv
  <2>5. CASE g = f
    <3>1. pc[f] # "idle"
      BY <1>1 DEF Proceed, MakeContext, SeeContext, TakeContext, NilContext, EndBackground,
         LockEntrant, Join, LockSync, Publish, Enter, EnterPanics, Return, Running, RunReleasers,
         ClearReleasers, Exit, Unpublish, UnlockSync, UnlockEntrant
    <3>2. iso[h] = iso[f] /\ pc[h] \in {"body", "outside"}
      BY <2>5, <3>1 DEF ReentryInv, IInv, SessionInv, StackInv
    <3>3. iso'[f] = iso[f]
      BY <1>1, <2>5, ProceedFrames
    <3>4. ASSUME Owner(h) PROVE ctx'[f] \in {None, ctx[h]}
      <4>1. executionContext[iso[f]] = ctx[h] /\ ctx[h] # None
        BY <3>2, <3>4, NoneAssumption
           DEF IInv, TypeOK, SessionInv, FrameInv, SyncInv, PublishInv, Owner,
           Owning, Locked, Published
      <4>2. CASE MakeContext(f)
        BY <4>1, <4>2 DEF MakeContext
      <4>3. CASE TakeContext(f)
        BY <4>1, <4>3 DEF TakeContext, IInv, TypeOK
      <4>4. CASE ctx'[f] = ctx[f]
        BY <2>5, <3>1, <3>4, <4>4 DEF ReentryInv
      <4> QED BY <1>1, <2>5, <4>2, <4>3, <4>4, ProceedFrames
    <3> QED BY <2>3, <2>5, <3>2, <3>3, <3>4
  <2> QED BY <2>4, <2>5
<1>2. CASE AddReleaser(f)
  BY <1>2 DEF AddReleaser, frames, locks, ReentryInv, Below, Owner
<1>3. CASE UserCall(f)
  <2>1. PICK c \in UserContexts, i \in Isolates : Call(f, c, i, "tryLock")
    BY <1>3 DEF UserCall
  <2>2. \A g \in Frames : ~Below(g, f)
    BY <1>3, FrameFacts DEF UserCall, Below
  <2> QED BY <2>1, <2>2, CallReenters DEF Contexts
<1>4. CASE DetachedCall(f)
  <2>1. PICK i \in Isolates : Call(f, None, i, "check")
    BY <1>4 DEF DetachedCall
  <2>2. \A g \in Frames : ~Below(g, f)
    BY <1>4, FrameFacts DEF DetachedCall, Below
  <2> QED BY <2>1, <2>2, CallReenters
<1>5. CASE NestedCall(f) \/ Callback(f)
  <2>1. Callee(f) \in Frames /\ iso[f] \in Isolates /\ ctx[f] \in Contexts /\ pc[f] # "idle"
    BY <1>5, CalleeIsFrame DEF NestedCall, Callback, Running, IInv, TypeOK, SessionInv, FrameInv
  <2>2. \/ Call(Callee(f), ctx[f], iso[f], "tryLock")
        \/ Call(Callee(f), None, iso[f], "check")
    BY <1>5 DEF NestedCall, Callback
  <2>3. \A g \in Frames : Below(g, Callee(f)) => g = f \/ Below(g, f)
    BY FrameFacts DEF Below, Callee
  <2>4. \A g \in Frames : Below(g, Callee(f)) =>
            iso[g] = iso[f] /\ (Owner(g) => ctx[f] \in {None, ctx[g]})
    BY <2>1, <2>3 DEF ReentryInv
  <2> QED BY <2>1, <2>2, <2>4, CallReenters
<1> QED BY <1>1, <1>2, <1>3, <1>4, <1>5 DEF Step, Start

\* Then the calls inside a session run with the context of that session.
LEMMA ReentryInvariance == ASSUME "crossIsolate" \notin Usage PROVE Spec => []ReentryInv
<1>1. Init => ReentryInv
  BY DEF Init, ReentryInv
<1>2. IInv /\ ReentryInv /\ [Next]_vars => ReentryInv'
  <2>1. ASSUME ReentryInv, UNCHANGED vars PROVE ReentryInv'
    BY <2>1 DEF ReentryInv, Below, Owner, vars, locks, frames
  <2> QED BY <2>1, ReentryPreserves DEF Next
<1> QED BY <1>1, <1>2, Invariance, PTL DEF Spec

(***************************************************************************)
(* If no context is used on two isolates, a goroutine that waits for an    *)
(* isolate holds none: Sync cannot deadlock by itself, whatever finalizers *)
(* and Background goroutines do and however contexts are shared.           *)
(***************************************************************************)
THEOREM ReentryNeverWaits ==
    ASSUME "crossIsolate" \notin Usage PROVE Spec => []NoHoldAndWait
<1>1. IInv /\ ReentryInv => NoHoldAndWait
  <2> SUFFICES ASSUME IInv, ReentryInv, NEW f \in Frames, pc[f] = "lock",
                      NEW i \in Isolates, syncMutex[i] # None, syncMutex[i][1] = f[1]
               PROVE  FALSE
    BY DEF NoHoldAndWait
  <2> DEFINE h == syncMutex[i]
  <2>1. h \in Frames /\ pc[h] \in Locked /\ Owner(h)
    BY DEF IInv, TypeOK, SessionInv, SyncInv
  <2>2. entrantMutex[ctx[f]] = f /\ ctx[f] # None
    BY DEF IInv, SessionInv, EntrantInv, FrameInv, Owning
  <2>3. h # f
    BY <2>1 DEF Locked, Owning
  <2>4. Below(h, f) \/ Below(f, h)
    BY <2>1, <2>3, FrameFacts DEF Below
  <2>5. ~Below(f, h)
    BY <2>1 DEF IInv, SessionInv, StackInv, Locked, Owning
  <2>6. ctx[f] = ctx[h]
    BY <2>1, <2>2, <2>4, <2>5 DEF ReentryInv
  <2> QED BY <2>1, <2>2, <2>3, <2>6 DEF Owner
<1> QED BY <1>1, Invariance, ReentryInvariance, PTL

-----------------------------------------------------------------------------
(* Usage = {} *)

Root(f) == <<f[1], 1>>

\* The frames at the bottom are where a goroutine calls first.
LEMMA RootFacts ==
    ASSUME NEW f \in Frames
    PROVE  /\ Root(f) \in Frames
           /\ Root(f)[1] = f[1] /\ Root(f)[2] = 1
           /\ f[2] = 1 => f = Root(f)
           /\ f[2] # 1 => Below(Root(f), f)
BY FrameFacts, BoundsAssumption DEF Frames, Root, Below

\* With contexts of their own, a step of a frame preserves RootInv.
LEMMA RootProceeds ==
    ASSUME Usage = {}, IInv, ReentryInv, RootInv, NEW f \in Frames, f[2] = 1, Proceed(f)
    PROVE  /\ pc'[f] \notin {"check", "reread", "outside"}
           /\ pc'[f] = "body" => Owner(f)'
           /\ ctx'[f] \in {None, ctx[f]}
<1>1. ~Join(f)
  <2> SUFFICES ASSUME Join(f) PROVE FALSE
    OBVIOUS
  <2> DEFINE h == entrantMutex[ctx[f]]
  <2>1. ctx[f] \in Contexts /\ ctx[f] # None
    BY DEF Join, IInv, TypeOK, SessionInv, FrameInv
  <2>2. h \in Frames /\ ctx[h] = ctx[f] /\ pc[h] \in Owning
    BY <2>1 DEF Join, IInv, TypeOK, SessionInv, EntrantInv
  <2>3. h # f
    BY <2>2 DEF Join, Owning
  <2>4. h[2] # 1
    BY <2>1, <2>2, <2>3 DEF RootInv
  <2>5. Below(Root(h), h) /\ Root(h) \in Frames /\ Root(h)[2] = 1
    BY <2>2, <2>4, RootFacts
  <2>6. pc[Root(h)] = "body" /\ Owner(Root(h))
    BY <2>2, <2>5 DEF IInv, SessionInv, StackInv, RootInv, Owning
  <2>7. ctx[h] = ctx[Root(h)]
    BY <2>1, <2>2, <2>5, <2>6 DEF ReentryInv, Owning
  <2>8. Root(h) = f
    BY <2>1, <2>2, <2>5, <2>7 DEF RootInv
  <2> QED BY <2>6, <2>8 DEF Join
<1>2. pc[f] \notin {"check", "reread", "outside"}
  BY DEF RootInv
<1>3. Owner(f) => entrantMutex[ctx[f]] = f
  BY DEF Owner
<1> USE DEF IInv, TypeOK, Goto, Leave, locks
<1>4. CASE LockEntrant(f) \/ LockSync(f) \/ Publish(f) \/ EnterPanics(f)
  BY <1>4 DEF LockEntrant, LockSync, Publish, EnterPanics
<1>5. CASE Enter(f)
  BY <1>5 DEF Enter, Owner, Owning, SessionInv, EntrantInv
<1>6. CASE Return(f) \/ RunReleasers(f) \/ ClearReleasers(f) \/ Exit(f)
  BY <1>6 DEF Return, RunReleasers, ClearReleasers, Exit
<1>7. CASE Unpublish(f) \/ UnlockSync(f) \/ UnlockEntrant(f)
  BY <1>7 DEF Unpublish, UnlockSync, UnlockEntrant
<1>8. ~MakeContext(f) /\ ~SeeContext(f) /\ ~TakeContext(f) /\ ~NilContext(f) /\ ~EndBackground(f)
  BY <1>2 DEF MakeContext, SeeContext, TakeContext, NilContext, EndBackground
<1> QED BY <1>1, <1>4, <1>5, <1>6, <1>7, <1>8 DEF Proceed

\* So does every step.
LEMMA RootPreserves ==
    ASSUME Usage = {}, IInv, ReentryInv, RootInv, NEW f \in Frames, Step(f)
    PROVE  RootInv'
<1>1. CASE Proceed(f)
  <2>1. \A g \in Frames \ {f} :
            pc'[g] = pc[g] /\ ctx'[g] = ctx[g] /\ (Owner(g)' <=> Owner(g))
    BY <1>1, ProceedFrames
  <2>2. f[2] = 1 => /\ pc'[f] \notin {"check", "reread", "outside"}
                    /\ pc'[f] = "body" => Owner(f)'
                    /\ ctx'[f] \in {None, ctx[f]}
    BY <1>1, RootProceeds
  <2> QED BY <2>1, <2>2 DEF RootInv
<1>2. CASE AddReleaser(f)
  BY <1>2 DEF AddReleaser, frames, locks, RootInv, Owner
<1>3. CASE UserCall(f)
  <2>1. PICK c \in UserContexts, i \in Isolates :
            Call(f, c, i, "tryLock") /\ \A g \in Frames : g[2] = 1 => ctx[g] # c
    BY <1>3 DEF UserCall
  <2> QED BY <2>1 DEF Call, Goto, locks, IInv, TypeOK, RootInv, Owner
<1>4. CASE NestedCall(f) \/ Callback(f)
  <2>1. Callee(f) \in Frames /\ Callee(f)[2] # 1
    BY <1>4, CalleeIsFrame, FrameFacts DEF NestedCall, Callback, Callee
  <2>2. PICK c \in Contexts \cup {None}, i \in Isolates \cup {None},
             label \in {"tryLock", "check"} : Call(Callee(f), c, i, label)
    BY <1>4 DEF NestedCall, Callback, IInv, TypeOK
  <2> QED BY <2>1, <2>2 DEF Call, Goto, locks, IInv, TypeOK, RootInv, Owner
<1>5. ~DetachedCall(f)
  BY DEF DetachedCall
<1> QED BY <1>1, <1>2, <1>3, <1>4, <1>5 DEF Step, Start

\* Then the first call of every goroutine locks its context and never joins.
LEMMA RootInvariance == ASSUME Usage = {} PROVE Spec => []RootInv
<1>1. Init => RootInv
  BY DEF Init, RootInv
<1>2. IInv /\ ReentryInv /\ RootInv /\ [Next]_vars => RootInv'
  <2>1. ASSUME RootInv, UNCHANGED vars PROVE RootInv'
    BY <2>1 DEF RootInv, Owner, vars, locks, frames
  <2> QED BY <2>1, RootPreserves DEF Next
<1>3. "crossIsolate" \notin Usage
  OBVIOUS
<1> QED BY <1>1, <1>2, <1>3, Invariance, ReentryInvariance, PTL DEF Spec

\* A frame inside an isolate was called by the frame that holds it.
LEMMA InsideIsHeld ==
    ASSUME Usage = {}, IInv, ReentryInv, RootInv, NEW f \in Frames, pc[f] \in Inside
    PROVE  syncMutex[iso[f]] = Root(f)
<1>1. CASE f[2] = 1
  <2>1. Owner(f)
    BY <1>1 DEF RootInv, IInv, SessionInv, EntrantInv, Owner, Inside, Published, Locked, Owning
  <2> QED BY <1>1, <2>1, RootFacts DEF IInv, SessionInv, SyncInv, Inside, Published
<1>2. CASE f[2] # 1
  <2>1. Root(f) \in Frames /\ Root(f)[2] = 1 /\ Below(Root(f), f)
    BY <1>2, RootFacts
  <2>2. pc[Root(f)] = "body" /\ Owner(Root(f))
    BY <2>1 DEF IInv, SessionInv, StackInv, RootInv, Inside, Published, Locked, Owning
  <2>3. iso[f] = iso[Root(f)]
    BY <2>1 DEF ReentryInv, Inside, Published, Locked, Owning
  <2> QED BY <2>1, <2>2, <2>3 DEF IInv, SessionInv, SyncInv, Locked, Owning
<1> QED BY <1>1, <1>2

(***************************************************************************)
(* Sync excludes goroutines from one another when each uses a context of   *)
(* its own and nothing runs detached.                                      *)
(***************************************************************************)
THEOREM SyncExcludes == ASSUME Usage = {} PROVE Spec => []MutualExclusion
<1>1. IInv /\ ReentryInv /\ RootInv => MutualExclusion
  BY InsideIsHeld, RootFacts DEF MutualExclusion
<1>2. "crossIsolate" \notin Usage
  OBVIOUS
<1> QED BY <1>1, <1>2, Invariance, ReentryInvariance, RootInvariance, PTL

-----------------------------------------------------------------------------
(* Sync implements ReentrantMonitor *)

InsideOf(i) == {f \in Frames : pc[f] \in Inside /\ iso[f] = i}

\* A step that moves one frame in or out is a step of the monitor.
LEMMA OneFrameMoves ==
    ASSUME NEW f \in Frames, NEW j \in Isolates,
           \A g \in Frames \ {f} : pc'[g] = pc[g] /\ iso'[g] = iso[g],
           iso[f] = j,
           \/ /\ pc[f] \notin Inside /\ pc'[f] \in Inside /\ iso'[f] = j
              /\ \A b \in InsideOf(j) : b[1] = f[1] /\ b[2] < f[2]
           \/ /\ pc[f] \in Inside /\ pc'[f] \notin Inside
              /\ \A b \in InsideOf(j) : b[2] <= f[2]
    PROVE  Monitor!Next
<1> DEFINE in == [i \in Isolates |-> InsideOf(i)]
<1>1. f \in Monitor!Activities
  BY DEF Frames, Monitor!Activities
<1>2. CASE pc'[f] \in Inside
  <2>1. \A i \in Isolates \ {j} : InsideOf(i)' = InsideOf(i)
    BY <1>2 DEF InsideOf
  <2>2. InsideOf(j)' = InsideOf(j) \cup {f}
    BY <1>2 DEF InsideOf
  <2>3. in' = [in EXCEPT ![j] = @ \cup {f}]
    BY <2>1, <2>2
  <2>4. Monitor!Enter(f, j)
    BY <1>2, <2>3 DEF Monitor!Enter, InsideOf
  <2> QED BY <1>1, <2>4 DEF Monitor!Next
<1>3. CASE pc'[f] \notin Inside
  <2>1. \A i \in Isolates \ {j} : InsideOf(i)' = InsideOf(i)
    BY <1>3 DEF InsideOf
  <2>2. InsideOf(j)' = InsideOf(j) \ {f}
    BY <1>3 DEF InsideOf
  <2>3. in' = [in EXCEPT ![j] = @ \ {f}]
    BY <2>1, <2>2
  <2>4. Monitor!Leave(f, j)
    BY <1>3, <2>3 DEF Monitor!Leave, InsideOf
  <2> QED BY <1>1, <2>4 DEF Monitor!Next
<1> QED BY <1>2, <1>3

\* A step that moves no frame in or out is a stutter of the monitor.
LEMMA NoFrameMoves ==
    ASSUME \A g \in Frames : /\ pc'[g] \in Inside <=> pc[g] \in Inside
                             /\ pc[g] \in Inside => iso'[g] = iso[g]
    PROVE  UNCHANGED [i \in Isolates |-> InsideOf(i)]
<1>1. \A i \in Isolates : InsideOf(i)' = InsideOf(i)
  BY DEF InsideOf
<1> QED BY <1>1

\* Every step of a frame is a step of the reentrant lock or invisible there.
LEMMA StepRefines ==
    ASSUME Usage = {}, IInv, ReentryInv, RootInv, MutualExclusion', NEW f \in Frames, Step(f)
    PROVE  Monitor!Next \/ UNCHANGED [i \in Isolates |-> InsideOf(i)]
<1> USE DEF Inside, Published, Locked, Owning
<1>1. CASE Start(f) \/ AddReleaser(f)
  <2>1. CASE AddReleaser(f)
    BY <2>1, NoFrameMoves DEF AddReleaser, frames
  <2>2. CASE Start(f)
    <3>1. PICK g \in Frames, label \in {"check", "tryLock"} :
              /\ pc[g] = "idle" /\ Goto(g, label)
              /\ \A h \in Frames \ {g} : iso'[h] = iso[h]
      <4>1. CASE UserCall(f) \/ DetachedCall(f)
        BY <4>1 DEF UserCall, DetachedCall, Call, IInv, TypeOK
      <4>2. CASE NestedCall(f) \/ Callback(f)
        <5>1. Callee(f) \in Frames
          BY <4>2, CalleeIsFrame DEF NestedCall, Callback
        <5> QED BY <4>2, <5>1 DEF NestedCall, Callback, Call, IInv, TypeOK
      <4> QED BY <2>2, <4>1, <4>2 DEF Start
    <3> QED BY <3>1, NoFrameMoves DEF Goto, IInv, TypeOK
  <2> QED BY <1>1, <2>1, <2>2
<1>2. CASE Proceed(f)
  <2>1. \A g \in Frames \ {f} : pc'[g] = pc[g] /\ iso'[g] = iso[g]
    BY <1>2, ProceedFrames
  <2>2. CASE pc[f] \notin Inside /\ pc'[f] \in Inside
    <3>1. iso'[f] = iso[f] /\ iso[f] \in Isolates
      <4>1. iso'[f] = iso[f]
        BY <1>2, <2>2, ProceedFrames
      <4>2. pc[f] # "idle"
        BY <1>2 DEF Proceed, MakeContext, SeeContext, TakeContext, NilContext, EndBackground,
           LockEntrant, Join, LockSync, Publish, Enter, EnterPanics, Return, Running, RunReleasers,
           ClearReleasers, Exit, Unpublish, UnlockSync, UnlockEntrant
      <4> QED BY <4>1, <4>2 DEF IInv, TypeOK, SessionInv, FrameInv
    <3>2. \A b \in InsideOf(iso[f]) : b[1] = f[1] /\ b # f
      BY <2>1, <2>2, <3>1 DEF InsideOf, MutualExclusion
    <3>3. \A b \in InsideOf(iso[f]) : ~Below(f, b)
      BY <1>2, TopProceeds DEF InsideOf, IInv, SessionInv
    <3>4. \A b \in InsideOf(iso[f]) : b[1] = f[1] /\ b[2] < f[2]
      BY <3>2, <3>3, FrameFacts DEF InsideOf, Below
    <3> QED BY <2>1, <2>2, <3>1, <3>4, OneFrameMoves
  <2>3. CASE pc[f] \in Inside /\ pc'[f] \notin Inside
    <3>1. iso[f] \in Isolates
      BY <2>3 DEF IInv, TypeOK, SessionInv, FrameInv
    <3>2. \A b \in InsideOf(iso[f]) : b[1] = f[1]
      BY <2>3, InsideIsHeld, RootFacts DEF InsideOf
    <3>3. \A b \in InsideOf(iso[f]) : ~Below(f, b)
      BY <1>2, TopProceeds DEF InsideOf, IInv, SessionInv
    <3>4. \A b \in InsideOf(iso[f]) : b[2] <= f[2]
      BY <3>2, <3>3, FrameFacts DEF InsideOf, Below
    <3> QED BY <2>1, <2>3, <3>1, <3>4, OneFrameMoves
  <2>4. CASE pc[f] \in Inside <=> pc'[f] \in Inside
    <3>1. pc[f] \in Inside => iso'[f] = iso[f]
      BY <1>2, <2>4, ProceedFrames
    <3> QED BY <2>1, <2>4, <3>1, NoFrameMoves
  <2> QED BY <2>2, <2>3, <2>4
<1> QED BY <1>1, <1>2 DEF Step

(***************************************************************************)
(* With a context for every goroutine and nothing detached, Sync is a      *)
(* reentrant lock: each of its steps is a step of ReentrantMonitor, or is  *)
(* invisible there.                                                        *)
(***************************************************************************)
THEOREM SyncIsReentrantLock == ASSUME Usage = {} PROVE Spec => ImplementsMonitor
<1> DEFINE in == [i \in Isolates |-> InsideOf(i)]
<1>1. Init => Monitor!Init
  BY DEF Init, Monitor!Init, Inside, Published, Locked, Owning
<1>2. /\ IInv /\ ReentryInv /\ RootInv /\ MutualExclusion /\ MutualExclusion'
      /\ [Next]_vars
      => [Monitor!Next]_in
  <2>1. ASSUME UNCHANGED vars PROVE UNCHANGED in
    BY <2>1, NoFrameMoves DEF vars, frames
  <2> QED BY <2>1, StepRefines DEF Next
<1>3. "crossIsolate" \notin Usage
  OBVIOUS
<1>4. in = [i \in Isolates |-> {f \in Frames : pc[f] \in Inside /\ iso[f] = i}]
  BY DEF InsideOf
<1> QED
  BY <1>1, <1>2, <1>3, <1>4, Invariance, ReentryInvariance, RootInvariance, SyncExcludes, PTL
  DEF Spec, ImplementsMonitor, Monitor!Spec, InsideOf

-----------------------------------------------------------------------------
(* Without "hookPanics" *)

\* Unless a hook panics, every step keeps the native entries in balance.
LEMMA DepthStep ==
    ASSUME "hookPanics" \notin Usage, IInv, EnteredOncePerSession, NEW f \in Frames, Step(f)
    PROVE  EnteredOncePerSession'
<1> USE
   DEF IInv, TypeOK, SessionInv, SyncInv, Goto, Leave, locks, Inside, Published, Locked,
       Owning
<1>1. CASE Start(f) \/ AddReleaser(f)
  <2>1. CASE AddReleaser(f)
    BY <2>1 DEF AddReleaser, frames, EnteredOncePerSession
  <2>2. CASE UserCall(f) \/ DetachedCall(f)
    BY <2>2 DEF UserCall, DetachedCall, Call, EnteredOncePerSession
  <2>3. CASE NestedCall(f) \/ Callback(f)
    <3>1. Callee(f) \in Frames
      BY <2>3, CalleeIsFrame DEF NestedCall, Callback
    <3> QED BY <2>3, <3>1 DEF NestedCall, Callback, Call, EnteredOncePerSession
  <2> QED BY <1>1, <2>1, <2>2, <2>3 DEF Start
<1>2. CASE Enter(f) \/ Exit(f)
  <2>1. iso[f] \in Isolates /\ syncMutex[iso[f]] = f
    BY <1>2 DEF Enter, Exit, FrameInv, EntrantInv, Owner
  <2> QED BY <1>2, <2>1, NoneAssumption DEF Enter, Exit, EnteredOncePerSession
<1>3. CASE MakeContext(f) \/ SeeContext(f) \/ TakeContext(f) \/ NilContext(f) \/ EndBackground(f)
  <2>1. CASE MakeContext(f) \/ TakeContext(f)
    BY <2>1 DEF MakeContext, MoveOn, TakeContext, EnteredOncePerSession
  <2>2. CASE SeeContext(f)
    BY <2>2 DEF SeeContext, EnteredOncePerSession
  <2>3. CASE NilContext(f)
    BY <2>3 DEF NilContext, EnteredOncePerSession
  <2>4. CASE EndBackground(f)
    BY <2>4 DEF EndBackground, EnteredOncePerSession
  <2> QED BY <1>3, <2>1, <2>2, <2>3, <2>4
<1>4. CASE Join(f) \/ Publish(f) \/ RunReleasers(f) \/ ClearReleasers(f) \/ Unpublish(f)
  BY <1>4 DEF Join, Publish, RunReleasers, ClearReleasers, Unpublish, EnteredOncePerSession
<1>5. CASE Return(f)
  BY <1>5 DEF Return, Running, Owner, EnteredOncePerSession
<1>6. CASE LockEntrant(f) \/ LockSync(f) \/ UnlockSync(f) \/ UnlockEntrant(f)
  <2>1. iso[f] \in Isolates
    BY <1>6 DEF LockEntrant, LockSync, UnlockSync, UnlockEntrant, FrameInv
  <2>2. pc[f] = "unlockSync" => syncMutex[iso[f]] = f
    BY DEF EntrantInv, Owner
  <2> QED BY <1>6, <2>1, <2>2, NoneAssumption
      DEF LockEntrant, LockSync, UnlockSync, UnlockEntrant, EnteredOncePerSession
<1>7. ~EnterPanics(f)
  BY DEF EnterPanics
<1> QED BY <1>1, <1>2, <1>3, <1>4, <1>5, <1>6, <1>7 DEF Step, Proceed

(***************************************************************************)
(* Unless a hook panics, the isolate is entered natively exactly once more *)
(* while a session runs, whoever joins it and however.                     *)
(***************************************************************************)
THEOREM EnterExitBalance ==
    ASSUME "hookPanics" \notin Usage PROVE Spec => []EnteredOncePerSession
<1>1. Init => EnteredOncePerSession
  BY DEF Init, EnteredOncePerSession
<1>2. IInv /\ EnteredOncePerSession /\ [Next]_vars => EnteredOncePerSession'
  <2>1. ASSUME EnteredOncePerSession, UNCHANGED vars PROVE EnteredOncePerSession'
    BY <2>1 DEF EnteredOncePerSession, vars, locks, frames
  <2> QED BY <2>1, DepthStep DEF Next
<1> QED BY <1>1, <1>2, Invariance, PTL DEF Spec

(***************************************************************************)
(* Once nobody is on an isolate it is unlocked and unpublished, and nobody *)
(* but a user of a context holds its lock: also when hooks panic.  When    *)
(* they do not, the isolate is also entered as often as before.            *)
(***************************************************************************)
THEOREM CallsCleanUp == Spec => []NothingLeftBehind
<1>1. ASSUME IInv, "hookPanics" \notin Usage => EnteredOncePerSession PROVE NothingLeftBehind
  <2>1. ASSUME NEW i \in Isolates, \A f \in Frames : iso[f] # i
        PROVE  /\ syncMutex[i] = None /\ executionContext[i] = None
               /\ "hookPanics" \notin Usage => depth[i] = 1
    <3>1. syncMutex[i] = None
      BY <1>1, <2>1 DEF IInv, TypeOK, SessionInv, SyncInv
    <3> QED BY <1>1, <3>1 DEF IInv, SessionInv, PublishInv, EnteredOncePerSession
  <2>2. ASSUME NEW c \in Contexts, \A f \in Frames : ctx[f] # c
        PROVE  entrantMutex[c] = None
    BY <1>1, <2>2 DEF IInv, TypeOK, SessionInv, EntrantInv
  <2> QED BY <2>1, <2>2 DEF NothingLeftBehind
<1>2. CASE "hookPanics" \notin Usage
  <2>1. IInv /\ EnteredOncePerSession => NothingLeftBehind
    BY <1>1
  <2> QED BY <1>2, <2>1, Invariance, EnterExitBalance, PTL
<1>3. CASE "hookPanics" \in Usage
  <2>1. IInv => NothingLeftBehind
    BY <1>1, <1>3
  <2> QED BY <2>1, Invariance, PTL
<1> QED BY <1>2, <1>3
-----------------------------------------------------------------------------
(* Releasers *)

\* While f is at one of these points its session has released what it had to.
After == {"exit", "unpublish", "unlockSync", "unlockEntrant"}

(* A releaser waits with one context, whose session is running and has released
   it only in the moment between the calls and the clearing of the list. *)
ReleaseInv ==
    /\ \A r \in Releasers, c \in Contexts : r \in pending[c] =>
        /\ r \in added
        /\ entrantMutex[c] # None
        /\ pc[entrantMutex[c]] \notin After
        /\ released[r] = IF pc[entrantMutex[c]] = "clear" THEN 1 ELSE 0
        /\ \A d \in Contexts : r \in pending[d] => c = d
    /\ \A r \in Releasers :
        /\ released[r] \in 0 .. 1
        /\ r \notin added => released[r] = 0
        /\ r \in added /\ released[r] = 0 => \E c \in Contexts : r \in pending[c]

\* The body of a frame runs in the session of the first frame of its goroutine.
LEMMA BodyIsInSession ==
    ASSUME Usage = {}, IInv, ReentryInv, RootInv, NEW f \in Frames, pc[f] = "body"
    PROVE  /\ ctx[f] \in Contexts /\ ctx[Root(f)] = ctx[f]
           /\ Root(f) \in Frames
           /\ pc[Root(f)] = "body" /\ entrantMutex[ctx[f]] = Root(f)
<1>1. ctx[f] \in Contexts /\ ctx[f] # None
  BY NoneAssumption DEF IInv, TypeOK, SessionInv, FrameInv
<1>2. CASE f[2] = 1
  BY <1>1, <1>2, RootFacts DEF RootInv, Owner
<1>3. CASE f[2] # 1
  <2>1. Root(f) \in Frames /\ Root(f)[2] = 1 /\ Below(Root(f), f)
    BY <1>3, RootFacts
  <2>2. pc[Root(f)] = "body" /\ Owner(Root(f))
    BY <2>1 DEF IInv, SessionInv, StackInv, RootInv
  <2>3. ctx[f] = ctx[Root(f)]
    BY <1>1, <2>1, <2>2 DEF ReentryInv
  <2> QED BY <1>1, <2>1, <2>2, <2>3 DEF Owner
<1> QED BY <1>2, <1>3

\* AddReleaser appends to the list of the running session, and nobody else does.
LEMMA AddReleasesOnce ==
    ASSUME Usage = {}, IInv, ReentryInv, RootInv, ReleaseInv, NEW f \in Frames, AddReleaser(f)
    PROVE  ReleaseInv'
<1>1. /\ ctx[f] \in Contexts /\ entrantMutex[ctx[f]] = Root(f) /\ pc[Root(f)] = "body"
      /\ Root(f) \in Frames
  BY BodyIsInSession DEF AddReleaser, Running
<1>2. \A g \in Frames : pc[g] = "body" /\ ctx[g] = ctx[f] => g[1] = f[1]
  <2> SUFFICES ASSUME NEW g \in Frames, pc[g] = "body", ctx[g] = ctx[f] PROVE g[1] = f[1]
    OBVIOUS
  <2>1. entrantMutex[ctx[f]] = Root(g)
    BY BodyIsInSession
  <2>2. Root(g) = Root(f)
    BY <1>1, <2>1
  <2>3. Root(g)[1] = g[1] /\ Root(f)[1] = f[1]
    BY RootFacts
  <2> QED BY <2>2, <2>3
<1>3. PICK r \in Releasers \ added :
          added' = added \cup {r} /\ pending' = [pending EXCEPT ![ctx[f]] = @ \cup {r}]
  BY <1>2 DEF AddReleaser
<1>4. UNCHANGED <<pc, entrantMutex, released>>
  BY DEF AddReleaser, locks, frames
<1>5. /\ \A c \in Contexts : r \notin pending[c]
      /\ released[r] = 0
  BY <1>3 DEF ReleaseInv
<1>6. \A c \in Contexts, q \in Releasers :
          q \in pending'[c] <=> q \in pending[c] \/ (q = r /\ c = ctx[f])
  BY <1>1, <1>3 DEF IInv, TypeOK
<1>7. Root(f) # None /\ "body" \notin After
  BY <1>1, NoneAssumption DEF After
<1> QED BY <1>1, <1>3, <1>4, <1>5, <1>6, <1>7 DEF ReleaseInv

\* At the end of a session what waited is released once, and the list emptied.
LEMMA EndReleasesOnce ==
    ASSUME Usage = {}, IInv, ReleaseInv, NEW f \in Frames, RunReleasers(f) \/ ClearReleasers(f)
    PROVE  ReleaseInv'
<1> USE DEF IInv, TypeOK, Goto, locks
<1>1. ctx[f] \in Contexts /\ entrantMutex[ctx[f]] = f /\ f # None
  BY NoneAssumption DEF RunReleasers, ClearReleasers, SessionInv, FrameInv, EntrantInv, Owning
<1>2. \A c \in Contexts : entrantMutex[c] # None /\ c # ctx[f] =>
          entrantMutex[c] \in Frames /\ entrantMutex[c] # f
  BY DEF SessionInv, EntrantInv
<1>3. CASE RunReleasers(f)
  <2>1. /\ pc' = [pc EXCEPT ![f] = "clear"] /\ pc[f] = "ecExit"
        /\ UNCHANGED <<entrantMutex, added, pending>>
        /\ \A r \in Releasers : released'[r] = IF r \in pending[ctx[f]] THEN 1 ELSE released[r]
    BY <1>1, <1>3 DEF RunReleasers, ReleaseInv
  <2> QED BY <1>1, <1>2, <2>1 DEF ReleaseInv, After
<1>4. CASE ClearReleasers(f)
  <2>1. /\ pc' = [pc EXCEPT ![f] = "exit"] /\ pc[f] = "clear"
        /\ UNCHANGED <<entrantMutex, added, released>>
        /\ \A c \in Contexts : pending'[c] = IF c = ctx[f] THEN {} ELSE pending[c]
    BY <1>1, <1>4 DEF ClearReleasers
  <2>2. \A r \in pending[ctx[f]] : r \in Releasers /\ released[r] = 1
    BY <1>1, <2>1 DEF ReleaseInv
  <2> QED BY <1>1, <1>2, <2>1, <2>2 DEF ReleaseInv, After
<1> QED BY <1>3, <1>4

\* No other step of a frame disturbs what waits.
LEMMA OthersReleaseNothing ==
    ASSUME Usage = {}, IInv, ReleaseInv, NEW f \in Frames,
           Proceed(f), ~RunReleasers(f), ~ClearReleasers(f)
    PROVE  ReleaseInv'
<1> USE NoneAssumption DEF IInv, TypeOK, Goto, Leave, MoveOn, locks, releasing
<1>1. CASE MakeContext(f)
  <2>1. PICK c \in Contexts : Unused(c) /\ pending' = [pending EXCEPT ![c] = {}]
    BY <1>1 DEF MakeContext
  <2>2. entrantMutex[c] = None
    BY <2>1 DEF Unused, SessionInv, EntrantInv
  <2>3. pending[c] = {}
    BY <2>2 DEF ReleaseInv
  <2>4. pending' = pending /\ UNCHANGED <<entrantMutex, added, released>>
    BY <1>1, <2>1, <2>3 DEF MakeContext
  <2>5. /\ \A g \in Frames \ {f} : pc'[g] = pc[g]
        /\ \A d \in Contexts : entrantMutex[d] # f
    BY <1>1 DEF MakeContext, SessionInv, EntrantInv, Owning
  <2> QED BY <2>4, <2>5 DEF ReleaseInv
<1>2. CASE SeeContext(f) \/ TakeContext(f) \/ NilContext(f) \/ EndBackground(f) \/ Join(f)
  <2>1. UNCHANGED <<entrantMutex, added, pending, released>> /\ \A g \in Frames \ {f} : pc'[g] = pc[g]
    BY <1>2 DEF SeeContext, TakeContext, NilContext, EndBackground, Join
  <2>2. pc[f] \notin Owning
    BY <1>2 DEF SeeContext, TakeContext, NilContext, EndBackground, Join, Owning
  <2>3. \A d \in Contexts : entrantMutex[d] # f
    BY <2>2 DEF SessionInv, EntrantInv
  <2> QED BY <2>1, <2>3 DEF ReleaseInv
<1>3. CASE LockEntrant(f)
  <2>1. ctx[f] \in Contexts /\ entrantMutex[ctx[f]] = None
    BY <1>3 DEF LockEntrant, SessionInv, FrameInv
  <2>2. pending[ctx[f]] = {}
    BY <2>1 DEF ReleaseInv
  <2>3. \A d \in Contexts : entrantMutex[d] # f
    BY <1>3 DEF LockEntrant, SessionInv, EntrantInv, Owning
  <2> QED BY <1>3, <2>1, <2>2, <2>3 DEF LockEntrant, ReleaseInv
<1>4. CASE LockSync(f) \/ Publish(f) \/ Enter(f) \/ Return(f)
  <2>1. UNCHANGED <<entrantMutex, added, pending, released>> /\ \A g \in Frames \ {f} : pc'[g] = pc[g]
    BY <1>4 DEF LockSync, Publish, Enter, Return
  <2>2. /\ pc[f] \notin After \cup {"clear"}
        /\ pc'[f] \notin After \cup {"clear"}
    BY <1>4 DEF LockSync, Publish, Enter, Return, Running, After
  <2> QED BY <2>1, <2>2 DEF ReleaseInv
<1>5. CASE Exit(f) \/ Unpublish(f) \/ UnlockSync(f)
  <2>1. UNCHANGED <<entrantMutex, added, pending, released>> /\ \A g \in Frames \ {f} : pc'[g] = pc[g]
    BY <1>5 DEF Exit, Unpublish, UnlockSync
  <2>2. pc[f] \in After
    BY <1>5 DEF Exit, Unpublish, UnlockSync, After
  <2> QED BY <2>1, <2>2 DEF ReleaseInv
<1>6. CASE UnlockEntrant(f)
  <2>1. ctx[f] \in Contexts /\ entrantMutex[ctx[f]] = f
    BY <1>6 DEF UnlockEntrant, SessionInv, FrameInv, EntrantInv, Owning
  <2>2. pending[ctx[f]] = {}
    BY <1>6, <2>1 DEF ReleaseInv, UnlockEntrant, After
  <2>3. \A d \in Contexts : d # ctx[f] => entrantMutex[d] # f
    BY DEF SessionInv, EntrantInv
  <2> QED BY <1>6, <2>1, <2>2, <2>3 DEF UnlockEntrant, ReleaseInv
<1>7. ~EnterPanics(f)
  BY DEF EnterPanics
<1> QED BY <1>1, <1>2, <1>3, <1>4, <1>5, <1>6, <1>7 DEF Proceed

\* A call begins no session.
LEMMA CallReleasesNothing ==
    ASSUME IInv, ReleaseInv, NEW f \in Frames, Start(f)
    PROVE  ReleaseInv'
<1>1. PICK g \in Frames, c \in Contexts \cup {None}, i \in Isolates \cup {None},
           label \in {"tryLock", "check"} : Call(g, c, i, label)
  <2>1. CASE UserCall(f) \/ DetachedCall(f)
    BY <2>1 DEF UserCall, DetachedCall, Contexts
  <2>2. CASE NestedCall(f) \/ Callback(f)
    <3>1. Callee(f) \in Frames
      BY <2>2, CalleeIsFrame DEF NestedCall, Callback
    <3> QED BY <2>2, <3>1 DEF NestedCall, Callback, IInv, TypeOK
  <2> QED BY <2>1, <2>2 DEF Start
<1>2. UNCHANGED <<entrantMutex, added, pending, released>> /\ \A h \in Frames \ {g} : pc'[h] = pc[h]
  BY <1>1 DEF Call, Goto, locks, releasing, IInv, TypeOK
<1>3. \A d \in Contexts : entrantMutex[d] # g
  BY <1>1, NoneAssumption DEF Call, IInv, TypeOK, SessionInv, EntrantInv, Owning
<1>4. \A d \in Contexts : entrantMutex[d] # None => entrantMutex[d] \in Frames \ {g}
  BY <1>3 DEF IInv, TypeOK
<1> QED BY <1>2, <1>4 DEF ReleaseInv

(***************************************************************************)
(* With contexts of their own and nothing detached, every releaser given   *)
(* to AddReleaser is released exactly once, when its session ends.         *)
(***************************************************************************)
THEOREM ReleasersRunOnce == ASSUME Usage = {} PROVE Spec => []ReleasedOnce
<1>1. Init => ReleaseInv
  BY DEF Init, ReleaseInv
<1>2. IInv /\ ReentryInv /\ RootInv /\ ReleaseInv /\ [Next]_vars => ReleaseInv'
  <2>1. ASSUME ReleaseInv, UNCHANGED vars PROVE ReleaseInv'
    BY <2>1 DEF ReleaseInv, vars, locks, frames, releasing
  <2>2. ASSUME IInv, ReentryInv, RootInv, ReleaseInv, NEW f \in Frames, Step(f) PROVE ReleaseInv'
    BY <2>2, AddReleasesOnce, EndReleasesOnce, OthersReleaseNothing, CallReleasesNothing DEF Step
  <2> QED BY <2>1, <2>2 DEF Next
<1>3. ReleaseInv /\ IInv => ReleasedOnce
  BY DEF ReleaseInv, ReleasedOnce, IInv, TypeOK
<1>4. "crossIsolate" \notin Usage
  OBVIOUS
<1> QED BY <1>1, <1>2, <1>3, <1>4, Invariance, ReentryInvariance, RootInvariance, PTL DEF Spec
===============================================================================
