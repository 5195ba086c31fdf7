----------------------------- MODULE RequireProofs -----------------------------
(***************************************************************************)
(* The module cache keeps its promises for every program: any files and    *)
(* registered parts, in circles or not, any resolution of specifiers, any  *)
(* failures of native calls, and calls of require nested to any depth.     *)
(* And the resolution keeps its own on every file system: what is found is *)
(* a file, found again by its path, and from a file the search ends.       *)
(***************************************************************************)
EXTENDS Runtime, SequenceTheorems, TLAPS, WellFoundedInduction

(* Only the innermost call of require moves: the others wait in the code of
   their modules for the call they made. *)
CallersWait == \A n \in 1 .. Depth : n < Depth => stack[n].step = "body"

(* A module that is being evaluated is in the cache and not yet evaluated. *)
LoadingIsOpen == Loading \subseteq modules \ (loaded \cup incomplete)

(* What is in the cache is there for a reason. *)
CacheIsExplained ==
    /\ loaded \cup incomplete \subseteq modules
    /\ modules \subseteq failed \cup loaded \cup incomplete \cup Loading

IInv ==
    /\ TypeOK /\ NoReentry /\ CallersWait
    /\ LoadingIsOpen /\ CacheIsExplained /\ AnswersAreLoaded

-----------------------------------------------------------------------------
(* Calls of require *)

(* The running call is a call; if it evaluates, then a module that is loading. *)
LEMMA TopIsFrame ==
    ASSUME IInv, stack # <<>>
    PROVE  /\ Depth \in Nat \ {0} /\ Top \in Frames
           /\ Top.step # "search" => Top.id \in Loading /\ Top.id \in Ids
<1>1. stack \in Seq(Frames)
    BY DEF IInv, TypeOK
<1>2. Depth \in Nat \ {0} /\ Top \in Frames
    BY <1>1 DEF Depth, Top
<1>3. Top.step # "search" => Top.id \in Ids
    BY <1>2 DEF Frames
<1>4. Top.step # "search" => Top.id \in Loading
    BY <1>2, <1>3, NoneAssumption DEF Loading, Top
<1>5. QED
    BY <1>2, <1>3, <1>4

(* A call that moves to its next point still evaluates the same module. *)
LEMMA MovedCall ==
    ASSUME IInv, stack # <<>>, NEW f \in Frames, f.id = Top.id,
           stack' = [stack EXCEPT ![Depth] = f]
    PROVE  stack' \in Seq(Frames) /\ NoReentry' /\ CallersWait' /\ Loading' = Loading
<1>1. stack \in Seq(Frames) /\ Depth \in Nat \ {0}
    BY TopIsFrame DEF IInv, TypeOK
<1>2. stack' \in Seq(Frames) /\ Depth' = Depth
    BY <1>1 DEF Depth
<1>3. \A n \in 1 .. Depth : stack'[n].id = stack[n].id
    BY <1>1 DEF Depth, Top
<1>4. \A n \in 1 .. Depth : n < Depth => stack'[n] = stack[n]
    BY <1>1 DEF Depth
<1>5. NoReentry'
    BY <1>2, <1>3 DEF IInv, NoReentry
<1>6. CallersWait'
    BY <1>2, <1>4 DEF IInv, CallersWait
<1>7. Loading' = Loading
    BY <1>2, <1>3 DEF Loading
<1>8. QED
    BY <1>2, <1>5, <1>6, <1>7

(* A call is made by the host or by the code of a module, which then waits; it
   must be for something that is not being evaluated. *)
LEMMA NewCall ==
    ASSUME IInv, MayCall, NEW f \in Frames, f.id \notin Loading,
           stack' = Append(stack, f)
    PROVE  stack' \in Seq(Frames) /\ NoReentry' /\ CallersWait' /\ Loading' = Loading \cup ({f.id} \ {None})
<1>1. stack \in Seq(Frames) /\ Depth \in Nat
    BY DEF IInv, TypeOK, Depth
<1>2. stack' \in Seq(Frames) /\ Depth' = Depth + 1
    BY <1>1 DEF Depth
<1>3. /\ \A n \in 1 .. Depth : stack'[n] = stack[n]
      /\ stack'[Depth + 1] = f
    BY <1>1 DEF Depth
<1>4. \A n \in 1 .. Depth : stack[n].step = "body"
    BY <1>1 DEF MayCall, AtStep, Top, IInv, CallersWait, Depth
<1>5. \A n \in 1 .. Depth : stack[n].id \in Ids
    <2> SUFFICES ASSUME NEW n \in 1 .. Depth PROVE stack[n].id \in Ids
        OBVIOUS
    <2>1. stack[n] \in Frames
        BY <1>1 DEF Depth
    <2>2. QED
        BY <1>4, <2>1 DEF Frames
<1>6. \A n \in 1 .. Depth : stack[n].id # f.id
    BY <1>5, NoneAssumption DEF Loading
<1>7. NoReentry'
    <2> SUFFICES ASSUME NEW m \in 1 .. Depth + 1, NEW n \in 1 .. Depth + 1,
                        stack'[m].id = stack'[n].id
                 PROVE  m = n
        BY <1>2 DEF NoReentry
    <2>1. m \in 1 .. Depth \/ m = Depth + 1
        BY <1>1
    <2>2. n \in 1 .. Depth \/ n = Depth + 1
        BY <1>1
    <2>3. QED
        BY <1>3, <1>6, <2>1, <2>2 DEF IInv, NoReentry
<1>8. CallersWait'
    <2> SUFFICES ASSUME NEW n \in 1 .. Depth + 1, n < Depth + 1 PROVE stack'[n].step = "body"
        BY <1>2 DEF CallersWait
    <2>1. n \in 1 .. Depth
        BY <1>1
    <2>2. QED
        BY <1>3, <1>4, <2>1
<1>9. Loading' = Loading \cup ({f.id} \ {None})
    <2>1. 1 .. Depth + 1 = (1 .. Depth) \cup {Depth + 1}
        BY <1>1
    <2>2. {stack'[n].id : n \in 1 .. Depth + 1} = {stack[n].id : n \in 1 .. Depth} \cup {f.id}
        BY <1>3, <2>1
    <2>3. QED
        BY <1>2, <2>2 DEF Loading
<1>10. QED
    BY <1>2, <1>7, <1>8, <1>9

(* A call that returns ends the evaluation of its module, and of no other. *)
LEMMA EndedCall ==
    ASSUME IInv, stack # <<>>, Top.step # "search", Pop
    PROVE  stack' \in Seq(Frames) /\ NoReentry' /\ CallersWait' /\ Loading' = Loading \ {Top.id}
<1>1. stack \in Seq(Frames) /\ Depth \in Nat \ {0}
    BY TopIsFrame DEF IInv, TypeOK
<1>2. stack' \in Seq(Frames) /\ Depth' = Depth - 1
    <2> DEFINE rest == SubSeq(stack, 1, Depth - 1)
    <2>1. rest \in Seq(Frames) /\ Len(rest) = Depth - 1
        <3>1. Depth = Len(stack)
            BY DEF Depth
        <3>2. /\ 1 \in 1 .. Len(stack) + 1 /\ Depth - 1 \in 0 .. Len(stack)
              /\ \A n \in 1 .. Depth - 1 : n \in 1 .. Len(stack)
            BY <1>1, <3>1
        <3>3. QED
            BY <1>1, <3>1, <3>2, SubSeqProperties
    <2>2. QED
        BY <2>1 DEF Depth, Pop
<1>3. \A n \in 1 .. Depth - 1 : stack'[n] = stack[n]
    BY <1>1 DEF Depth, Pop
<1>4. \A n \in 1 .. Depth - 1 : n \in 1 .. Depth /\ n < Depth
    BY <1>1
<1>5. NoReentry'
    <2> SUFFICES ASSUME NEW m \in 1 .. Depth - 1, NEW n \in 1 .. Depth - 1,
                        stack'[m].id = stack'[n].id
                 PROVE  m = n
        BY <1>2 DEF NoReentry
    <2>1. stack[m].id = stack[n].id
        BY <1>3
    <2>2. QED
        BY <1>4, <2>1 DEF IInv, NoReentry
<1>6. CallersWait'
    BY <1>2, <1>3, <1>4 DEF IInv, CallersWait
<1>7. Loading' = Loading \ {Top.id}
    <2>1. 1 .. Depth = (1 .. Depth - 1) \cup {Depth}
        BY <1>1
    <2>2. \A n \in 1 .. Depth - 1 : stack[n].id # Top.id
        BY <1>1, <1>4 DEF IInv, NoReentry, Top
    <2>3. {stack'[n].id : n \in 1 .. Depth - 1} = {stack[n].id : n \in 1 .. Depth} \ {Top.id}
        BY <1>3, <2>1, <2>2 DEF Top
    <2>4. QED
        BY <1>2, <2>3 DEF Loading
<1>8. QED
    BY <1>2, <1>5, <1>6, <1>7

-----------------------------------------------------------------------------
(* Kinds of steps *)

(* An evaluation goes on: at most the exports and the error of its module change. *)
LEMMA EvaluationGoesOn ==
    ASSUME IInv, stack # <<>>, Top.step # "search", NEW f \in Frames, f.id = Top.id,
           stack' = [stack EXCEPT ![Depth] = f],
           failed' = failed \/ failed' = failed \cup {Top.id},
           exports' \in [Ids -> {None, "object", "default", "nil"}],
           answer' = None, UNCHANGED <<modules, history>>
    PROVE  IInv'
<1>1. stack' \in Seq(Frames) /\ NoReentry' /\ CallersWait' /\ Loading' = Loading
    BY MovedCall
<1>2. Top.id \in Loading
    BY TopIsFrame
<1>3. LoadingIsOpen' /\ Top.id \in modules
    BY <1>1, <1>2 DEF IInv, LoadingIsOpen, history
<1>4. TypeOK'
    BY <1>1, <1>3 DEF IInv, TypeOK, history
<1>5. CacheIsExplained'
    BY <1>1 DEF IInv, CacheIsExplained, history
<1>6. AnswersAreLoaded'
    BY DEF AnswersAreLoaded
<1>7. QED
    BY <1>1, <1>3, <1>4, <1>5, <1>6 DEF IInv

(* An evaluation ends: its module has failed, or is put down as loaded or incomplete. *)
LEMMA EvaluationEnds ==
    ASSUME IInv, stack # <<>>, Top.step # "search", Pop,
           \/ Top.id \in failed /\ answer' = None /\ UNCHANGED history
           \/ loaded' = loaded \cup {Top.id} /\ answer' \in {None, Top.id} /\ UNCHANGED incomplete
           \/ incomplete' = incomplete \cup {Top.id} /\ answer' = None /\ UNCHANGED loaded,
           UNCHANGED cache
    PROVE  IInv'
<1>1. stack' \in Seq(Frames) /\ NoReentry' /\ CallersWait' /\ Loading' = Loading \ {Top.id}
    BY EndedCall
<1>2. Top.id \in Loading /\ Top.id \in Ids
    BY TopIsFrame
<1>3. Top.id \in modules
    BY <1>2 DEF IInv, LoadingIsOpen
<1>4. TypeOK'
    BY <1>1, <1>2 DEF IInv, TypeOK, history, cache
<1>5. LoadingIsOpen'
    BY <1>1 DEF IInv, LoadingIsOpen, history, cache
<1>6. CacheIsExplained'
    BY <1>1, <1>3 DEF IInv, CacheIsExplained, history, cache
<1>7. AnswersAreLoaded'
    BY DEF AnswersAreLoaded, history
<1>8. QED
    BY <1>1, <1>4, <1>5, <1>6, <1>7 DEF IInv

(* A call of require that evaluates nothing returns at once. *)
LEMMA Answered ==
    ASSUME IInv, UNCHANGED <<cache, stack, history>>,
           answer' # None => answer' \in modules \ failed
    PROVE  IInv'
<1>1. Loading' = Loading
    BY DEF Loading, Depth
<1>2. TypeOK'
    BY DEF IInv, TypeOK, cache, history
<1>3. NoReentry' /\ CallersWait'
    BY DEF IInv, NoReentry, CallersWait, Depth
<1>4. LoadingIsOpen' /\ CacheIsExplained'
    BY <1>1 DEF IInv, LoadingIsOpen, CacheIsExplained, cache, history
<1>5. AnswersAreLoaded'
    BY <1>1 DEF IInv, CacheIsExplained, AnswersAreLoaded, history
<1>6. QED
    BY <1>2, <1>3, <1>4, <1>5 DEF IInv

-----------------------------------------------------------------------------
(* Actions *)

(* A specifier that leads to nothing, or to a module in the cache. *)
LEMMA AnsweredIInv ==
    ASSUME IInv, NEW s \in Specifiers, RequireNothing(s) \/ RequireCached(s)
    PROVE  IInv'
BY Answered DEF RequireNothing, RequireCached

(* A search without end occupies the top of the stack, and evaluates nothing. *)
LEMMA DivergesIInv ==
    ASSUME IInv, NEW s \in Specifiers, RequireDiverges(s)
    PROVE  IInv'
<1> DEFINE f == [id |-> None, part |-> 1, step |-> "search"]
<1>1. MayCall /\ stack' = Append(stack, f) /\ answer' = None /\ UNCHANGED <<cache, history>>
    BY DEF RequireDiverges
<1>2. f \in Frames /\ f.id \notin Loading
    BY DEF Frames, Loading
<1>3. stack' \in Seq(Frames) /\ NoReentry' /\ CallersWait' /\ Loading' = Loading
    BY <1>1, <1>2, NewCall
<1>4. TypeOK'
    BY <1>1, <1>3 DEF IInv, TypeOK, cache, history
<1>5. LoadingIsOpen' /\ CacheIsExplained' /\ AnswersAreLoaded'
    BY <1>1, <1>3 DEF IInv, LoadingIsOpen, CacheIsExplained, AnswersAreLoaded, cache, history
<1>6. QED
    BY <1>3, <1>4, <1>5 DEF IInv

(* A module that could not be set up is left in the cache, incomplete. *)
LEMMA FailsLateIInv ==
    ASSUME IInv, NEW s \in Specifiers, RequireFailsLate(s)
    PROVE  IInv'
<1>1. PICK id \in Ids \ modules : /\ modules' = modules \cup {id}
                                  /\ incomplete' = incomplete \cup {id}
    BY DEF RequireFailsLate
<1>2. answer' = None /\ UNCHANGED <<failed, exports, stack, loaded>>
    BY DEF RequireFailsLate
<1>3. Loading' = Loading
    BY <1>2 DEF Loading, Depth
<1>4. TypeOK'
    BY <1>1, <1>2 DEF IInv, TypeOK
<1>5. NoReentry' /\ CallersWait'
    BY <1>2 DEF IInv, NoReentry, CallersWait, Depth
<1>6. LoadingIsOpen'
    BY <1>1, <1>2, <1>3 DEF IInv, LoadingIsOpen
<1>7. CacheIsExplained' /\ AnswersAreLoaded'
    BY <1>1, <1>2, <1>3 DEF IInv, CacheIsExplained, AnswersAreLoaded
<1>8. QED
    BY <1>4, <1>5, <1>6, <1>7 DEF IInv

(* A new module is put in the cache before it is evaluated, so that it is found
   there by the modules it requires: this is why none is evaluated again. *)
LEMMA NewIInv ==
    ASSUME IInv, NEW s \in Specifiers, RequireNew(s)
    PROVE  IInv'
<1>1. PICK id \in Ids \ modules : modules' = modules \cup {id} /\ Begin(id)
    BY DEF RequireNew
<1> DEFINE f == [id |-> id, part |-> 1, step |-> "start"]
<1>2. MayCall /\ answer' = None /\ UNCHANGED <<failed, history>>
    BY DEF RequireNew
<1>3. f \in Frames /\ stack' = Append(stack, f)
    BY <1>1 DEF Frames, Begin
<1>4. f.id \notin Loading
    BY <1>1 DEF IInv, LoadingIsOpen
<1>5. /\ stack' \in Seq(Frames) /\ NoReentry' /\ CallersWait'
      /\ Loading' = Loading \cup ({id} \ {None})
    BY <1>2, <1>3, <1>4, NewCall
<1>6. TypeOK'
    BY <1>1, <1>2, <1>5 DEF IInv, TypeOK, Begin, history
<1>7. LoadingIsOpen'
    BY <1>1, <1>2, <1>5 DEF IInv, LoadingIsOpen, CacheIsExplained, history
<1>8. CacheIsExplained' /\ AnswersAreLoaded'
    BY <1>1, <1>2, <1>5, NoneAssumption DEF IInv, CacheIsExplained, AnswersAreLoaded, history
<1>9. QED
    BY <1>5, <1>6, <1>7, <1>8 DEF IInv

(* A point the running call may move to, and what moves there. *)
LEMMA EvaluationMoves ==
    ASSUME IInv, stack # <<>>, Top.step # "search",
           \/ \E step \in {"body", "next"} : Goto(step)
           \/ NextPart
           \/ Break
    PROVE  \E f \in Frames : f.id = Top.id /\ stack' = [stack EXCEPT ![Depth] = f]
<1>1. Top.id \in Ids /\ Top.part \in Nat \ {0} /\ Len(Parts[Top.id]) \in Nat
    BY TopIsFrame, PartsAssumption DEF Frames
<1>2. ASSUME NEW part \in Nat \ {0}, NEW step \in {"start", "body", "next"}, MoveTo(part, step)
      PROVE  \E f \in Frames : f.id = Top.id /\ stack' = [stack EXCEPT ![Depth] = f]
    <2> DEFINE f == [id |-> Top.id, part |-> part, step |-> step]
    <2>1. f \in Frames
        BY <1>1 DEF Frames
    <2>2. f.id = Top.id /\ stack' = [stack EXCEPT ![Depth] = f]
        BY <1>2 DEF MoveTo
    <2>3. QED
        BY <2>1, <2>2
<1>3. \E part \in Nat \ {0}, step \in {"start", "body", "next"} : MoveTo(part, step)
    BY <1>1 DEF Goto, NextPart, Break
<1>4. QED
    BY <1>2, <1>3

(* The steps of an evaluation that stay in it. *)
Going ==
    \/ StartPart \/ PartMissing \/ PartSkipped \/ EndPart \/ EndPartFails
    \/ Throw \/ ReturnFromPart

(* The steps that end it. *)
Ending == PartAborts \/ Finish \/ FinishFails

(* What each of these changes beside the stack. *)
LEMMA GoingChanges ==
    ASSUME IInv, Going
    PROVE  /\ stack # <<>> /\ Top.step # "search"
           /\ \E f \in Frames : f.id = Top.id /\ stack' = [stack EXCEPT ![Depth] = f]
           /\ failed' = failed \/ failed' = failed \cup {Top.id}
           /\ exports' \in [Ids -> {None, "object", "default", "nil"}]
           /\ answer' = None /\ UNCHANGED <<modules, history>>
<1>1. stack # <<>> /\ Top.step # "search"
    BY DEF Going, StartPart, PartMissing, PartSkipped, EndPart, EndPartFails, Throw,
           ReturnFromPart, MoreParts, AtStep
<1>2. (\E step \in {"body", "next"} : Goto(step)) \/ NextPart \/ Break
    BY DEF Going, StartPart, PartMissing, PartSkipped, EndPart, EndPartFails, Throw, ReturnFromPart
<1>3. failed' = failed \/ failed' = failed \cup {Top.id}
    BY DEF Going, StartPart, PartMissing, PartSkipped, EndPart, EndPartFails, Throw,
           ReturnFromPart, Fail, cache
<1>4. exports' = exports \/ exports' = [exports EXCEPT ![Top.id] = "default"]
    BY DEF Going, StartPart, PartMissing, PartSkipped, EndPart, EndPartFails, Throw,
           ReturnFromPart, cache
<1>5. exports' \in [Ids -> {None, "object", "default", "nil"}]
    BY <1>4 DEF IInv, TypeOK
<1>6. answer' = None /\ UNCHANGED <<modules, history>>
    BY DEF Going, StartPart, PartMissing, PartSkipped, EndPart, EndPartFails, Throw,
           ReturnFromPart, cache
<1>7. QED
    BY <1>1, <1>2, <1>3, <1>5, <1>6, EvaluationMoves

(* Going on with an evaluation keeps the invariant. *)
LEMMA GoingIInv == ASSUME IInv, Going PROVE IInv'
<1>1. PICK f \in Frames : f.id = Top.id /\ stack' = [stack EXCEPT ![Depth] = f]
    BY GoingChanges
<1>2. QED
    BY <1>1, GoingChanges, EvaluationGoesOn

(* What each end of an evaluation changes beside the stack. *)
LEMMA EndingChanges ==
    ASSUME IInv, Ending
    PROVE  /\ stack # <<>> /\ Top.step # "search" /\ Pop /\ UNCHANGED cache
           /\ \/ Top.id \in failed /\ answer' = None /\ UNCHANGED history
              \/ /\ loaded' = loaded \cup {Top.id} /\ UNCHANGED incomplete
                 /\ Top.id \notin failed /\ answer' \in {None, Top.id}
              \/ incomplete' = incomplete \cup {Top.id} /\ answer' = None /\ UNCHANGED loaded
<1>1. CASE PartAborts
    BY <1>1 DEF PartAborts, MoreParts, AtStep, cache
<1>2. CASE Finish
    BY <1>2 DEF Finish, AllParts, AtStep, cache, history
<1>3. CASE FinishFails
    BY <1>3 DEF FinishFails, AllParts, AtStep, cache
<1>4. QED
    BY <1>1, <1>2, <1>3 DEF Ending

(* Ending an evaluation keeps the invariant. *)
LEMMA EndingIInv == ASSUME IInv, Ending PROVE IInv'
BY EndingChanges, EvaluationEnds

(* The code of a module may set its exports as it likes. *)
LEMMA SetExportsIInv == ASSUME IInv, SetExports PROVE IInv'
<1>1. answer' = None /\ UNCHANGED <<modules, failed, stack, history>>
    BY DEF SetExports
<1>2. exports' \in [Ids -> {None, "object", "default", "nil"}]
    BY DEF SetExports, IInv, TypeOK
<1>3. Loading' = Loading
    BY <1>1 DEF Loading, Depth
<1>4. TypeOK'
    BY <1>1, <1>2 DEF IInv, TypeOK, history
<1>5. NoReentry' /\ CallersWait'
    BY <1>1 DEF IInv, NoReentry, CallersWait, Depth
<1>6. LoadingIsOpen' /\ CacheIsExplained' /\ AnswersAreLoaded'
    BY <1>1, <1>3 DEF IInv, LoadingIsOpen, CacheIsExplained, AnswersAreLoaded, history
<1>7. QED
    BY <1>4, <1>5, <1>6 DEF IInv

-----------------------------------------------------------------------------
(* The invariant *)

(* With an empty cache and no call of require it holds. *)
LEMMA InitIInv == Init => IInv
<1> SUFFICES ASSUME Init PROVE IInv
    OBVIOUS
<1>1. Depth = 0 /\ Loading = {}
    BY DEF Init, Depth, Loading
<1>2. TypeOK
    BY DEF Init, TypeOK
<1>3. QED
    BY <1>1, <1>2 DEF Init, IInv, NoReentry, CallersWait, LoadingIsOpen, CacheIsExplained, AnswersAreLoaded

(* The steps by kind. *)
LEMMA NextByKind ==
    ASSUME Next
    PROVE  \/ \E s \in Specifiers : \/ RequireNothing(s) \/ RequireCached(s)
                                    \/ RequireDiverges(s) \/ RequireFailsLate(s) \/ RequireNew(s)
           \/ Going \/ Ending \/ SetExports \/ KeepSearching
BY DEF Next, Require, Evaluate, Body, Going, Ending

(* Every step keeps it. *)
LEMMA NextIInv == IInv /\ [Next]_vars => IInv'
<1> SUFFICES ASSUME IInv, [Next]_vars PROVE IInv'
    OBVIOUS
<1>1. CASE UNCHANGED vars
    <2>1. UNCHANGED <<cache, stack, history, answer>>
        BY <1>1 DEF vars
    <2>2. Loading' = Loading
        BY <2>1 DEF Loading, Depth
    <2>3. TypeOK'
        BY <2>1 DEF IInv, TypeOK, cache, history
    <2>4. NoReentry' /\ CallersWait'
        BY <2>1 DEF IInv, NoReentry, CallersWait, Depth
    <2>5. LoadingIsOpen' /\ CacheIsExplained' /\ AnswersAreLoaded'
        BY <2>1, <2>2 DEF IInv, LoadingIsOpen, CacheIsExplained, AnswersAreLoaded, cache, history
    <2>6. QED
        BY <2>3, <2>4, <2>5 DEF IInv
<1>2. KeepSearching => UNCHANGED vars
    BY DEF KeepSearching
<1>3. QED
    BY <1>1, <1>2, NextByKind, AnsweredIInv, DivergesIInv, FailsLateIInv, NewIInv,
       GoingIInv, EndingIInv, SetExportsIInv

(* So it is an invariant. *)
LEMMA Invariance == Spec => []IInv
BY InitIInv, NextIInv, PTL DEF Spec

(***************************************************************************)
(* No module is evaluated inside its own evaluation, whatever circles the  *)
(* program's modules make, whichever specifiers lead to them and whatever  *)
(* fails: RequireNew only evaluates what is not in the cache.              *)
(***************************************************************************)
THEOREM ModulesDoNotReenter == Spec => []NoReentry
<1>1. IInv => NoReentry
    BY DEF IInv
<1>2. QED
    BY <1>1, Invariance, PTL

(***************************************************************************)
(* require answers with the exports of modules that are loaded, or being   *)
(* loaded by a caller, or whose object could not be completed: with those  *)
(* of a module that failed never.                                          *)
(***************************************************************************)
THEOREM AnswersAreExplained == Spec => []AnswersAreLoaded
<1>1. IInv => AnswersAreLoaded
    BY DEF IInv
<1>2. QED
    BY <1>1, Invariance, PTL

(***************************************************************************)
(* The cache, what is loaded and what failed stay sets of modules, and the *)
(* calls of require a stack of them.                                       *)
(***************************************************************************)
THEOREM TypeCorrect == Spec => []TypeOK
<1>1. IInv => TypeOK
    BY DEF IInv
<1>2. QED
    BY <1>1, Invariance, PTL

-----------------------------------------------------------------------------
(* The abstract loader *)

(* The mapping of the refinement. *)
Statuses == [id \in Ids |-> Status(id)]

LoaderStep == [Loader!Next]_<<Statuses, answer>>

(* Of each status, what it says of the cache. *)
LEMMA StatusFacts ==
    ASSUME NEW id
    PROVE  /\ id \notin modules => Status(id) = "absent"
           /\ id \in modules /\ id \in Loading => Status(id) = "loading"
           /\ id \in modules /\ id \notin Loading /\ id \in failed => Status(id) = "failed"
           /\ id \in modules \ (Loading \cup failed) /\ id \in incomplete => Status(id) = "incomplete"
           /\ id \in modules \ (Loading \cup failed \cup incomplete) => Status(id) = "loaded"
BY DEF Status

(* The same after a step. *)
LEMMA NextStatusFacts ==
    ASSUME NEW id
    PROVE  /\ id \notin modules' => Status(id)' = "absent"
           /\ id \in modules' /\ id \in Loading' => Status(id)' = "loading"
           /\ id \in modules' /\ id \notin Loading' /\ id \in failed' => Status(id)' = "failed"
           /\ id \in modules' \ (Loading' \cup failed') /\ id \in incomplete' => Status(id)' = "incomplete"
           /\ id \in modules' \ (Loading' \cup failed' \cup incomplete') => Status(id)' = "loaded"
BY DEF Status

(* A step that changes no status and answers an error is a silent request, or none. *)
LEMMA SilentStep ==
    ASSUME IInv, answer' = None, \A id \in Ids : Status(id)' = Status(id)
    PROVE  LoaderStep
<1>1. UNCHANGED Statuses
    BY DEF Statuses
<1>2. CASE answer = None
    BY <1>1, <1>2 DEF LoaderStep
<1>3. CASE answer \in Ids
    <2>1. Loader!Request(answer)
        BY <1>1 DEF Loader!Request, Loader!Silent, Statuses
    <2>2. QED
        BY <1>3, <2>1 DEF LoaderStep, Loader!Next
<1>4. QED
    BY <1>2, <1>3 DEF IInv, TypeOK

(* Nothing that the statuses depend on changes. *)
LEMMA SameStatus ==
    ASSUME modules' = modules, failed' = failed, incomplete' = incomplete, Loading' = Loading
    PROVE  \A id \in Ids : Status(id)' = Status(id)
BY DEF Status

(* require answers at once: with an error, or a module that may be answered. *)
LEMMA AnsweredRefines ==
    ASSUME IInv, NEW s \in Specifiers, RequireNothing(s) \/ RequireCached(s)
    PROVE  LoaderStep
<1>1. UNCHANGED <<cache, stack, history>> /\ (answer' = None \/ answer' \in modules \ failed)
    BY DEF RequireNothing, RequireCached
<1>2. Loading' = Loading
    BY <1>1 DEF Loading, Depth
<1>3. \A id \in Ids : Status(id)' = Status(id)
    BY <1>1, <1>2, SameStatus DEF cache, history
<1>4. CASE answer' = None
    BY <1>3, <1>4, SilentStep
<1>5. CASE answer' \in modules \ failed
    <2>1. Status(answer') \in {"loading", "loaded", "incomplete"} /\ answer' \in Ids
        BY <1>5, StatusFacts DEF IInv, TypeOK
    <2>2. Loader!Request(answer')
        BY <1>3, <2>1 DEF Loader!Request, Loader!Answer, Statuses
    <2>3. QED
        BY <2>1, <2>2 DEF LoaderStep, Loader!Next
<1>6. QED
    BY <1>1, <1>4, <1>5

(* A module that comes into the cache is loading or, when its object cannot be
   set up, incomplete; the others stay as they are. *)
LEMMA LoadRefines ==
    ASSUME IInv, NEW s \in Specifiers, RequireNew(s) \/ RequireFailsLate(s)
    PROVE  LoaderStep
<1>1. IInv'
    BY NewIInv, FailsLateIInv
<1>2. PICK id \in Ids \ modules :
        /\ modules' = modules \cup {id} /\ failed' = failed /\ answer' = None
        /\ \/ MayCall /\ Begin(id) /\ incomplete' = incomplete
           \/ stack' = stack /\ incomplete' = incomplete \cup {id}
    BY DEF RequireNew, RequireFailsLate, history
<1>3. id \notin Loading /\ id \notin failed
    BY DEF IInv, LoadingIsOpen, TypeOK
<1>4. \/ Loading' = Loading \cup {id} /\ incomplete' = incomplete
      \/ Loading' = Loading /\ incomplete' = incomplete \cup {id}
    <2>1. CASE MayCall /\ Begin(id) /\ incomplete' = incomplete
        <3> DEFINE f == [id |-> id, part |-> 1, step |-> "start"]
        <3>1. f \in Frames /\ stack' = Append(stack, f)
            BY <2>1 DEF Frames, Begin
        <3>2. QED
            BY <1>3, <2>1, <3>1, NewCall, NoneAssumption
    <2>2. CASE stack' = stack /\ incomplete' = incomplete \cup {id}
        BY <2>2 DEF Loading, Depth
    <2>3. QED
        BY <1>2, <2>1, <2>2
<1>5. Status(id) = "absent" /\ Status(id)' \in {"loading", "incomplete"}
    BY <1>2, <1>3, <1>4, StatusFacts, NextStatusFacts
<1>6. \A other \in Ids \ {id} : Status(other)' = Status(other)
    BY <1>2, <1>4 DEF Status
<1>7. Statuses' = [Statuses EXCEPT ![id] = Status(id)']
    BY <1>6 DEF Statuses
<1>8. Loader!Load(id)
    BY <1>2, <1>5, <1>7 DEF Loader!Load, Loader!Silent, Statuses
<1>9. QED
    BY <1>8 DEF LoaderStep, Loader!Next

(* While a module is evaluated it is loading, whatever is recorded of it. *)
LEMMA GoingRefines ==
    ASSUME IInv, Going
    PROVE  LoaderStep
<1>1. PICK f \in Frames : f.id = Top.id /\ stack' = [stack EXCEPT ![Depth] = f]
    BY GoingChanges
<1>2. /\ stack # <<>> /\ Top.step # "search" /\ answer' = None
      /\ failed' = failed \/ failed' = failed \cup {Top.id}
      /\ UNCHANGED <<modules, history>>
    BY GoingChanges
<1>3. Loading' = Loading
    BY <1>1, <1>2, MovedCall
<1>4. Top.id \in Loading
    BY <1>2, TopIsFrame
<1>5. \A id \in Ids : Status(id)' = Status(id)
    BY <1>2, <1>3, <1>4 DEF Status, history
<1>6. QED
    BY <1>2, <1>5, SilentStep

(* When the evaluation ends it has one of its ends, and is answered if it is loaded. *)
LEMMA EndingRefines ==
    ASSUME IInv, Ending
    PROVE  LoaderStep
<1>1. stack # <<>> /\ Top.step # "search" /\ Pop /\ UNCHANGED cache
    BY EndingChanges
<1> PICK id \in Ids : id = Top.id
    BY <1>1, TopIsFrame
<1>2. \/ id \in failed /\ answer' = None /\ UNCHANGED history
      \/ id \notin failed /\ answer' \in {None, id} /\ UNCHANGED incomplete
      \/ incomplete' = incomplete \cup {id} /\ answer' = None
    BY EndingChanges
<1>3. id \in Ids /\ id \in Loading /\ Loading' = Loading \ {id}
    BY <1>1, TopIsFrame, EndedCall
<1>4. id \in modules /\ id \notin incomplete
    BY <1>3 DEF IInv, LoadingIsOpen
<1>5. Status(id) = "loading"
    BY <1>3, <1>4, StatusFacts
<1>6. UNCHANGED <<modules, failed>>
    BY <1>1 DEF cache
<1>7. Status(id)' \in {"loaded", "failed", "incomplete"} /\ (answer' = None \/ (Status(id)' = "loaded" /\ answer' = id))
    BY <1>2, <1>3, <1>4, <1>6, NextStatusFacts DEF history
<1>8. \A other \in Ids \ {id} : Status(other)' = Status(other)
    BY <1>2, <1>3, <1>6 DEF Status, history
<1>9. Statuses' = [Statuses EXCEPT ![id] = Status(id)'] /\ Statuses'[id] = Status(id)'
    BY <1>3, <1>8 DEF Statuses
<1>10. Loader!Finish(id, Status(id)')
    BY <1>3, <1>5, <1>7, <1>9 DEF Loader!Finish, Loader!Silent, Loader!Answer, Statuses
<1>11. QED
    BY <1>3, <1>7, <1>10 DEF LoaderStep, Loader!Next, Loader!Ends

(* What does not concern the loader: a search without end, and new exports. *)
LEMMA OthersRefine ==
    ASSUME IInv, SetExports \/ \E s \in Specifiers : RequireDiverges(s)
    PROVE  LoaderStep
<1>1. CASE SetExports
    <2>1. answer' = None /\ UNCHANGED <<modules, failed, stack, history>>
        BY <1>1 DEF SetExports
    <2>2. Loading' = Loading
        BY <2>1 DEF Loading, Depth
    <2>3. QED
        BY <2>1, <2>2, SameStatus, SilentStep DEF history
<1>2. ASSUME NEW s \in Specifiers, RequireDiverges(s) PROVE LoaderStep
    <2> DEFINE f == [id |-> None, part |-> 1, step |-> "search"]
    <2>1. MayCall /\ stack' = Append(stack, f) /\ answer' = None /\ UNCHANGED <<cache, history>>
        BY <1>2 DEF RequireDiverges
    <2>2. f \in Frames /\ f.id \notin Loading
        BY DEF Frames, Loading
    <2>3. Loading' = Loading
        BY <2>1, <2>2, NewCall
    <2>4. QED
        BY <2>1, <2>3, SameStatus, SilentStep DEF cache, history
<1>3. QED
    BY <1>1, <1>2

(* Every step is one of the loader, or invisible there. *)
LEMMA NextRefines ==
    ASSUME IInv, [Next]_vars
    PROVE  LoaderStep
<1>1. CASE UNCHANGED vars
    <2>1. UNCHANGED <<cache, stack, history, answer>>
        BY <1>1 DEF vars
    <2>2. Loading' = Loading
        BY <2>1 DEF Loading, Depth
    <2>3. UNCHANGED Statuses
        BY <2>1, <2>2, SameStatus DEF Statuses, cache, history
    <2>4. QED
        BY <2>1, <2>3 DEF LoaderStep
<1>2. KeepSearching => UNCHANGED vars
    BY DEF KeepSearching
<1>3. QED
    BY <1>1, <1>2, NextByKind, AnsweredRefines, LoadRefines, GoingRefines, EndingRefines, OthersRefine

(***************************************************************************)
(* The cache of RunWithRuntime implements a module loader, for every       *)
(* program: a module is evaluated at most once, and what became of it is   *)
(* never taken back, under failures of native calls too.                   *)
(***************************************************************************)
THEOREM CacheIsLoader == Spec => ImplementsLoader
<1>1. Init => Loader!Init
    BY DEF Init, Loader!Init, Status
<1>2. IInv /\ [Next]_vars => [Loader!Next]_<<Statuses, answer>>
    BY NextRefines DEF LoaderStep
<1>3. Statuses = [id \in Ids |-> Status(id)]
    BY DEF Statuses
<1>4. QED
    BY <1>1, <1>2, <1>3, Invariance, PTL DEF Spec, ImplementsLoader, Loader!Spec, Statuses


-----------------------------------------------------------------------------
(* Recursion on a measure *)

(* Induction over the naturals, for a set. *)
LEMMA SetInduction ==
    ASSUME NEW S, 0 \in S, \A n \in Nat : n \in S => n + 1 \in S
    PROVE  Nat \subseteq S
<1>1. SUFFICES ASSUME Nat \ S # {} PROVE FALSE
    OBVIOUS
<1> DEFINE R == OpToRel(<, Nat)
           T == Nat \ S
<1>2. \A x, y \in Nat : y < x => <<y, x>> \in R
    BY DEF OpToRel
<1>3. PICK x \in T : \A y \in T : <<y, x>> \notin R
    <2> HIDE DEF R
    <2>1. IsWellFoundedOn(R, Nat)
        BY NatLessThanWellFounded DEF R
    <2>2. T \subseteq Nat /\ T # {}
        BY <1>1
    <2> HIDE DEF T
    <2>3. QED
        BY <2>1, <2>2, WFMin
<1>4. x \in Nat /\ x # 0
    BY <1>3
<1>5. x - 1 \in Nat /\ x - 1 < x
    BY <1>4
<1>6. x - 1 \notin T
    <2> HIDE DEF T, R
    <2>1. QED
        BY <1>2, <1>3, <1>4, <1>5
<1>7. (x - 1) + 1 \in S /\ (x - 1) + 1 = x
    BY <1>4, <1>5, <1>6
<1>8. QED
    BY <1>3, <1>4, <1>7

(* A set of naturals has a least one. *)
LEMMA LeastExists ==
    ASSUME NEW S \in SUBSET Nat, S # {}
    PROVE  \E i \in S : \A j \in S : i <= j
<1> DEFINE R == OpToRel(<, Nat)
<1>1. \A x, y \in Nat : y < x => <<y, x>> \in R
    BY DEF OpToRel
<1> HIDE DEF R
<1>2. PICK x \in S : \A y \in S : <<y, x>> \notin R
    <2>1. IsWellFoundedOn(R, Nat)
        BY NatLessThanWellFounded DEF R
    <2>2. QED
        BY <2>1, WFMin
<1>3. ASSUME NEW y \in S PROVE x <= y
    <2>1. ~(y < x)
        BY <1>1, <1>2
    <2>2. QED
        BY <2>1
<1>4. QED
    BY <1>3

(* What holds of each thing if it holds of those with a lesser measure. *)
LEMMA ByMeasure ==
    ASSUME NEW D, NEW G, NEW mu \in [D -> Nat],
           \A x \in D : (\A y \in D : mu[y] < mu[x] => y \in G) => x \in G
    PROVE  D \subseteq G
<1> DEFINE S == {n \in Nat : \A x \in D : mu[x] < n => x \in G}
<1>1. 0 \in S
    OBVIOUS
<1>2. ASSUME NEW n \in Nat, n \in S PROVE n + 1 \in S
    <2>1. ASSUME NEW x \in D, mu[x] < n + 1 PROVE x \in G
        <3>1. \A y \in D : mu[y] < mu[x] => mu[y] < n
            BY <2>1
        <3>2. \A y \in D : mu[y] < n => y \in G
            BY <1>2
        <3>3. QED
            BY <3>1, <3>2
    <2>2. QED
        BY <2>1
<1>3. Nat \subseteq S
    <2> HIDE DEF S
    <2>1. QED
        BY <1>1, <1>2, SetInduction
<1>4. ASSUME NEW x \in D PROVE x \in G
    <2>1. mu[x] + 1 \in S /\ mu[x] < mu[x] + 1
        BY <1>3
    <2>2. QED
        BY <2>1
<1>5. QED
    BY <1>4

(* What step makes of a function, at each place, depends on its values at places of a lesser measure. *)
Descends(D, R, mu, step) ==
    /\ R # {} /\ mu \in [D -> Nat] /\ step \in [D -> [[D -> R] -> R]]
    /\ \A x \in D : \A f, g \in [D -> R] :
          (\A y \in D : mu[y] < mu[x] => f[y] = g[y]) => step[x][f] = step[x][g]

(* A function that recurses in this way exists. *)
LEMMA RecursionExists ==
    ASSUME NEW D, NEW R, NEW mu, NEW step, Descends(D, R, mu, step)
    PROVE  \E f \in [D -> R] : \A x \in D : f[x] = step[x][f]
<1>0. /\ R # {} /\ mu \in [D -> Nat] /\ step \in [D -> [[D -> R] -> R]]
      /\ \A x \in D : \A f, g \in [D -> R] :
            (\A y \in D : mu[y] < mu[x] => f[y] = g[y]) => step[x][f] = step[x][g]
    BY DEF Descends
<1> USE <1>0
<1> DEFINE UpTo(f, n) == f \in [D -> R] /\ \A x \in D : mu[x] < n => f[x] = step[x][f]
           S == {n \in Nat : \E f : UpTo(f, n)}
<1>1. 0 \in S
    <2>1. PICK r \in R : TRUE
        OBVIOUS
    <2>2. UpTo([x \in D |-> r], 0)
        OBVIOUS
    <2>3. QED
        BY <2>2
<1>2. ASSUME NEW n \in Nat, n \in S PROVE n + 1 \in S
    <2>1. PICK f : UpTo(f, n)
        BY <1>2
    <2> DEFINE g == [x \in D |-> step[x][f]]
    <2>2. g \in [D -> R]
        BY <2>1
    <2>3. ASSUME NEW x \in D, mu[x] < n + 1 PROVE g[x] = step[x][g]
        <3>1. ASSUME NEW y \in D, mu[y] < mu[x] PROVE g[y] = f[y]
            <4>1. mu[y] < n
                BY <2>3, <3>1
            <4>2. QED
                BY <2>1, <4>1
        <3>2. step[x][g] = step[x][f]
            <4> HIDE DEF g
            <4>1. QED
                BY <2>1, <2>2, <3>1
        <3>3. QED
            BY <3>2
    <2>4. UpTo(g, n + 1)
        BY <2>2, <2>3
    <2> HIDE DEF g, UpTo
    <2>5. QED
        BY <2>4
<1>3. ASSUME NEW n \in Nat PROVE \E f : UpTo(f, n)
    <2>1. Nat \subseteq S
        <3> HIDE DEF S
        <3>1. QED
            BY <1>1, <1>2, SetInduction
    <2>2. QED
        BY <2>1
<1>4. ASSUME NEW n \in Nat, NEW m \in Nat, n <= m, NEW f, NEW g, UpTo(f, n), UpTo(g, m)
      PROVE  \A x \in D : mu[x] < n => f[x] = g[x]
    <2> DEFINE G == {x \in D : mu[x] < n => f[x] = g[x]}
    <2>1. ASSUME NEW x \in D, \A y \in D : mu[y] < mu[x] => y \in G PROVE x \in G
        <3>1. ASSUME mu[x] < n PROVE f[x] = g[x]
            <4>1. \A y \in D : mu[y] < mu[x] => f[y] = g[y]
                BY <2>1, <3>1
            <4>2. step[x][f] = step[x][g]
                BY <1>4, <4>1
            <4>3. f[x] = step[x][f] /\ g[x] = step[x][g]
                BY <1>4, <3>1
            <4>4. QED
                BY <4>2, <4>3
        <3>2. QED
            BY <3>1
    <2>2. D \subseteq G
        <3> HIDE DEF G
        <3>1. QED
            BY <2>1, ByMeasure
    <2>3. QED
        BY <2>2
<1> DEFINE H(n) == CHOOSE f : UpTo(f, n)
           F == [x \in D |-> H(mu[x] + 1)[x]]
<1>5. \A n \in Nat : UpTo(H(n), n)
    BY <1>3
<1> HIDE DEF H, S
<1>6. \A x \in D : F[x] = H(mu[x] + 1)[x] /\ mu[x] + 1 \in Nat
    OBVIOUS
<1>7. F \in [D -> R]
    BY <1>5, <1>6
<1> HIDE DEF F
<1>8. ASSUME NEW x \in D PROVE F[x] = step[x][F]
    <2> DEFINE f == H(mu[x] + 1)
    <2>1. UpTo(f, mu[x] + 1)
        BY <1>5
    <2> HIDE DEF f
    <2>2. F[x] = f[x] /\ mu[x] < mu[x] + 1
        BY <1>6 DEF f
    <2>3. ASSUME NEW y \in D, mu[y] < mu[x] PROVE F[y] = f[y]
        <3>1. UpTo(H(mu[y] + 1), mu[y] + 1)
            BY <1>5
        <3>2. mu[y] + 1 <= mu[x] + 1 /\ mu[y] < mu[y] + 1
            BY <2>3
        <3>3. H(mu[y] + 1)[y] = f[y]
            <4>1. mu[y] + 1 \in Nat /\ mu[x] + 1 \in Nat
                BY <1>6
            <4> DEFINE n == mu[y] + 1
                       m == mu[x] + 1
            <4>2. n \in Nat /\ m \in Nat /\ n <= m /\ mu[y] < n /\ UpTo(H(n), n) /\ UpTo(f, m)
                BY <2>1, <3>1, <3>2, <4>1
            <4> HIDE DEF n, m
            <4>3. H(n)[y] = f[y]
                BY <1>4, <4>2
            <4>4. QED
                BY <4>3 DEF n
        <3>4. QED
            BY <1>6, <3>3
    <2>4. step[x][F] = step[x][f]
        BY <1>7, <2>1, <2>3
    <2>5. QED
        BY <2>1, <2>2, <2>4
<1>9. QED
    BY <1>7, <1>8

-----------------------------------------------------------------------------
(* Answers *)

Answers(fs) == {path \in DOMAIN fs.kind : IsFile(fs, path)} \cup {Nothing}

(* What FileSystemsAssumption says of one path. *)
LEMMA PathFacts ==
    ASSUME NEW fs \in FileSystems, NEW path \in DOMAIN fs.kind
    PROVE  /\ path \in SomePaths /\ Len(path) \in 1 .. LongestPath
           /\ DOMAIN path = 1 .. Len(path)
           /\ path # Nothing /\ path # Endless
           /\ \A n \in 1 .. (Len(path) - 1) : SubSeq(path, 1, n) \in Directories(fs)
           /\ IsFile(fs, path) \/ path \in Directories(fs)
           /\ ~ (IsFile(fs, path) /\ path \in Directories(fs))
           /\ LongestPath \in Nat
<1>1. /\ path \in SomePaths /\ Len(path) <= LongestPath
      /\ fs.kind[path] \in {"file", "directory"}
      /\ \A n \in 1 .. (Len(path) - 1) : IsDirectory(fs, SubSeq(path, 1, n))
      /\ {Nothing, Endless} \cap DOMAIN fs.kind = {}
      /\ LongestPath \in Nat
    BY FileSystemsAssumption
<1>2. path \in SomePaths /\ Len(path) \in 1 .. LongestPath /\ DOMAIN path = 1 .. Len(path)
    BY <1>1 DEF SomePaths
<1>3. \A n \in 1 .. (Len(path) - 1) : SubSeq(path, 1, n) \in Directories(fs)
    BY <1>1 DEF Directories, IsDirectory, Exists
<1>4. /\ IsFile(fs, path) \/ path \in Directories(fs)
      /\ ~ (IsFile(fs, path) /\ path \in Directories(fs))
    BY <1>1 DEF IsFile, IsDirectory, Directories, Exists
<1>5. QED
    BY <1>1, <1>2, <1>3, <1>4

(* The first of some answers is an answer. *)
LEMMA FirstFoundTyped ==
    ASSUME NEW A, Nothing \in A, NEW answers, DOMAIN answers \subseteq Nat,
           \A n \in DOMAIN answers : answers[n] \in A
    PROVE  FirstFound(answers) \in A
<1> DEFINE found == {n \in DOMAIN answers : answers[n] # Nothing}
           first == CHOOSE n \in found : \A m \in found : n <= m
<1>1. CASE found = {}
    BY <1>1 DEF FirstFound
<1>2. CASE found # {}
    <2>1. found \in SUBSET Nat
        OBVIOUS
    <2>2. \E n \in found : \A m \in found : n <= m
        <3> HIDE DEF found
        <3>1. QED
            BY <1>2, <2>1, LeastExists
    <2>3. first \in found
        <3> HIDE DEF found
        <3>1. QED
            BY <2>2
    <2>4. FirstFound(answers) = answers[first]
        BY <1>2 DEF FirstFound
    <2> HIDE DEF first
    <2>5. QED
        BY <2>3, <2>4
<1>3. QED
    BY <1>1, <1>2

(* What a look finds is a file, if what it finds in directories is. *)
LEMMA LookTyped ==
    ASSUME NEW fs, NEW index, NEW path, NEW extended,
           path \in Directories(fs) => index[path] \in Answers(fs),
           \A n \in DOMAIN Extensions :
               extended[n] \in Directories(fs) => index[extended[n]] \in Answers(fs)
    PROVE  Look(fs, index, path, extended) \in Answers(fs)
<1> DEFINE At(p) == CASE IsFile(fs, p) -> p
                      [] IsDirectory(fs, p) -> index[p]
                      [] OTHER -> Nothing
           tries == [n \in DOMAIN Extensions |-> At(extended[n])]
<1>1. Look(fs, index, path, extended) = IF Exists(fs, path) THEN At(path) ELSE FirstFound(tries)
    BY DEF Look
<1>2. ASSUME NEW p, p \in Directories(fs) => index[p] \in Answers(fs) PROVE At(p) \in Answers(fs)
    <2>1. CASE IsFile(fs, p)
        <3>1. At(p) = p
            BY <2>1 DEF IsFile, IsDirectory
        <3>2. p \in DOMAIN fs.kind
            BY <2>1 DEF IsFile, Exists
        <3>3. QED
            BY <2>1, <3>1, <3>2 DEF Answers
    <2>2. CASE ~ IsFile(fs, p) /\ IsDirectory(fs, p)
        BY <1>2, <2>2 DEF Directories, IsDirectory, Exists
    <2>3. CASE ~ IsFile(fs, p) /\ ~ IsDirectory(fs, p)
        BY <2>3 DEF Answers
    <2>4. QED
        BY <2>1, <2>2, <2>3
<1>3. At(path) \in Answers(fs) /\ \A n \in DOMAIN Extensions : At(extended[n]) \in Answers(fs)
    BY <1>2
<1> HIDE DEF At
<1>4. DOMAIN tries \subseteq Nat /\ Nothing \in Answers(fs)
    BY ComponentsAssumption DEF Answers
<1>5. FirstFound(tries) \in Answers(fs)
    <2>1. \A n \in DOMAIN tries : tries[n] \in Answers(fs)
        BY <1>3
    <2> HIDE DEF tries
    <2>2. QED
        BY <1>4, <2>1, FirstFoundTyped
<1>6. QED
    BY <1>1, <1>3, <1>5

(* A look depends on the indexes of the directories it finds. *)
LEMMA LookAgrees ==
    ASSUME NEW fs, NEW f, NEW g, NEW path, NEW extended,
           path \in Directories(fs) => f[path] = g[path],
           \A n \in DOMAIN Extensions :
               extended[n] \in Directories(fs) => f[extended[n]] = g[extended[n]]
    PROVE  Look(fs, f, path, extended) = Look(fs, g, path, extended)
<1> DEFINE At(index, p) == CASE IsFile(fs, p) -> p
                             [] IsDirectory(fs, p) -> index[p]
                             [] OTHER -> Nothing
           tries(index) == [n \in DOMAIN Extensions |-> At(index, extended[n])]
<1>1. \A index : Look(fs, index, path, extended) =
                     IF Exists(fs, path) THEN At(index, path) ELSE FirstFound(tries(index))
    BY DEF Look
<1>2. ASSUME NEW p, p \in Directories(fs) => f[p] = g[p] PROVE At(f, p) = At(g, p)
    BY <1>2 DEF Directories, IsDirectory, Exists
<1>3. At(f, path) = At(g, path) /\ \A n \in DOMAIN Extensions : At(f, extended[n]) = At(g, extended[n])
    BY <1>2
<1> HIDE DEF At
<1>4. tries(f) = tries(g)
    BY <1>3
<1> HIDE DEF tries
<1>5. QED
    BY <1>1, <1>3, <1>4

-----------------------------------------------------------------------------
(* Indexes of directories *)

ExtendedIndex(dir) == [n \in DOMAIN Extensions |-> WithExtension(IndexOf(dir), Extensions[n])]

(* The index of a directory is one longer, with an extension and without. *)
LEMMA IndexIsLonger ==
    ASSUME NEW fs \in FileSystems, NEW dir \in Directories(fs), NEW p \in Directories(fs),
           p = IndexOf(dir) \/ \E n \in DOMAIN Extensions : p = ExtendedIndex(dir)[n]
    PROVE  Len(p) = Len(dir) + 1
<1>1. p \in DOMAIN fs.kind /\ dir \in DOMAIN fs.kind
    BY DEF Directories
<1>2. dir \in Seq(Components) /\ Len(dir) \in Nat \ {0} /\ Len(p) \in Nat \ {0} /\ DOMAIN p = 1 .. Len(p)
    BY <1>1, PathFacts DEF SomePaths
<1> DEFINE i == IndexOf(dir)
<1>3. i \in Seq(Components) /\ Len(i) = Len(dir) + 1 /\ DOMAIN i = 1 .. (Len(dir) + 1)
    <2>1. "index" \in Components
        BY ComponentsAssumption
    <2>2. \A name \in Components : /\ Append(dir, name) \in Seq(Components)
                               /\ Len(Append(dir, name)) = Len(dir) + 1
        BY <1>2
    <2>3. i \in Seq(Components) /\ Len(i) = Len(dir) + 1
        BY <2>1, <2>2 DEF IndexOf
    <2> HIDE DEF i
    <2>4. QED
        BY <2>3
<1>4. i # Root
    <2>1. Len(Root) = 1
        BY DEF Root
    <2>2. QED
        BY <1>2, <1>3, <2>1
<1>5. CASE p = i
    BY <1>3, <1>5
<1>6. CASE \E n \in DOMAIN Extensions : p = ExtendedIndex(dir)[n]
    <2>1. PICK n \in DOMAIN Extensions : p = WithExtension(i, Extensions[n])
        BY <1>6 DEF ExtendedIndex
    <2> HIDE DEF i
    <2>2. p = [i EXCEPT ![Len(i)] = @ \o Extensions[n]]
        BY <1>4, <2>1 DEF WithExtension
    <2>3. DOMAIN p = 1 .. (Len(dir) + 1)
        BY <1>3, <2>2
    <2> DEFINE a == Len(p)
               b == Len(dir) + 1
    <2>4. a \in Nat \ {0} /\ b \in Nat \ {0}
        BY <1>2
    <2>5. 1 .. a = 1 .. b
        <3>1. DOMAIN p = 1 .. a
            BY <1>2
        <3>2. QED
            BY <2>3, <3>1
    <2> HIDE DEF a, b
    <2>6. a = b
        <3>1. a \in 1 .. b /\ b \in 1 .. a
            BY <2>4, <2>5
        <3>2. QED
            BY <2>4, <3>1
    <2>7. QED
        BY <2>6 DEF a, b
<1>7. QED
    BY <1>5, <1>6

(* Index recurses: a directory is as deep as its path is long. *)
LEMMA IndexUnfolds ==
    ASSUME NEW fs \in FileSystems
    PROVE  \A dir \in Directories(fs) :
               Index(fs)[dir] = Look(fs, Index(fs), IndexOf(dir), ExtendedIndex(dir))
<1> DEFINE D == Directories(fs)
           A == Answers(fs)
           mu == [dir \in D |-> LongestPath - Len(dir)]
           at(f, dir) == Look(fs, f, IndexOf(dir), ExtendedIndex(dir))
           step == [dir \in D |-> [f \in [D -> A] |-> at(f, dir)]]
<1>1. mu \in [D -> Nat] /\ \A x, y \in D : Len(y) = Len(x) + 1 => mu[y] < mu[x]
    <2>1. \A dir \in D : Len(dir) \in 1 .. LongestPath /\ LongestPath \in Nat
        BY PathFacts DEF Directories
    <2> HIDE DEF D
    <2>2. QED
        BY <2>1
<1> HIDE DEF mu
<1>2. ASSUME NEW dir \in D, NEW f \in [D -> A] PROVE at(f, dir) \in A
    BY LookTyped
<1>3. step \in [D -> [[D -> A] -> A]]
    <2> HIDE DEF D, A, at
    <2>1. QED
        BY <1>2
<1>4. ASSUME NEW x \in D, NEW f \in [D -> A], NEW g \in [D -> A],
             \A y \in D : mu[y] < mu[x] => f[y] = g[y]
      PROVE  step[x][f] = step[x][g]
    <2>1. \A p \in D : (p = IndexOf(x) \/ \E n \in DOMAIN Extensions : p = ExtendedIndex(x)[n])
                          => f[p] = g[p]
        BY <1>1, <1>4, IndexIsLonger
    <2>2. at(f, x) = at(g, x)
        BY <2>1, LookAgrees
    <2>3. step[x][f] = at(f, x) /\ step[x][g] = at(g, x)
        <3> HIDE DEF D, A, at
        <3>1. QED
            OBVIOUS
    <2>4. QED
        BY <2>2, <2>3
<1>5. \E f \in [D -> A] : \A x \in D : f[x] = step[x][f]
    <2>1. A # {}
        BY DEF Answers
    <2> HIDE DEF D, A, step
    <2>2. \A x \in D : \A f, g \in [D -> A] :
              (\A y \in D : mu[y] < mu[x] => f[y] = g[y]) => step[x][f] = step[x][g]
        BY <1>4
    <2>3. mu \in [D -> Nat]
        BY <1>1
    <2>4. Descends(D, A, mu, step)
        BY <1>3, <2>1, <2>2, <2>3 DEF Descends
    <2>5. QED
        BY <2>4, RecursionExists
<1>6. \E F : F = [dir \in D |-> at(F, dir)]
    <2>1. PICK f \in [D -> A] : \A x \in D : f[x] = step[x][f]
        BY <1>5
    <2>2. \A x \in D : f[x] = at(f, x)
        <3> HIDE DEF D, A, at
        <3>1. QED
            BY <2>1
    <2> HIDE DEF D, A, at
    <2>3. f = [dir \in D |-> at(f, dir)]
        BY <2>2
    <2>4. QED
        BY <2>3
<1>7. Index(fs) = CHOOSE F : F = [dir \in D |-> at(F, dir)]
    BY DEF Index, ExtendedIndex
<1>8. Index(fs) = [dir \in D |-> at(Index(fs), dir)]
    <2> HIDE DEF D, at
    <2>1. QED
        BY <1>6, <1>7
<1>9. QED
    <2> HIDE DEF D
    <2>1. \A dir \in D : Index(fs)[dir] = at(Index(fs), dir)
        <3> HIDE DEF at
        <3>1. QED
            BY <1>8
    <2>2. QED
        BY <2>1 DEF D

(* What stands for a directory is a file. *)
LEMMA IndexTyped ==
    ASSUME NEW fs \in FileSystems
    PROVE  \A dir \in Directories(fs) : Index(fs)[dir] \in Answers(fs)
<1> DEFINE D == Directories(fs)
           G == {dir \in D : Index(fs)[dir] \in Answers(fs)}
           mu == [dir \in D |-> LongestPath - Len(dir)]
<1>1. mu \in [D -> Nat] /\ \A x, y \in D : Len(y) = Len(x) + 1 => mu[y] < mu[x]
    <2>1. \A dir \in D : Len(dir) \in 1 .. LongestPath /\ LongestPath \in Nat
        BY PathFacts DEF Directories
    <2> HIDE DEF D
    <2>2. QED
        BY <2>1
<1> HIDE DEF mu
<1>2. ASSUME NEW x \in D, \A y \in D : mu[y] < mu[x] => y \in G PROVE x \in G
    <2>1. \A p \in D : (p = IndexOf(x) \/ \E n \in DOMAIN Extensions : p = ExtendedIndex(x)[n])
                          => Index(fs)[p] \in Answers(fs)
        BY <1>1, <1>2, IndexIsLonger
    <2>2. Look(fs, Index(fs), IndexOf(x), ExtendedIndex(x)) \in Answers(fs)
        BY <2>1, LookTyped
    <2>3. QED
        BY <2>2, IndexUnfolds
<1>3. D \subseteq G
    <2> HIDE DEF D, G
    <2>1. QED
        BY <1>1, <1>2, ByMeasure
<1>4. QED
    BY <1>3

LEMMA ExtensionTyped ==
    ASSUME NEW fs \in FileSystems, NEW dir, NEW file
    PROVE  Extension(fs, dir, file) \in Answers(fs)
BY IndexTyped, LookTyped DEF Extension

-----------------------------------------------------------------------------
(* Inside a package *)

(* What the conditions of exports lead to is a file. *)
LEMMA ConditionTyped ==
    ASSUME NEW fs \in FileSystems, NEW dir \in DOMAIN fs.description,
           NEW value \in DOMAIN fs.description[dir].json
    PROVE  Condition(fs, dir, value) \in Answers(fs)
<1> DEFINE json == fs.description[dir].json
           D == DOMAIN json
           A == Answers(fs)
           mu == [v \in D |-> Len(json) - v]
           at(f, v) == Leads(fs, dir, json[v], f)
           step == [v \in D |-> [f \in [D -> A] |-> at(f, v)]]
           Follow == CHOOSE F : F = [v \in D |-> at(F, v)]
<1>1. Condition(fs, dir, value) = Follow[value]
    BY DEF Condition
<1>2. /\ D = 1 .. Len(json) /\ Len(json) \in Nat
      /\ \A v \in D : json[v].is = "object" =>
            \A c \in DOMAIN json[v].of : json[v].of[c] \in (v + 1) .. Len(json)
    BY JsonAssumption
<1>3. value \in D
    OBVIOUS
<1> HIDE DEF json
<1>4. /\ mu \in [D -> Nat]
      /\ \A v \in D : json[v].is = "object" =>
            \A c \in DOMAIN json[v].of : json[v].of[c] \in D /\ mu[json[v].of[c]] < mu[v]
    <2>1. \A x, y \in D : x < y => Len(json) - y < Len(json) - x
        BY <1>2
    <2>2. \A v \in D : Len(json) - v \in Nat
        BY <1>2
    <2>3. \A v \in D : json[v].is = "object" =>
             \A c \in DOMAIN json[v].of : json[v].of[c] \in D /\ v < json[v].of[c]
        BY <1>2
    <2> HIDE DEF D
    <2>4. QED
        BY <2>1, <2>2, <2>3
<1>5. DOMAIN Conditions \subseteq Nat /\ Nothing \in A
    BY DEF Conditions, Answers
<1> HIDE DEF mu, D
<1> DEFINE Tries(f, v) == [n \in DOMAIN Conditions |->
                              IF Conditions[n] \in DOMAIN json[v].of
                              THEN f[json[v].of[Conditions[n]]] ELSE Nothing]
<1>6. ASSUME NEW v \in D PROVE
        \A f : CASE json[v].is = "path"   -> at(f, v) = Extension(fs, dir, json[v].path)
                 [] json[v].is = "object" -> at(f, v) = FirstFound(Tries(f, v))
                 [] OTHER                 -> at(f, v) = Nothing
    BY DEF Leads
<1> HIDE DEF at
<1>7. ASSUME NEW f, NEW v \in D, \A y \in D : mu[y] < mu[v] => f[y] \in A PROVE at(f, v) \in A
    <2>1. CASE json[v].is = "path"
        BY <1>6, <2>1, ExtensionTyped
    <2>2. CASE json[v].is = "object"
        <3>1. \A n \in DOMAIN Conditions : Tries(f, v)[n] \in A
            BY <1>4, <1>5, <1>7, <2>2
        <3>2. DOMAIN Tries(f, v) = DOMAIN Conditions
            OBVIOUS
        <3> HIDE DEF Tries, A
        <3>3. FirstFound(Tries(f, v)) \in A
            BY <1>5, <3>1, <3>2, FirstFoundTyped
        <3>4. QED
            BY <1>6, <2>2, <3>3
    <2>3. CASE json[v].is \notin {"path", "object"}
        BY <1>5, <1>6, <2>3
    <2>4. QED
        BY <2>1, <2>2, <2>3
<1>8. ASSUME NEW x \in D, NEW f, NEW g, \A y \in D : mu[y] < mu[x] => f[y] = g[y]
      PROVE  at(f, x) = at(g, x)
    <2>1. ASSUME json[x].is = "object" PROVE Tries(f, x) = Tries(g, x)
        BY <1>4, <1>8, <2>1
    <2> HIDE DEF Tries
    <2>2. QED
        BY <1>6, <2>1
<1> HIDE DEF A
<1>9. Descends(D, A, mu, step)
    <2>1. step \in [D -> [[D -> A] -> A]]
        BY <1>7
    <2>2. \A x \in D : \A f \in [D -> A] : step[x][f] = at(f, x)
        OBVIOUS
    <2>3. ASSUME NEW x \in D, NEW f \in [D -> A], NEW g \in [D -> A],
                 \A y \in D : mu[y] < mu[x] => f[y] = g[y]
          PROVE  step[x][f] = step[x][g]
        BY <1>8, <2>2, <2>3
    <2> HIDE DEF step
    <2>4. QED
        BY <1>4, <1>5, <2>1, <2>3 DEF Descends
<1>10. \E F : F = [v \in D |-> at(F, v)]
    <2>1. PICK f \in [D -> A] : \A x \in D : f[x] = step[x][f]
        <3> HIDE DEF step
        <3>1. QED
            BY <1>9, RecursionExists
    <2>2. f = [v \in D |-> at(f, v)]
        BY <2>1
    <2>3. QED
        BY <2>2
<1>11. \A v \in D : Follow[v] = at(Follow, v)
    <2>1. Follow = [v \in D |-> at(Follow, v)]
        BY <1>10
    <2> HIDE DEF Follow
    <2>2. QED
        BY <2>1
<1> HIDE DEF Follow
<1> DEFINE G == {v \in D : Follow[v] \in A}
<1>12. ASSUME NEW x \in D, \A y \in D : mu[y] < mu[x] => y \in G PROVE x \in G
    BY <1>7, <1>11, <1>12
<1>13. D \subseteq G
    <2> HIDE DEF G
    <2>1. QED
        BY <1>4, <1>12, ByMeasure
<1>14. QED
    BY <1>1, <1>3, <1>13 DEF A

(* What is found in a package is a file; nothing, where there is no package.json. *)
LEMMA DescriptionTyped ==
    ASSUME NEW fs \in FileSystems, NEW dir, NEW packagePath
    PROVE  /\ FromDescriptionFile(fs, dir, packagePath) \subseteq Answers(fs)
           /\ dir \notin DOMAIN fs.description =>
                 FromDescriptionFile(fs, dir, packagePath) = {Nothing}
<1> DEFINE d == fs.description[dir]
           exported == {Condition(fs, dir, e.value) :
                           e \in {x \in d.exports : x.key = packagePath}} \ {Nothing}
           plain == IF packagePath = Here /\ d.main # Nothing THEN d.main ELSE packagePath
<1>1. FromDescriptionFile(fs, dir, packagePath) =
          IF dir \notin DOMAIN fs.description THEN {Nothing}
          ELSE IF exported # {} THEN exported
          ELSE {Extension(fs, dir, plain)}
    BY DEF FromDescriptionFile
<1>2. Nothing \in Answers(fs)
    BY DEF Answers
<1>3. Extension(fs, dir, plain) \in Answers(fs)
    BY ExtensionTyped
<1>4. ASSUME dir \in DOMAIN fs.description PROVE exported \subseteq Answers(fs)
    <2>1. ASSUME NEW e \in d.exports PROVE Condition(fs, dir, e.value) \in Answers(fs)
        <3>1. e.value \in DOMAIN d.json
            BY <1>4, JsonAssumption
        <3>2. QED
            BY <1>4, <3>1, ConditionTyped
    <2>2. QED
        BY <2>1
<1> HIDE DEF exported, plain
<1>5. QED
    BY <1>1, <1>2, <1>3, <1>4

-----------------------------------------------------------------------------
(* Absolute paths *)

(* The index of a directory is a path, and one longer. *)
LEMMA IndexIsPath ==
    ASSUME NEW path \in SomePaths
    PROVE  IndexOf(path) \in SomePaths /\ Len(IndexOf(path)) = Len(path) + 1 /\ Len(path) \in Nat \ {0}
<1>1. "index" \in Components
    BY ComponentsAssumption
<1>2. \A name \in Components : /\ Append(path, name) \in Seq(Components)
                               /\ Len(Append(path, name)) = Len(path) + 1
                               /\ Len(path) \in Nat \ {0}
    BY DEF SomePaths
<1>3. IndexOf(path) \in Seq(Components) /\ Len(IndexOf(path)) = Len(path) + 1 /\ Len(path) \in Nat \ {0}
    BY <1>1, <1>2 DEF IndexOf
<1>4. \A s \in Seq(Components) : Len(s) > 1 => s # <<>>
    OBVIOUS
<1>5. Len(IndexOf(path)) > 1
    BY <1>3
<1>6. QED
    BY <1>3, <1>4, <1>5 DEF SomePaths

(* An absolute path leads to files if the index of the directory does. *)
LEMMA AbsoluteTyped ==
    ASSUME NEW fs \in FileSystems, NEW path, NEW try,
           path \in Directories(fs) => try[IndexOf(path)] \subseteq Answers(fs)
    PROVE  AbsoluteBy(fs, path, try) \subseteq Answers(fs)
<1> DEFINE Extended(n) == WithExtension(path, Extensions[n])
           tries == [n \in DOMAIN Extensions |-> IF IsFile(fs, Extended(n)) THEN Extended(n) ELSE Nothing]
           file == FirstFound(tries)
           described == FromDescriptionFile(fs, path, Here)
           A == Answers(fs)
<1>1. AbsoluteBy(fs, path, try) =
          IF file # Nothing THEN {file}
          ELSE IF IsDirectory(fs, path)
               THEN (described \ {Nothing}) \cup (IF Nothing \in described THEN try[IndexOf(path)] ELSE {})
          ELSE IF IsFile(fs, path) THEN {path}
          ELSE {Nothing}
    BY DEF AbsoluteBy
<1>2. Nothing \in A /\ \A p : IsFile(fs, p) => p \in A
    BY DEF Answers, IsFile, Exists
<1> HIDE DEF A, Extended
<1>3. file \in A
    <2>1. DOMAIN tries \subseteq Nat /\ \A n \in DOMAIN tries : tries[n] \in A
        BY <1>2, ComponentsAssumption
    <2> HIDE DEF tries
    <2>2. QED
        BY <1>2, <2>1, FirstFoundTyped
<1>4. described \subseteq A
    BY DescriptionTyped DEF A
<1>5. IsDirectory(fs, path) => try[IndexOf(path)] \subseteq A
    BY DEF Directories, IsDirectory, Exists, A
<1> HIDE DEF file, described
<1>6. AbsoluteBy(fs, path, try) \subseteq A
    BY <1>1, <1>2, <1>3, <1>4, <1>5
<1>7. QED
    BY <1>6 DEF A

(* It depends on the index of a directory alone. *)
LEMMA AbsoluteAgrees ==
    ASSUME NEW fs, NEW path, NEW f, NEW g,
           path \in Directories(fs) => f[IndexOf(path)] = g[IndexOf(path)]
    PROVE  AbsoluteBy(fs, path, f) = AbsoluteBy(fs, path, g)
<1>1. IsDirectory(fs, path) => path \in Directories(fs)
    BY DEF Directories, IsDirectory, Exists
<1>2. QED
    BY <1>1 DEF AbsoluteBy

(* ResolveAbsolute recurses, from a directory to its index, and leads to files. *)
LEMMA AbsoluteUnfolds ==
    ASSUME NEW fs \in FileSystems, NEW path \in SomePaths
    PROVE  /\ ResolveAbsolute(fs, path) \subseteq Answers(fs)
           /\ \E try : ResolveAbsolute(fs, path) = AbsoluteBy(fs, path, try)
<1> DEFINE D == SomePaths
           A == SUBSET Answers(fs)
           depth(p) == IF Len(p) > LongestPath THEN 0 ELSE LongestPath + 1 - Len(p)
           mu == [p \in D |-> depth(p)]
           at(f, p) == AbsoluteBy(fs, p, f)
           step == [p \in D |-> [f \in [D -> A] |-> at(f, p)]]
           Try == CHOOSE F : F = [p \in D |-> at(F, p)]
<1>1. ResolveAbsolute(fs, path) = Try[path]
    BY DEF ResolveAbsolute
<1>2. /\ mu \in [D -> Nat]
      /\ \A p \in Directories(fs) \cap D : IndexOf(p) \in D /\ mu[IndexOf(p)] < mu[p]
    <2>1. LongestPath \in Nat
        BY FileSystemsAssumption
    <2>2. \A p \in D : /\ IndexOf(p) \in D /\ Len(IndexOf(p)) = Len(p) + 1
                       /\ Len(p) \in Nat \ {0}
        BY IndexIsPath
    <2>3. \A p \in Directories(fs) : Len(p) \in 1 .. LongestPath
        BY PathFacts DEF Directories
    <2> HIDE DEF D
    <2>4. \A p \in D : depth(p) \in Nat
        BY <2>1, <2>2
    <2>5. \A p \in Directories(fs) \cap D : depth(IndexOf(p)) < depth(p)
        BY <2>1, <2>2, <2>3
    <2> HIDE DEF depth
    <2>6. QED
        BY <2>2, <2>4, <2>5
<1> HIDE DEF mu, depth
<1>3. ASSUME NEW f, NEW p \in D, \A q \in D : mu[q] < mu[p] => f[q] \in A PROVE at(f, p) \in A
    BY <1>2, <1>3, AbsoluteTyped
<1>4. ASSUME NEW x \in D, NEW f, NEW g, \A y \in D : mu[y] < mu[x] => f[y] = g[y]
      PROVE  at(f, x) = at(g, x)
    BY <1>2, <1>4, AbsoluteAgrees
<1>5. {} \in A
    OBVIOUS
<1> HIDE DEF A, at, D
<1>6. Descends(D, A, mu, step)
    <2>1. step \in [D -> [[D -> A] -> A]]
        BY <1>3
    <2>2. \A x \in D : \A f \in [D -> A] : step[x][f] = at(f, x)
        OBVIOUS
    <2>3. ASSUME NEW x \in D, NEW f \in [D -> A], NEW g \in [D -> A],
                 \A y \in D : mu[y] < mu[x] => f[y] = g[y]
          PROVE  step[x][f] = step[x][g]
        BY <1>4, <2>2, <2>3
    <2> HIDE DEF step
    <2>4. QED
        BY <1>2, <1>5, <2>1, <2>3 DEF Descends
<1>7. \E F : F = [p \in D |-> at(F, p)]
    <2>1. PICK f \in [D -> A] : \A x \in D : f[x] = step[x][f]
        <3> HIDE DEF step
        <3>1. QED
            BY <1>6, RecursionExists
    <2>2. f = [p \in D |-> at(f, p)]
        BY <2>1
    <2>3. QED
        BY <2>2
<1>8. \A p \in D : Try[p] = at(Try, p)
    <2>1. Try = [p \in D |-> at(Try, p)]
        BY <1>7
    <2> HIDE DEF Try
    <2>2. QED
        BY <2>1
<1> HIDE DEF Try
<1> DEFINE G == {p \in D : Try[p] \in A}
<1>9. ASSUME NEW x \in D, \A y \in D : mu[y] < mu[x] => y \in G PROVE x \in G
    BY <1>3, <1>8, <1>9
<1>10. D \subseteq G
    <2> HIDE DEF G
    <2>1. QED
        BY <1>2, <1>9, ByMeasure
<1>11. Try[path] \in A /\ Try[path] = at(Try, path)
    BY <1>8, <1>10 DEF D
<1>12. QED
    BY <1>1, <1>11 DEF A, at

-----------------------------------------------------------------------------
(* The directories around a file *)

(* The directory of a path is a path; it is shorter, or the path has no other. *)
LEMMA DirFacts ==
    ASSUME NEW path \in SomePaths
    PROVE  /\ Dir(path) \in SomePaths
           /\ Dir(path) = path \/ Len(Dir(path)) < Len(path)
           /\ Dir(path) = path <=> Len(path) = 1
           /\ IsAbs(path) => IsAbs(Dir(path)) /\ (Dir(path) = path => path = Root)
           /\ Dir(path) # path => Dir(path) = SubSeq(path, 1, Len(path) - 1)
           /\ Len(path) \in Nat \ {0} /\ Len(Dir(path)) \in Nat \ {0}
<1>1. path \in Seq(Components) /\ path # <<>> /\ Len(path) \in Nat \ {0}
    BY DEF SomePaths
<1>2. CASE Len(path) = 1
    <2>1. Dir(path) = path
        BY <1>2 DEF Dir
    <2>2. IsAbs(path) => path = Root
        <3>1. ASSUME IsAbs(path) PROVE path = Root
            <4>1. path[1] = "/" /\ path = <<path[1]>>
                BY <1>1, <1>2, <3>1 DEF IsAbs
            <4>2. QED
                BY <4>1 DEF Root
        <3>2. QED
            BY <3>1
    <2>3. QED
        BY <1>1, <1>2, <2>1, <2>2
<1>3. CASE Len(path) # 1
    <2> DEFINE n == Len(path) - 1
               d == SubSeq(path, 1, n)
    <2>1. n \in Nat \ {0} /\ n < Len(path)
        BY <1>1, <1>3
    <2>2. d \in Seq(Components) /\ Len(d) = n /\ d[1] = path[1]
        <3>1. 1 \in Int /\ n \in Int /\ \A i \in 1 .. n : path[i] \in Components
            BY <1>1, <2>1
        <3> HIDE DEF n
        <3>2. d \in Seq(Components) /\ Len(d) = IF 1 <= n THEN n - 1 + 1 ELSE 0
            BY <3>1, SubSeqProperties
        <3>3. \A i \in 1 .. n - 1 + 1 : d[i] = path[1 + i - 1]
            BY <3>1, SubSeqProperties
        <3>4. n \in Nat \ {0}
            BY <2>1
        <3>5. QED
            BY <3>2, <3>3, <3>4
    <2>3. Dir(path) = d
        BY <1>3 DEF Dir
    <2> HIDE DEF d
    <2>4. d # <<>>
        BY <2>1, <2>2
    <2>5. Head(d) = d[1] /\ Head(path) = path[1]
        BY <1>1, <2>2, <2>4
    <2>6. d # path
        BY <2>1, <2>2
    <2>7. d \in SomePaths /\ Len(d) \in Nat \ {0} /\ Len(d) < Len(path)
        BY <2>1, <2>2, <2>4 DEF SomePaths
    <2>8. IsAbs(path) => IsAbs(d)
        BY <2>2, <2>5 DEF IsAbs
    <2>9. d = SubSeq(path, 1, Len(path) - 1)
        BY DEF d
    <2>10. QED
        BY <1>1, <1>3, <2>3, <2>6, <2>7, <2>8, <2>9
<1>4. QED
    BY <1>2, <1>3

(* Search recurses, from a directory to the one around it. *)
LEMMA SearchUnfolds ==
    ASSUME NEW fs \in FileSystems, NEW id
    PROVE  \A at \in SomePaths :
               /\ Search(fs, at, id) \subseteq Answers(fs) \cup {Endless}
               /\ \E from : /\ Search(fs, at, id) = Outward(fs, id, at, from)
                            /\ from[Dir(at)] = Search(fs, Dir(at), id)
<1> DEFINE D == SomePaths
           A == SUBSET (Answers(fs) \cup {Endless})
           mu == [p \in D |-> Len(p)]
           at(f, p) == Outward(fs, id, p, f)
           step == [p \in D |-> [f \in [D -> A] |-> at(f, p)]]
           From == CHOOSE F : F = [p \in D |-> at(F, p)]
<1>1. \A p : Search(fs, p, id) = From[p]
    BY DEF Search
<1>2. mu \in [D -> Nat] /\ \A p \in D : Dir(p) \in D /\ (Dir(p) = p \/ mu[Dir(p)] < mu[p])
    <2>1. \A p \in D : Dir(p) \in D /\ (Dir(p) = p \/ Len(Dir(p)) < Len(p)) /\ Len(p) \in Nat
        BY DirFacts
    <2> HIDE DEF D
    <2>2. QED
        BY <2>1
<1> HIDE DEF mu
<1>3. ASSUME NEW f, NEW p \in D, \A q \in D : mu[q] < mu[p] => f[q] \in A PROVE at(f, p) \in A
    <2>1. InDirectory(fs, p, id) \subseteq Answers(fs)
        BY DescriptionTyped DEF InDirectory
    <2>2. Dir(p) # p => f[Dir(p)] \in A
        BY <1>2, <1>3
    <2>3. Nothing \in Answers(fs)
        BY DEF Answers
    <2>4. QED
        BY <2>1, <2>2, <2>3 DEF Outward
<1>4. ASSUME NEW x \in D, NEW f, NEW g, \A y \in D : mu[y] < mu[x] => f[y] = g[y]
      PROVE  at(f, x) = at(g, x)
    <2>1. Dir(x) # x => f[Dir(x)] = g[Dir(x)]
        BY <1>2, <1>4
    <2>2. QED
        BY <2>1 DEF Outward
<1>5. {} \in A
    OBVIOUS
<1> HIDE DEF A, at, D
<1>6. Descends(D, A, mu, step)
    <2>1. step \in [D -> [[D -> A] -> A]]
        BY <1>3
    <2>2. \A x \in D : \A f \in [D -> A] : step[x][f] = at(f, x)
        OBVIOUS
    <2>3. ASSUME NEW x \in D, NEW f \in [D -> A], NEW g \in [D -> A],
                 \A y \in D : mu[y] < mu[x] => f[y] = g[y]
          PROVE  step[x][f] = step[x][g]
        BY <1>4, <2>2, <2>3
    <2> HIDE DEF step
    <2>4. QED
        BY <1>2, <1>5, <2>1, <2>3 DEF Descends
<1>7. \E F : F = [p \in D |-> at(F, p)]
    <2>1. PICK f \in [D -> A] : \A x \in D : f[x] = step[x][f]
        <3> HIDE DEF step
        <3>1. QED
            BY <1>6, RecursionExists
    <2>2. f = [p \in D |-> at(f, p)]
        BY <2>1
    <2>3. QED
        BY <2>2
<1>8. \A p \in D : From[p] = at(From, p)
    <2>1. From = [p \in D |-> at(From, p)]
        BY <1>7
    <2> HIDE DEF From
    <2>2. QED
        BY <2>1
<1> HIDE DEF From
<1> DEFINE G == {p \in D : From[p] \in A}
<1>9. ASSUME NEW x \in D, \A y \in D : mu[y] < mu[x] => y \in G PROVE x \in G
    BY <1>3, <1>8, <1>9
<1>10. D \subseteq G
    <2> HIDE DEF G
    <2>1. QED
        BY <1>2, <1>9, ByMeasure
<1>11. ASSUME NEW p \in D
       PROVE  /\ Search(fs, p, id) \in A
              /\ Search(fs, p, id) = at(From, p) /\ From[Dir(p)] = Search(fs, Dir(p), id)
    BY <1>1, <1>8, <1>10
<1>12. QED
    BY <1>11 DEF A, at, D

-----------------------------------------------------------------------------
(* Paths that are joined *)

(* Entering a name leads from a path to a path. *)
LEMMA EnterTyped ==
    ASSUME NEW path \in SomePaths, NEW name \in Components
    PROVE  Enter(path, name) \in SomePaths /\ (IsAbs(path) => IsAbs(Enter(path, name)))
<1>1. Dir(path) \in SomePaths /\ (IsAbs(path) => IsAbs(Dir(path)))
    BY DirFacts
<1>2. Append(path, name) \in SomePaths /\ (IsAbs(path) => IsAbs(Append(path, name)))
    <2>1. path \in Seq(Components) /\ path # <<>>
        BY DEF SomePaths
    <2>2. Append(path, name) \in Seq(Components) /\ Append(path, name) # <<>>
        BY <2>1, AppendProperties
    <2>3. Append(path, name)[1] = path[1]
        <3>1. Len(path) \in Nat \ {0} /\ 1 \in 1 .. Len(path)
            BY <2>1
        <3>2. QED
            BY <2>1, <3>1, AppendProperties
    <2>4. Head(path) = path[1] /\ Head(Append(path, name)) = Append(path, name)[1]
        BY <2>1, <2>2
    <2>5. QED
        BY <2>2, <2>3, <2>4 DEF IsAbs, SomePaths
<1>3. QED
    BY <1>1, <1>2 DEF Enter

(* Join enters one name after the other. *)
LEMMA JoinUnfolds ==
    ASSUME NEW path \in SomePaths, NEW names \in SomePaths
    PROVE  \E F : /\ Join(path, names) = F[Len(names)] /\ F[0] = path
                  /\ \A n \in 1 .. Len(names) : F[n] = Enter(F[n - 1], names[n])
<1> DEFINE D == 0 .. Len(names)
           A == SomePaths
           mu == [n \in D |-> n]
           at(f, n) == IF n = 0 THEN path ELSE Enter(f[n - 1], names[n])
           step == [n \in D |-> [f \in [D -> A] |-> at(f, n)]]
           Joined == CHOOSE F : F = [n \in D |-> at(F, n)]
<1>1. Join(path, names) = Joined[Len(names)]
    BY DEF Join
<1>2. names \in Seq(Components) /\ Len(names) \in Nat /\ \A n \in 1 .. Len(names) : names[n] \in Components
    BY DEF SomePaths
<1>3. /\ mu \in [D -> Nat] /\ Len(names) \in D
      /\ \A n \in D : n # 0 => n - 1 \in D /\ mu[n - 1] < mu[n] /\ names[n] \in Components
    <2>1. \A n \in D : n \in Nat
        BY <1>2
    <2>2. \A n \in D : n # 0 => n - 1 \in D /\ n - 1 < n /\ n \in 1 .. Len(names)
        BY <1>2
    <2>3. Len(names) \in D
        BY <1>2
    <2> HIDE DEF D
    <2>4. QED
        BY <1>2, <2>1, <2>2, <2>3
<1> HIDE DEF mu, D
<1>4. ASSUME NEW f, NEW n \in D, \A m \in D : mu[m] < mu[n] => f[m] \in A PROVE at(f, n) \in A
    BY <1>3, <1>4, EnterTyped
<1>5. ASSUME NEW x \in D, NEW f, NEW g, \A y \in D : mu[y] < mu[x] => f[y] = g[y]
      PROVE  at(f, x) = at(g, x)
    BY <1>3, <1>5
<1>6. path \in A
    OBVIOUS
<1>7. \A f : \A n \in D : /\ n = 0 => at(f, n) = path
                          /\ n # 0 => at(f, n) = Enter(f[n - 1], names[n])
    OBVIOUS
<1> HIDE DEF A, at
<1>8. Descends(D, A, mu, step)
    <2>1. step \in [D -> [[D -> A] -> A]]
        BY <1>4
    <2>2. \A x \in D : \A f \in [D -> A] : step[x][f] = at(f, x)
        OBVIOUS
    <2>3. ASSUME NEW x \in D, NEW f \in [D -> A], NEW g \in [D -> A],
                 \A y \in D : mu[y] < mu[x] => f[y] = g[y]
          PROVE  step[x][f] = step[x][g]
        BY <1>5, <2>2, <2>3
    <2> HIDE DEF step
    <2>4. QED
        BY <1>3, <1>6, <2>1, <2>3 DEF Descends
<1>9. \E F : F = [n \in D |-> at(F, n)]
    <2>1. PICK f \in [D -> A] : \A x \in D : f[x] = step[x][f]
        <3> HIDE DEF step
        <3>1. QED
            BY <1>8, RecursionExists
    <2>2. f = [n \in D |-> at(f, n)]
        BY <2>1
    <2>3. QED
        BY <2>2
<1>10. \A n \in D : Joined[n] = at(Joined, n)
    <2>1. Joined = [n \in D |-> at(Joined, n)]
        BY <1>9
    <2> HIDE DEF Joined
    <2>2. QED
        BY <2>1
<1> HIDE DEF Joined
<1>11. Joined[0] = path /\ \A n \in 1 .. Len(names) : Joined[n] = Enter(Joined[n - 1], names[n])
    <2>1. 0 \in D /\ \A n \in 1 .. Len(names) : n \in D /\ n # 0
        BY <1>2 DEF D
    <2>2. QED
        BY <1>7, <1>10, <2>1
<1>12. QED
    BY <1>1, <1>11

LEMMA JoinTyped ==
    ASSUME NEW path \in SomePaths, NEW names \in SomePaths
    PROVE  Join(path, names) \in SomePaths /\ (IsAbs(path) => IsAbs(Join(path, names)))
<1>1. PICK F : /\ Join(path, names) = F[Len(names)] /\ F[0] = path
               /\ \A n \in 1 .. Len(names) : F[n] = Enter(F[n - 1], names[n])
    BY JoinUnfolds
<1>2. Len(names) \in Nat /\ \A n \in 1 .. Len(names) : names[n] \in Components
    BY DEF SomePaths
<1> DEFINE P(p) == p \in SomePaths /\ (IsAbs(path) => IsAbs(p))
           S == {n \in Nat : n <= Len(names) => P(F[n])}
<1>3. 0 \in S
    BY <1>1
<1>4. ASSUME NEW n \in Nat, n \in S PROVE n + 1 \in S
    <2>1. ASSUME n + 1 <= Len(names) PROVE P(F[n + 1])
        <3>1. P(F[n])
            BY <1>2, <1>4, <2>1
        <3>2. F[n + 1] = Enter(F[n], names[n + 1]) /\ names[n + 1] \in Components
            <4>1. n + 1 \in 1 .. Len(names) /\ (n + 1) - 1 = n
                BY <1>2, <2>1
            <4>2. QED
                BY <1>1, <1>2, <4>1
        <3>3. QED
            BY <3>1, <3>2, EnterTyped
    <2> HIDE DEF P
    <2>2. QED
        BY <2>1
<1>5. Nat \subseteq S
    <2> HIDE DEF S
    <2>1. QED
        BY <1>3, <1>4, SetInduction
<1>6. QED
    BY <1>1, <1>2, <1>5

-----------------------------------------------------------------------------
(* The answers of require *)

(* From an absolute path the search for a package ends, at a file or with nothing. *)
LEMMA SearchEnds ==
    ASSUME NEW fs \in FileSystems, NEW id
    PROVE  \A at \in SomePaths : IsAbs(at) => Search(fs, at, id) \subseteq Answers(fs)
<1> DEFINE D == {p \in SomePaths : IsAbs(p)}
           G == {p \in D : Search(fs, p, id) \subseteq Answers(fs)}
           mu == [p \in D |-> Len(p)]
<1>1. /\ mu \in [D -> Nat]
      /\ \A p \in D : Dir(p) \in D /\ (Dir(p) = p => p = Root) /\ (Dir(p) = p \/ mu[Dir(p)] < mu[p])
    <2>1. \A p \in D : /\ Dir(p) \in D /\ (Dir(p) = p => p = Root)
                       /\ Dir(p) = p \/ Len(Dir(p)) < Len(p)
                       /\ Len(p) \in Nat
        BY DirFacts
    <2> HIDE DEF D
    <2>2. QED
        BY <2>1
<1> HIDE DEF mu
<1>2. ASSUME NEW x \in D, \A y \in D : mu[y] < mu[x] => y \in G PROVE x \in G
    <2>1. InDirectory(fs, x, id) \subseteq Answers(fs)
        BY DescriptionTyped DEF InDirectory
    <2>2. PICK from : /\ Search(fs, x, id) = Outward(fs, id, x, from)
                      /\ from[Dir(x)] = Search(fs, Dir(x), id)
        BY SearchUnfolds
    <2>3. Dir(x) # x => from[Dir(x)] \subseteq Answers(fs)
        BY <1>1, <1>2, <2>2
    <2>4. Nothing \in Answers(fs)
        BY DEF Answers
    <2>5. Dir(x) = x => x = Root
        BY <1>1
    <2>6. QED
        BY <2>1, <2>2, <2>3, <2>4, <2>5 DEF Outward
<1>3. D \subseteq G
    <2> HIDE DEF D, G
    <2>1. QED
        BY <1>1, <1>2, ByMeasure
<1>4. QED
    BY <1>3

(* The paths inside another. *)
Inside(path) ==
    {p \in Seq(Components) : Len(p) > Len(path) /\ \A i \in 1 .. Len(path) : p[i] = path[i]}

LEMMA InsideFacts ==
    ASSUME NEW path \in SomePaths, NEW p \in Inside(path)
    PROVE  /\ p \in SomePaths /\ Len(p) \in Nat /\ Len(path) \in 1 .. (Len(p) - 1)
           /\ SubSeq(p, 1, Len(path)) = path
<1>1. path \in Seq(Components) /\ Len(path) \in Nat \ {0} /\ p \in Seq(Components) /\ Len(p) \in Nat
    BY DEF SomePaths, Inside
<1>2. Len(p) > Len(path) /\ \A i \in 1 .. Len(path) : p[i] = path[i]
    BY DEF Inside
<1> DEFINE n == Len(path)
           q == SubSeq(p, 1, n)
<1>3. q \in Seq(Components) /\ Len(q) = n /\ \A i \in 1 .. n : q[i] = path[i]
    <2>1. 1 \in Int /\ n \in Nat \ {0} /\ \A i \in 1 .. n : p[i] \in Components /\ p[i] = path[i]
        BY <1>1, <1>2
    <2> HIDE DEF n
    <2>2. /\ q \in Seq(Components) /\ Len(q) = IF 1 <= n THEN n - 1 + 1 ELSE 0
          /\ \A i \in 1 .. n - 1 + 1 : q[i] = p[1 + i - 1]
        BY <2>1, SubSeqProperties
    <2>3. QED
        BY <2>1, <2>2
<1> HIDE DEF q
<1>4. q = path
    BY <1>1, <1>3, SeqEqual
<1>5. p \in SomePaths
    BY <1>1, <1>2 DEF SomePaths
<1>6. QED
    BY <1>1, <1>2, <1>4, <1>5 DEF q

(* A name leads further inside. *)
LEMMA AppendInside ==
    ASSUME NEW path \in SomePaths, NEW p, p = path \/ p \in Inside(path), NEW name \in Components
    PROVE  /\ Append(p, name) \in Inside(path)
           /\ Len(Append(p, name)) = Len(p) + 1 /\ Append(p, name)[Len(p) + 1] = name
           /\ Dir(Append(p, name)) = p
<1>1. p \in Seq(Components) /\ Len(p) >= Len(path) /\ \A i \in 1 .. Len(path) : p[i] = path[i]
    BY DEF Inside, SomePaths
<1>2. Len(path) \in Nat \ {0} /\ Len(p) \in Nat \ {0}
    <2>1. Len(path) \in Nat \ {0}
        BY DEF SomePaths
    <2>2. QED
        BY <1>1, <2>1
<1> DEFINE q == Append(p, name)
<1>3. /\ q \in Seq(Components) /\ Len(q) = Len(p) + 1
      /\ \A i \in 1 .. Len(p) : q[i] = p[i]
      /\ q[Len(p) + 1] = name
    BY <1>1, AppendProperties
<1>4. SubSeq(q, 1, Len(p)) = p
    <2> DEFINE n == Len(p)
               r == SubSeq(q, 1, n)
    <2>1. 1 \in Int /\ n \in Nat \ {0} /\ \A i \in 1 .. n : q[i] \in Components /\ q[i] = p[i]
        BY <1>1, <1>2, <1>3
    <2> HIDE DEF n, q
    <2>2. /\ r \in Seq(Components) /\ Len(r) = IF 1 <= n THEN n - 1 + 1 ELSE 0
          /\ \A i \in 1 .. n - 1 + 1 : r[i] = q[1 + i - 1]
        BY <2>1, SubSeqProperties
    <2> HIDE DEF r
    <2>3. r \in Seq(Components) /\ Len(r) = Len(p) /\ \A i \in 1 .. Len(r) : r[i] = p[i]
        BY <2>1, <2>2 DEF n
    <2>4. r = p
        BY <1>1, <2>3, SeqEqual
    <2>5. QED
        BY <2>4 DEF r, n
<1> HIDE DEF q
<1>5. Dir(q) = p
    <2>1. Len(q) # 1 /\ Len(q) - 1 = Len(p)
        BY <1>2, <1>3
    <2>2. QED
        BY <1>4, <2>1 DEF Dir
<1>6. q \in Inside(path)
    BY <1>1, <1>2, <1>3 DEF Inside
<1>7. QED
    BY <1>3, <1>5, <1>6 DEF q

(* There is no package in what is not a directory. *)
LEMMA NoPackageInside ==
    ASSUME NEW fs \in FileSystems, NEW path \in SomePaths, ~ IsDirectory(fs, path),
           NEW id \in SomePaths, ~ IsRelative(id), ~ IsAbs(id), PackageLength(id) <= Len(id)
    PROVE  InDirectory(fs, path, id) = {Nothing}
<1> DEFINE n == PackageLength(id)
           base == Append(path, "node_modules")
           names == SubSeq(id, 1, n)
           package == Join(base, names)
<1>1. n \in {1, 2} /\ n <= Len(id)
    BY DEF PackageLength
<1>2. id \in Seq(Components) /\ id # <<>>
    BY DEF SomePaths
<1>3. /\ names \in Seq(Components) /\ Len(names) = n
      /\ names[1] = id[1] /\ \A i \in 1 .. n : names[i] \in Components
    <2>1. 1 \in Int /\ n \in Int /\ \A i \in 1 .. n : id[i] \in Components
        BY <1>1, <1>2
    <2> HIDE DEF n
    <2>2. /\ names \in Seq(Components) /\ Len(names) = IF 1 <= n THEN n - 1 + 1 ELSE 0
          /\ \A i \in 1 .. n - 1 + 1 : names[i] = id[1 + i - 1]
        BY <2>1, SubSeqProperties
    <2> HIDE DEF names
    <2>3. 1 \in 1 .. n - 1 + 1 /\ n - 1 + 1 = n /\ 1 <= n
        BY <1>1
    <2>4. Len(names) = n /\ names[1] = id[1]
        BY <2>2, <2>3
    <2>5. \A i \in 1 .. n : names[i] \in Components
        BY <2>1, <2>2, <2>3
    <2>6. QED
        BY <2>2, <2>4, <2>5
<1>4. names[1] \notin {"/", ".", ".."}
    <2>1. Head(id) = id[1]
        BY <1>2
    <2>2. QED
        BY <1>3, <2>1 DEF IsRelative, IsAbs
<1> HIDE DEF names
<1>5. names \in SomePaths
    BY <1>1, <1>3 DEF SomePaths
<1>6. base \in Inside(path) /\ base \in SomePaths
    <2>1. base \in Inside(path)
        BY ComponentsAssumption, AppendInside
    <2> HIDE DEF base
    <2>2. QED
        BY <2>1, InsideFacts
<1> HIDE DEF base
<1> HIDE DEF n
<1>7. PICK F : /\ package = F[n] /\ F[0] = base
               /\ \A i \in 1 .. n : F[i] = Enter(F[i - 1], names[i])
    <2>1. PICK F : /\ Join(base, names) = F[Len(names)] /\ F[0] = base
                   /\ \A i \in 1 .. Len(names) : F[i] = Enter(F[i - 1], names[i])
        BY <1>5, <1>6, JoinUnfolds
    <2>2. Len(names) = n
        BY <1>3
    <2>3. QED
        BY <2>1, <2>2
<1> HIDE DEF package
<1>8. F[1] = Append(base, names[1]) /\ names[1] \in Components
    <2>1. 1 \in 1 .. n /\ 1 - 1 = 0
        BY <1>1
    <2>2. F[1] = Enter(base, names[1]) /\ names[1] \in Components
        BY <1>3, <1>7, <2>1
    <2>3. QED
        BY <1>4, <2>2 DEF Enter
<1>9. F[1] \in Inside(path) /\ F[1][Len(F[1])] = names[1] /\ Dir(F[1]) = base
    <2>1. /\ F[1] \in Inside(path) /\ Len(F[1]) = Len(base) + 1
          /\ F[1][Len(base) + 1] = names[1] /\ Dir(F[1]) = base
        BY <1>6, <1>8, AppendInside
    <2>2. QED
        BY <2>1
<1>10. package \in Inside(path)
    <2>1. CASE n = 1
        BY <1>7, <1>9, <2>1
    <2>2. CASE n = 2
        <3>1. F[2] = Enter(F[1], names[2]) /\ names[2] \in Components
            <4>1. 2 \in 1 .. n /\ 2 - 1 = 1
                BY <2>2
            <4>2. QED
                BY <1>3, <1>7, <4>1
        <3>2. Append(F[1], names[2]) \in Inside(path)
            BY <1>9, <3>1, AppendInside
        <3>3. F[2] \in {F[1], base, Append(F[1], names[2])}
            BY <1>9, <3>1 DEF Enter
        <3>4. QED
            BY <1>6, <1>7, <1>9, <2>2, <3>2, <3>3
    <2>3. QED
        BY <1>1, <2>1, <2>2
<1>11. package \notin DOMAIN fs.description
    <2>1. SUFFICES ASSUME package \in DOMAIN fs.description PROVE FALSE
        OBVIOUS
    <2>2. package \in DOMAIN fs.kind
        BY <2>1, FileSystemsAssumption DEF Directories
    <2>3. Len(path) \in 1 .. (Len(package) - 1) /\ SubSeq(package, 1, Len(path)) = path
        BY <1>10, InsideFacts
    <2>4. path \in Directories(fs)
        BY <2>2, <2>3, PathFacts
    <2>5. QED
        BY <2>4 DEF Directories
<1>12. InDirectory(fs, path, id) = FromDescriptionFile(fs, package, Here \o SubSeq(id, n + 1, Len(id)))
    BY DEF InDirectory, package, names, base, n
<1>13. QED
    BY <1>11, <1>12, DescriptionTyped

(* What resolve finds is a file; from an absolute path it finds an end. *)
LEMMA ResolveTyped ==
    ASSUME NEW fs \in FileSystems, NEW context \in SomePaths, NEW id \in SomePaths
    PROVE  /\ ResolveIn(fs, context, id) \subseteq Answers(fs) \cup {Endless}
           /\ IsAbs(context) => ResolveIn(fs, context, id) \subseteq Answers(fs)
<1> DEFINE joined == IF IsRelative(id) THEN Join(context, id) ELSE id
           name == IF Head(joined) = "." /\ joined # Here THEN Tail(joined) ELSE joined
<1>1. ResolveIn(fs, context, id) =
          IF IsAbs(joined) THEN ResolveAbsolute(fs, joined) ELSE ResolvePackage(fs, context, name)
    BY DEF ResolveIn
<1>2. joined \in SomePaths
    BY JoinTyped
<1> HIDE DEF joined, name
<1>3. ResolveAbsolute(fs, joined) \subseteq Answers(fs)
    BY <1>2, AbsoluteUnfolds
<1>4. /\ Search(fs, context, name) \subseteq Answers(fs) \cup {Endless}
      /\ IsAbs(context) => Search(fs, context, name) \subseteq Answers(fs)
    BY SearchUnfolds, SearchEnds
<1>5. Nothing \in Answers(fs)
    BY DEF Answers
<1>6. /\ ResolvePackage(fs, context, name) \subseteq Answers(fs) \cup {Endless}
      /\ IsAbs(context) => ResolvePackage(fs, context, name) \subseteq Answers(fs)
    BY <1>4, <1>5 DEF ResolvePackage
<1>7. QED
    BY <1>1, <1>3, <1>6

(* A specifier that is not relative is not joined with anything. *)
LEMMA NotJoined ==
    ASSUME NEW fs, NEW context, NEW id, ~ IsRelative(id)
    PROVE  ResolveIn(fs, context, id) =
               IF IsAbs(id) THEN ResolveAbsolute(fs, id) ELSE ResolvePackage(fs, context, id)
BY DEF ResolveIn, IsRelative

(* An absolute path of a file leads to the file, unless an extension leads elsewhere. *)
LEMMA FileIsItself ==
    ASSUME NEW fs \in FileSystems, NEW file \in DOMAIN fs.kind, IsFile(fs, file),
           \A n \in DOMAIN Extensions : ~ Exists(fs, WithExtension(file, Extensions[n]))
    PROVE  ResolveAbsolute(fs, file) = {file}
<1> DEFINE Extended(n) == WithExtension(file, Extensions[n])
           tries == [n \in DOMAIN Extensions |-> IF IsFile(fs, Extended(n)) THEN Extended(n) ELSE Nothing]
<1>1. FirstFound(tries) = Nothing
    <2>1. \A n \in DOMAIN tries : tries[n] = Nothing
        BY DEF IsFile
    <2> HIDE DEF tries
    <2>2. {n \in DOMAIN tries : tries[n] # Nothing} = {}
        BY <2>1
    <2>3. QED
        BY <2>2 DEF FirstFound
<1>2. PICK try : ResolveAbsolute(fs, file) = AbsoluteBy(fs, file, try)
    BY PathFacts, AbsoluteUnfolds
<1>3. ~ IsDirectory(fs, file)
    BY DEF IsFile, IsDirectory
<1>4. QED
    BY <1>1, <1>2, <1>3 DEF AbsoluteBy

(***************************************************************************)
(* For every file system, whatever the exports of its packages and in      *)
(* whatever order they are visited: what require finds is a file, and its  *)
(* absolute path finds this file again from everywhere                     *)
(* (v8_runtime.go:146-312).                                                *)
(***************************************************************************)
THEOREM AnswersAreStable == Spec => []AnswersAreStableFiles
<1>1. ASSUME NEW fs \in FileSystems, NEW path \in Paths, NEW id \in Names,
             NEW file \in RequireFrom(fs, path, id) \ {Nothing, Endless}
      PROVE  /\ IsFile(fs, file)
             /\ \/ ~ IsAbs(file)
                \/ \A other \in Paths : RequireFrom(fs, other, file) = {file}
                \/ \E n \in DOMAIN Extensions : Exists(fs, WithExtension(file, Extensions[n]))
    <2>1. path \in SomePaths /\ id \in SomePaths
        BY NamesAssumption
    <2>2. RequireFrom(fs, path, id) \subseteq Answers(fs) \cup {Endless}
        <3>1. Dir(path) \in SomePaths
            BY <2>1, DirFacts
        <3>2. QED
            BY <2>1, <3>1, ResolveTyped DEF RequireFrom
    <2>3. IsFile(fs, file) /\ file \in DOMAIN fs.kind
        BY <2>2 DEF Answers
    <2>4. ASSUME IsAbs(file),
                 \A n \in DOMAIN Extensions : ~ Exists(fs, WithExtension(file, Extensions[n])),
                 NEW other \in Paths
          PROVE  RequireFrom(fs, other, file) = {file}
        <3>1. ~ IsRelative(file)
            BY <2>4 DEF IsAbs, IsRelative
        <3>2. RequireFrom(fs, other, file) = ResolveAbsolute(fs, file)
            BY <2>4, <3>1, NotJoined DEF RequireFrom
        <3>3. QED
            BY <2>3, <2>4, <3>2, FileIsItself
    <2>5. QED
        BY <2>3, <2>4
<1>2. AnswersAreStableFiles
    BY <1>1 DEF AnswersAreStableFiles
<1>3. QED
    BY <1>2, PTL

(***************************************************************************)
(* For every file system: from a module in a file require comes to an      *)
(* answer, and require.resolve to the same for packages and absolute paths *)
(* (v8_runtime.go:275, 309, 434).                                          *)
(***************************************************************************)
THEOREM ResolveAgreesAlways == Spec => []ResolveAgrees
<1>1. ASSUME NEW fs \in FileSystems, NEW path \in Paths, IsAbs(path), NEW id \in Names
      PROVE  /\ Endless \notin RequireFrom(fs, path, id)
             /\ ~ IsRelative(id) => RequireResolve(fs, path, id) = RequireFrom(fs, path, id)
    <2>1. path \in SomePaths /\ id \in SomePaths /\ ~ IsDirectory(fs, path)
        BY NamesAssumption
    <2>2. Dir(path) \in SomePaths /\ IsAbs(Dir(path))
        <3>1. path \in SomePaths /\ IsAbs(path)
            BY <1>1, <2>1
        <3>2. \A p \in SomePaths : Dir(p) \in SomePaths /\ (IsAbs(p) => IsAbs(Dir(p)))
            BY DirFacts
        <3>3. QED
            BY <3>1, <3>2
    <2>3. Endless \notin RequireFrom(fs, path, id)
        <3>1. RequireFrom(fs, path, id) \subseteq Answers(fs)
            BY <2>1, <2>2, ResolveTyped DEF RequireFrom
        <3>2. Endless \notin Answers(fs)
            BY FileSystemsAssumption DEF Answers
        <3>3. QED
            BY <3>1, <3>2
    <2>4. ASSUME PackageLength(id) <= Len(id), ~ IsRelative(id), ~ IsAbs(id)
          PROVE  Search(fs, path, id) = Search(fs, Dir(path), id)
        <3>1. CASE Dir(path) = path
            BY <3>1
        <3>2. CASE Dir(path) # path
            <4>1. InDirectory(fs, path, id) = {Nothing}
                BY <2>1, <2>4, NoPackageInside
            <4>2. PICK from : /\ Search(fs, path, id) = Outward(fs, id, path, from)
                              /\ from[Dir(path)] = Search(fs, Dir(path), id)
                BY <2>1, SearchUnfolds
            <4>3. QED
                BY <3>2, <4>1, <4>2 DEF Outward
        <3>3. QED
            BY <3>1, <3>2
    <2>5. ASSUME ~ IsRelative(id), ~ IsAbs(id)
          PROVE  ResolvePackage(fs, path, id) = ResolvePackage(fs, Dir(path), id)
        <3>1. PackageLength(id) \in Nat /\ Len(id) \in Nat
            BY <2>1 DEF PackageLength, SomePaths
        <3>2. QED
            BY <2>4, <2>5, <3>1 DEF ResolvePackage
    <2>6. ASSUME ~ IsRelative(id) PROVE RequireResolve(fs, path, id) = RequireFrom(fs, path, id)
        BY <2>5, <2>6, NotJoined DEF RequireResolve, RequireFrom
    <2>7. QED
        BY <2>3, <2>6
<1>2. ResolveAgrees
    BY <1>1 DEF ResolveAgrees
<1>3. QED
    BY <1>2, PTL
===============================================================================
