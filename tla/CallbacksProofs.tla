---------------------------- MODULE CallbacksProofs ---------------------------
(***************************************************************************)
(* Values and errors cross between Go and JavaScript unchanged, for any    *)
(* number of objects and errors and calls nested to any depth.             *)
(***************************************************************************)
EXTENDS Callbacks, SequenceTheorems, TLAPS

(* What the stack, the receivers and the result on its way are. *)
Typed ==
    /\ stack \in Seq(Frames)
    /\ receivers \in [GoErrors -> Objects \cup {None}]
    /\ crossing \in CallResults \cup {None}
    /\ made \in SUBSET Objects
    /\ errorOf \in [Objects -> GoErrors \cup {None}]
    /\ making \in [1 .. MaxDepth -> GoErrors \cup {None}]

(* The host is at the bottom of the stack, and only there. *)
StackInv ==
    /\ Len(stack) >= 1 /\ Len(stack) <= MaxDepth
    /\ \A i \in 1 .. Len(stack) : stack[i].kind = "host" <=> i = 1

(* What crosses is what was meant, and what was raised. *)
CrossInv ==
    crossing # None =>
        /\ origin # None => crossing.isError /\ ~crossing.error /\ Same(origin, crossing.result)
        /\ crossing.to = "go" => crossing.result \in Things /\ meant = Nothing /\ ~crossing.error
        /\ crossing.to = "js" =>
            /\ Top.kind \in Callback
            /\ IF crossing.error THEN meant = ErrorOf(Text)
               ELSE IF crossing.isError
               THEN crossing.result \in Objects /\ meant.is = "error" /\ Same(meant.of, crossing.result)
               ELSE meant = ValueOf(IF crossing.result = NULL THEN Undefined ELSE crossing.result)

(* A function that makes an object is waiting for the constructor above it, or
   for what that one returned. *)
MakingInv ==
    /\ \A d \in 1 .. MaxDepth : making[d] # None =>
        /\ d <= Depth
        /\ stack[d].kind \in Callback
        /\ d < Depth => stack[d + 1].kind = "constructor"
    /\ crossing # None /\ crossing.to = "js" => making[Depth] = None

(* What the constructor returned is not yet the object of an error. *)
FreshInv ==
    making[Depth] # None =>
        /\ crossing # None /\ ~crossing.isError =>
            crossing.result \in made /\ errorOf[crossing.result] = None
        /\ crossing = None =>
            \A x \in Objects : Top.got = ValueOf(x) => x \in made /\ errorOf[x] = None

(* receivers and Value.receiver agree on the errors' objects, which exist. *)
ReceiversInv ==
    /\ \A e \in GoErrors : receivers[e] # None => errorOf[receivers[e]] = e
    /\ \A x \in Objects : errorOf[x] # None => x \in made

IInv ==
    /\ Typed /\ StackInv /\ MakingInv /\ FreshInv /\ ReceiversInv
    /\ CrossInv /\ AnswersMatch /\ ErrorsArrive

-----------------------------------------------------------------------------
(* The stack *)

(* The frame at the top gets an outcome, and stays what it is. *)
LEMMA GotFrames ==
    ASSUME NEW f \in Seq(Frames), Len(f) >= 1, NEW r \in Outcomes
    PROVE  /\ Got(f, r) \in Seq(Frames) /\ Len(Got(f, r)) = Len(f)
           /\ Got(f, r)[Len(f)].got = r
           /\ \A i \in 1 .. Len(f) : Got(f, r)[i].kind = f[i].kind
<1> DEFINE n == Len(f)
<1>1. n \in 1 .. Len(f) /\ f[n] \in Frames
    OBVIOUS
<1>2. PICK g : g = [f[n] EXCEPT !.got = r]
    OBVIOUS
<1>3. g \in Frames /\ g.got = r /\ g.kind = f[n].kind
    BY <1>1, <1>2 DEF Frames
<1>4. Got(f, r) = [f EXCEPT ![n] = g]
    BY <1>1, <1>2 DEF Got
<1> HIDE DEF n
<1>5. /\ Got(f, r) \in Seq(Frames) /\ Len(Got(f, r)) = Len(f)
      /\ \A i \in 1 .. Len(f) : Got(f, r)[i] = IF i = n THEN g ELSE f[i]
    BY <1>1, <1>3, <1>4, ExceptSeq
<1>6. QED
    BY <1>1, <1>3, <1>5 DEF n

(* What is below a frame that is not the host's. *)
LEMMA PoppedFrames ==
    ASSUME IInv, Top.kind # "host"
    PROVE  /\ Depth \in Nat /\ Depth >= 2
           /\ Pop \in Seq(Frames) /\ Len(Pop) = Depth - 1
           /\ \A i \in 1 .. Depth - 1 : Pop[i] = stack[i]
<1> USE DEF IInv, Typed, StackInv, Top, Depth, Pop
<1>1. Depth \in Nat /\ Depth >= 2
    OBVIOUS
<1>2. QED
    BY <1>1, SubSeqProperties

(* A new frame has got nothing yet. *)
LEMMA PushedFrames ==
    ASSUME IInv, NEW k \in Kinds, Push(k)
    PROVE  /\ stack' \in Seq(Frames) /\ Depth \in Nat /\ Depth' = Depth + 1
           /\ Top' = [kind |-> k, got |-> Nothing]
           /\ \A i \in 1 .. Depth : stack'[i] = stack[i]
<1>1. [kind |-> k, got |-> Nothing] \in Frames
    BY DEF Frames, Outcomes, Nothing
<1>2. QED
    BY <1>1, AppendProperties DEF IInv, Typed, Push, Top, Depth

(* A call is on top of its caller. *)
LEMMA Pushed ==
    ASSUME IInv, NEW k \in {"script", "constructor"} \cup Callback, Push(k), Depth < MaxDepth
    PROVE  /\ stack' \in Seq(Frames) /\ StackInv' /\ Top'.kind = k /\ Top'.got = Nothing
           /\ Depth \in Nat /\ Depth' = Depth + 1 /\ \A i \in 1 .. Depth : stack'[i].kind = stack[i].kind
<1>1. k \in Kinds /\ k # "host"
    BY DEF Kinds, Callback
<1>2. /\ stack' \in Seq(Frames) /\ Depth \in Nat /\ Depth >= 1 /\ Depth' = Depth + 1
      /\ Top' = [kind |-> k, got |-> Nothing]
      /\ \A i \in 1 .. Depth : stack'[i] = stack[i]
    BY <1>1, PushedFrames DEF IInv, StackInv, Depth
<1>3. \A i \in 1 .. Depth + 1 : stack'[i].kind = "host" <=> i = 1
  <2> SUFFICES ASSUME NEW i \in 1 .. Depth + 1 PROVE stack'[i].kind = "host" <=> i = 1
    OBVIOUS
  <2>1. CASE i = Depth + 1
    BY <1>1, <1>2, <2>1 DEF Top, Depth
  <2>2. CASE i \in 1 .. Depth
    BY <1>2, <2>2 DEF IInv, StackInv, Depth
  <2>3. QED
    BY <1>2, <2>1, <2>2
<1>4. QED
    BY <1>2, <1>3, DepthAssumption DEF StackInv, Depth

(* A frame gets the result of the call it made. *)
LEMMA GotOnTop ==
    ASSUME IInv, NEW r \in Outcomes, stack' = Got(stack, r)
    PROVE  /\ stack' \in Seq(Frames) /\ StackInv' /\ Top'.kind = Top.kind /\ Top'.got = r
           /\ Depth \in Nat /\ Depth' = Depth /\ \A i \in 1 .. Depth : stack'[i].kind = stack[i].kind
<1>1. stack \in Seq(Frames) /\ Len(stack) \in Nat /\ Len(stack) >= 1
    BY DEF IInv, Typed, StackInv
<1>2. /\ stack' \in Seq(Frames) /\ Len(stack') = Len(stack) /\ stack'[Len(stack)].got = r
      /\ \A i \in 1 .. Len(stack) : stack'[i].kind = stack[i].kind
    BY <1>1, GotFrames
<1>3. QED
    BY <1>1, <1>2 DEF IInv, StackInv, Top, Depth

(* Below a frame that is not the host's there is its caller. *)
LEMMA PoppedStack ==
    ASSUME IInv, Top.kind # "host", stack' = Pop
    PROVE  /\ stack' \in Seq(Frames) /\ StackInv'
           /\ Depth \in Nat /\ Depth' = Depth - 1
           /\ \A i \in 1 .. Depth - 1 : stack'[i].kind = stack[i].kind
<1>1. QED
    BY PoppedFrames, DepthAssumption DEF IInv, StackInv, Depth

(* A call ends and its caller gets the result. *)
LEMMA GotBelow ==
    ASSUME IInv, Top.kind # "host", NEW r \in Outcomes, stack' = Got(Pop, r)
    PROVE  /\ stack' \in Seq(Frames) /\ StackInv' /\ Top'.got = r
           /\ Depth \in Nat /\ Depth' = Depth - 1
           /\ \A i \in 1 .. Depth - 1 : stack'[i].kind = stack[i].kind
<1>1. /\ Depth \in Nat /\ Depth >= 2 /\ Pop \in Seq(Frames) /\ Len(Pop) = Depth - 1
      /\ \A i \in 1 .. Depth - 1 : Pop[i] = stack[i]
    BY PoppedFrames
<1>2. /\ stack' \in Seq(Frames) /\ Len(stack') = Len(Pop) /\ stack'[Len(Pop)].got = r
      /\ \A i \in 1 .. Len(Pop) : stack'[i].kind = Pop[i].kind
    BY <1>1, GotFrames
<1>3. QED
    BY <1>1, <1>2, DepthAssumption DEF IInv, StackInv, Top, Depth

(* What making says of the frames stays true when none is added or removed, *)
LEMMA MakingStays ==
    ASSUME IInv, Depth \in Nat, Depth' = Depth, making' = making,
           \A i \in 1 .. Depth : stack'[i].kind = stack[i].kind,
           crossing' # None /\ crossing'.to = "js" => making[Depth] = None
    PROVE  MakingInv'
<1>1. QED
    BY DEF IInv, MakingInv

(* when a frame that makes nothing calls another, *)
LEMMA MakingPushed ==
    ASSUME IInv, Depth \in Nat, Depth' = Depth + 1, making' = making, making[Depth] = None,
           \A i \in 1 .. Depth : stack'[i].kind = stack[i].kind,
           crossing' = None
    PROVE  MakingInv'
<1>1. QED
    BY DEF IInv, MakingInv

(* and when a call ends that makes nothing, because the caller then makes
   something only if the call was that of a constructor. *)
LEMMA MakingPopped ==
    ASSUME IInv, Depth \in Nat, Depth' = Depth - 1, making' = making,
           Top.kind = "constructor" \/ making[Depth] = None,
           \A i \in 1 .. Depth - 1 : stack'[i].kind = stack[i].kind,
           crossing' = None \/ crossing'.to = "go"
    PROVE  /\ MakingInv'
           /\ making[Depth - 1] # None /\ Depth' >= 1 => Top.kind = "constructor"
<1>1. Depth <= MaxDepth /\ Depth >= 1
    BY DEF IInv, StackInv, Depth
<1>2. making[Depth] = None
    BY <1>1, DepthAssumption DEF IInv, MakingInv, Callback, Top
<1>3. QED
    BY <1>1, <1>2, DepthAssumption DEF IInv, MakingInv, Top

-----------------------------------------------------------------------------
(* Steps *)

(* Go calls a function. *)
LEMMA CallScriptIInv ==
    ASSUME IInv, CallScript
    PROVE  IInv'
<1> USE KindsAssumption, DepthAssumption DEF IInv, CallScript, Things, Callback, Go, Script, Runs, Result, Exception, TextError, NoResult, ValueOf, ErrorOf, Same, Rethrown
<1>1. /\ stack' \in Seq(Frames) /\ StackInv' /\ Top'.kind = "script" /\ Top'.got = Nothing
      /\ Depth \in Nat /\ Depth' = Depth + 1 /\ \A i \in 1 .. Depth : stack'[i].kind = stack[i].kind
    BY Pushed
<1> HIDE DEF StackInv, MakingInv, FreshInv, ReceiversInv, Frames, Outcomes, Top, Pop, Got, Push
<1>2. Typed'
    BY <1>1 DEF Typed, StackInv, CrossInv, CallResults
<1>3. CrossInv'
    BY <1>1 DEF Typed, CrossInv, ErrorsArrive, Nothing
<1>4. AnswersMatch'
    BY <1>1 DEF Typed, CrossInv, AnswersMatch, Nothing, CallResults
<1>5. ErrorsArrive'
    BY <1>1 DEF Typed, CrossInv, ErrorsArrive, Nothing, CallResults
<1>6. MakingInv'
    BY <1>1, MakingPushed
<1>7. FreshInv'
    BY <1>1, <1>2 DEF Typed, StackInv, MakingInv, FreshInv, Depth
<1>8. ReceiversInv'
    BY <1>1 DEF Typed, ReceiversInv
<1>9. QED
    BY <1>1, <1>2, <1>3, <1>4, <1>5, <1>6, <1>7, <1>8

(* The error of a call that never started is the caller's. *)
LEMMA CallNoFunctionIInv ==
    ASSUME IInv, CallNoFunction
    PROVE  IInv'
<1> USE KindsAssumption, DepthAssumption DEF IInv, CallNoFunction, Things, Callback, Go, Script, Runs, Result, Exception, TextError, NoResult, ValueOf, ErrorOf, Same, Rethrown
<1>1. /\ stack' \in Seq(Frames) /\ StackInv' /\ Top'.kind = Top.kind /\ \E e \in GoErrors : Top'.got = ErrorOf(e) /\ origin' = e
      /\ Depth \in Nat /\ Depth' = Depth /\ \A i \in 1 .. Depth : stack'[i].kind = stack[i].kind
  <2>1. PICK e \in GoErrors : stack' = Got(stack, ErrorOf(e)) /\ origin' = e
    OBVIOUS
  <2>2. ErrorOf(e) \in Outcomes
    BY DEF Outcomes
  <2>3. QED
    BY <2>1, <2>2, GotOnTop
<1> HIDE DEF StackInv, MakingInv, FreshInv, ReceiversInv, Frames, Outcomes, Top, Pop, Got, Push
<1>2. Typed'
    BY <1>1 DEF Typed, StackInv, CrossInv, CallResults
<1>3. CrossInv'
    BY <1>1 DEF Typed, CrossInv, ErrorsArrive, Nothing
<1>4. AnswersMatch'
    BY <1>1 DEF Typed, CrossInv, AnswersMatch, Nothing, CallResults
<1>5. ErrorsArrive'
    BY <1>1 DEF Typed, CrossInv, ErrorsArrive, Nothing, CallResults
<1>6. MakingInv'
    BY <1>1, MakingStays
<1>7. FreshInv'
    BY <1>1, <1>2 DEF Typed, StackInv, MakingInv, FreshInv, Depth
<1>8. ReceiversInv'
    BY <1>1 DEF Typed, ReceiversInv
<1>9. QED
    BY <1>1, <1>2, <1>3, <1>4, <1>5, <1>6, <1>7, <1>8

(* The value that a script returns comes from nothing raised. *)
LEMMA ScriptReturnsIInv ==
    ASSUME IInv, ScriptReturns
    PROVE  IInv'
<1> USE KindsAssumption, DepthAssumption DEF IInv, ScriptReturns, Things, Callback, Go, Script, Runs, Result, Exception, TextError, NoResult, ValueOf, ErrorOf, Same, Rethrown
<1>1. /\ stack' \in Seq(Frames) /\ StackInv' /\ crossing' \in CallResults
      /\ Depth \in Nat /\ Depth' = Depth - 1 /\ \A i \in 1 .. Depth - 1 : stack'[i].kind = stack[i].kind
    BY PoppedStack DEF CallResults, Typed
<1> HIDE DEF StackInv, MakingInv, FreshInv, ReceiversInv, Frames, Outcomes, Top, Pop, Got, Push
<1>2. Typed'
    BY <1>1 DEF Typed, StackInv, CrossInv, CallResults
<1>3. CrossInv'
    BY <1>1 DEF Typed, CrossInv, ErrorsArrive, Nothing
<1>4. AnswersMatch'
    BY <1>1 DEF Typed, CrossInv, AnswersMatch, Nothing, CallResults
<1>5. ErrorsArrive'
    BY <1>1 DEF Typed, CrossInv, ErrorsArrive, Nothing, CallResults
<1>6. MakingInv' /\ (making[Depth - 1] # None /\ Depth' >= 1 => Top.kind = "constructor")
    BY <1>1, MakingPopped
<1>7. FreshInv'
    BY <1>1, <1>6 DEF Typed, StackInv, MakingInv, FreshInv, Depth
<1>8. ReceiversInv'
    BY <1>1 DEF Typed, ReceiversInv
<1>9. QED
    BY <1>1, <1>2, <1>3, <1>4, <1>5, <1>6, <1>7, <1>8

(* An exception that is not caught is still the error it was. *)
LEMMA ScriptThrowsIInv ==
    ASSUME IInv, ScriptThrows
    PROVE  IInv'
<1> USE KindsAssumption, DepthAssumption DEF IInv, ScriptThrows, Things, Callback, Go, Script, Runs, Result, Exception, TextError, NoResult, ValueOf, ErrorOf, Same, Rethrown
<1>1. /\ stack' \in Seq(Frames) /\ StackInv' /\ crossing' \in CallResults
      /\ Depth \in Nat /\ Depth' = Depth - 1 /\ \A i \in 1 .. Depth - 1 : stack'[i].kind = stack[i].kind
    BY PoppedStack DEF CallResults, Typed
<1> HIDE DEF StackInv, MakingInv, FreshInv, ReceiversInv, Frames, Outcomes, Top, Pop, Got, Push
<1>2. Typed'
    BY <1>1 DEF Typed, StackInv, CrossInv, CallResults
<1>3. CrossInv'
    BY <1>1 DEF Typed, CrossInv, ErrorsArrive, Nothing
<1>4. AnswersMatch'
    BY <1>1 DEF Typed, CrossInv, AnswersMatch, Nothing, CallResults
<1>5. ErrorsArrive'
    BY <1>1 DEF Typed, CrossInv, ErrorsArrive, Nothing, CallResults
<1>6. MakingInv' /\ (making[Depth - 1] # None /\ Depth' >= 1 => Top.kind = "constructor")
    BY <1>1, MakingPopped
<1>7. FreshInv'
  <2>1. PICK x \in Objects : crossing' = Exception("go", x)
    OBVIOUS
  <2>2. crossing' # None /\ crossing'.isError
    BY <2>1, <1>1
  <2>3. QED
    BY <2>2 DEF FreshInv
<1>8. ReceiversInv'
    BY <1>1 DEF Typed, ReceiversInv
<1>9. QED
    BY <1>1, <1>2, <1>3, <1>4, <1>5, <1>6, <1>7, <1>8

(* newValueFromTuple tells an exception from a value. *)
LEMMA GoReceivesIInv ==
    ASSUME IInv, GoReceives
    PROVE  IInv'
<1> USE KindsAssumption, DepthAssumption DEF IInv, GoReceives, Things, Callback, Go, Script, Runs, Result, Exception, TextError, NoResult, ValueOf, ErrorOf, Same, Rethrown
<1>1. /\ stack' \in Seq(Frames) /\ StackInv' /\ Top'.kind = Top.kind /\ Top'.got = IF crossing.isError THEN ErrorOf(crossing.result) ELSE ValueOf(crossing.result)
      /\ Depth \in Nat /\ Depth' = Depth /\ \A i \in 1 .. Depth : stack'[i].kind = stack[i].kind
  <2>1. (IF crossing.isError THEN ErrorOf(crossing.result) ELSE ValueOf(crossing.result)) \in Outcomes
    BY DEF Outcomes, CrossInv
  <2>2. QED
    BY <2>1, GotOnTop
<1> HIDE DEF StackInv, MakingInv, FreshInv, ReceiversInv, Frames, Outcomes, Top, Pop, Got, Push
<1>2. Typed'
    BY <1>1 DEF Typed, StackInv, CrossInv, CallResults
<1>3. CrossInv'
    BY <1>1 DEF Typed, CrossInv, ErrorsArrive, Nothing
<1>4. AnswersMatch'
    BY <1>1 DEF Typed, CrossInv, AnswersMatch, Nothing, CallResults
<1>5. ErrorsArrive'
    BY <1>1 DEF Typed, CrossInv, ErrorsArrive, Nothing, CallResults
<1>6. MakingInv'
    BY <1>1, MakingStays
<1>7. FreshInv'
    BY <1>1, <1>2 DEF Typed, StackInv, MakingInv, FreshInv, Depth
<1>8. ReceiversInv'
    BY <1>1 DEF Typed, ReceiversInv
<1>9. QED
    BY <1>1, <1>2, <1>3, <1>4, <1>5, <1>6, <1>7, <1>8

(* A Go function is called with nothing raised. *)
LEMMA CallGoIInv ==
    ASSUME IInv, NEW kind \in Callback, CallGo(kind)
    PROVE  IInv'
<1> USE KindsAssumption, DepthAssumption DEF IInv, CallGo, Things, Callback, Go, Script, Runs, Result, Exception, TextError, NoResult, ValueOf, ErrorOf, Same, Rethrown
<1>1. /\ stack' \in Seq(Frames) /\ StackInv' /\ Top'.kind = kind /\ Top'.got = Nothing
      /\ Depth \in Nat /\ Depth' = Depth + 1 /\ \A i \in 1 .. Depth : stack'[i].kind = stack[i].kind
    BY Pushed
<1> HIDE DEF StackInv, MakingInv, FreshInv, ReceiversInv, Frames, Outcomes, Top, Pop, Got, Push
<1>2. Typed'
    BY <1>1 DEF Typed, StackInv, CrossInv, CallResults
<1>3. CrossInv'
    BY <1>1 DEF Typed, CrossInv, ErrorsArrive, Nothing
<1>4. AnswersMatch'
    BY <1>1 DEF Typed, CrossInv, AnswersMatch, Nothing, CallResults
<1>5. ErrorsArrive'
    BY <1>1 DEF Typed, CrossInv, ErrorsArrive, Nothing, CallResults
<1>6. MakingInv'
    BY <1>1, MakingPushed
<1>7. FreshInv'
    BY <1>1, <1>2 DEF Typed, StackInv, MakingInv, FreshInv, Depth
<1>8. ReceiversInv'
    BY <1>1 DEF Typed, ReceiversInv
<1>9. QED
    BY <1>1, <1>2, <1>3, <1>4, <1>5, <1>6, <1>7, <1>8

(* An exception that is caught is no longer raised. *)
LEMMA CatchIInv ==
    ASSUME IInv, Catch
    PROVE  IInv'
<1> USE KindsAssumption, DepthAssumption DEF IInv, Catch, Things, Callback, Go, Script, Runs, Result, Exception, TextError, NoResult, ValueOf, ErrorOf, Same, Rethrown
<1>1. /\ stack' \in Seq(Frames) /\ StackInv' /\ Top'.kind = Top.kind /\ Top'.got = Nothing
      /\ Depth \in Nat /\ Depth' = Depth /\ \A i \in 1 .. Depth : stack'[i].kind = stack[i].kind
  <2>1. Nothing \in Outcomes
    BY DEF Outcomes, Nothing
  <2>2. QED
    BY <2>1, GotOnTop
<1> HIDE DEF StackInv, MakingInv, FreshInv, ReceiversInv, Frames, Outcomes, Top, Pop, Got, Push
<1>2. Typed'
    BY <1>1 DEF Typed, StackInv, CrossInv, CallResults
<1>3. CrossInv'
    BY <1>1 DEF Typed, CrossInv, ErrorsArrive, Nothing
<1>4. AnswersMatch'
    BY <1>1 DEF Typed, CrossInv, AnswersMatch, Nothing, CallResults
<1>5. ErrorsArrive'
    BY <1>1 DEF Typed, CrossInv, ErrorsArrive, Nothing, CallResults
<1>6. MakingInv'
    BY <1>1, MakingStays
<1>7. FreshInv'
    BY <1>1, <1>2 DEF Typed, StackInv, MakingInv, FreshInv, Depth
<1>8. ReceiversInv'
    BY <1>1 DEF Typed, ReceiversInv
<1>9. QED
    BY <1>1, <1>2, <1>3, <1>4, <1>5, <1>6, <1>7, <1>8

(* What a function returns crosses. *)
LEMMA FunctionReturnsIInv ==
    ASSUME IInv, FunctionReturns
    PROVE  IInv'
<1> USE KindsAssumption, DepthAssumption DEF IInv, FunctionReturns, Things, Callback, Go, Script, Runs, Result, Exception, TextError, NoResult, ValueOf, ErrorOf, Same, Rethrown
<1>1. /\ stack' \in Seq(Frames) /\ StackInv' /\ Top' = Top /\ crossing' \in CallResults
      /\ Depth \in Nat /\ Depth' = Depth /\ \A i \in 1 .. Depth : stack'[i].kind = stack[i].kind
    BY DEF Typed, StackInv, CallResults, Top, Depth
<1> HIDE DEF StackInv, MakingInv, FreshInv, ReceiversInv, Frames, Outcomes, Top, Pop, Got, Push
<1>2. Typed'
    BY <1>1 DEF Typed, StackInv, CrossInv, CallResults
<1>3. CrossInv'
    BY <1>1 DEF Typed, CrossInv, ErrorsArrive, Nothing
<1>4. AnswersMatch'
    BY <1>1 DEF Typed, CrossInv, AnswersMatch, Nothing, CallResults
<1>5. ErrorsArrive'
    BY <1>1 DEF Typed, CrossInv, ErrorsArrive, Nothing, CallResults
<1>6. MakingInv'
    BY <1>1, MakingStays
<1>7. FreshInv'
    BY <1>1, <1>2 DEF Typed, StackInv, MakingInv, FreshInv, Depth
<1>8. ReceiversInv'
    BY <1>1 DEF Typed, ReceiversInv
<1>9. QED
    BY <1>1, <1>2, <1>3, <1>4, <1>5, <1>6, <1>7, <1>8

(* An exception that a function returns crosses as itself. *)
LEMMA FunctionThrowsIInv ==
    ASSUME IInv, FunctionThrows
    PROVE  IInv'
<1> USE KindsAssumption, DepthAssumption DEF IInv, FunctionThrows, Things, Callback, Go, Script, Runs, Result, Exception, TextError, NoResult, ValueOf, ErrorOf, Same, Rethrown
<1>1. /\ stack' \in Seq(Frames) /\ StackInv' /\ Top' = Top /\ crossing' \in CallResults
      /\ Depth \in Nat /\ Depth' = Depth /\ \A i \in 1 .. Depth : stack'[i].kind = stack[i].kind
    BY DEF Typed, StackInv, CallResults, Top, Depth
<1> HIDE DEF StackInv, MakingInv, FreshInv, ReceiversInv, Frames, Outcomes, Top, Pop, Got, Push
<1>2. Typed'
    BY <1>1 DEF Typed, StackInv, CrossInv, CallResults
<1>3. CrossInv'
    BY <1>1 DEF Typed, CrossInv, ErrorsArrive, Nothing
<1>4. AnswersMatch'
    BY <1>1 DEF Typed, CrossInv, AnswersMatch, Nothing, CallResults
<1>5. ErrorsArrive'
    BY <1>1 DEF Typed, CrossInv, ErrorsArrive, Nothing, CallResults
<1>6. MakingInv'
    BY <1>1, MakingStays
<1>7. FreshInv'
    BY <1>1, <1>2 DEF Typed, StackInv, MakingInv, FreshInv, Depth
<1>8. ReceiversInv'
    BY <1>1 DEF Typed, ReceiversInv
<1>9. QED
    BY <1>1, <1>2, <1>3, <1>4, <1>5, <1>6, <1>7, <1>8

(* A Go error that has an object crosses as that. *)
LEMMA FunctionFailsIInv ==
    ASSUME IInv, FunctionFails
    PROVE  IInv'
<1> USE KindsAssumption, DepthAssumption DEF IInv, FunctionFails, Things, Callback, Go, Script, Runs, Result, Exception, TextError, NoResult, ValueOf, ErrorOf, Same, Rethrown
<1>1. /\ stack' \in Seq(Frames) /\ StackInv' /\ Top' = Top /\ crossing' \in CallResults
      /\ Depth \in Nat /\ Depth' = Depth /\ \A i \in 1 .. Depth : stack'[i].kind = stack[i].kind
    BY DEF Typed, StackInv, CallResults, Top, Depth
<1> HIDE DEF StackInv, MakingInv, FreshInv, ReceiversInv, Frames, Outcomes, Top, Pop, Got, Push
<1>2. Typed'
    BY <1>1 DEF Typed, StackInv, CrossInv, CallResults
<1>3. CrossInv'
    BY <1>1 DEF Typed, CrossInv, ErrorsArrive, Nothing, ReceiversInv
<1>4. AnswersMatch'
    BY <1>1 DEF Typed, CrossInv, AnswersMatch, Nothing, CallResults
<1>5. ErrorsArrive'
    BY <1>1 DEF Typed, CrossInv, ErrorsArrive, Nothing, CallResults
<1>6. MakingInv'
    BY <1>1, MakingStays
<1>7. FreshInv'
    BY <1>1, <1>2 DEF Typed, StackInv, MakingInv, FreshInv, Depth
<1>8. ReceiversInv'
    BY <1>1 DEF Typed, ReceiversInv
<1>9. QED
    BY <1>1, <1>2, <1>3, <1>4, <1>5, <1>6, <1>7, <1>8

(* A text crosses as an error without an object. *)
LEMMA FunctionFailsAsTextIInv ==
    ASSUME IInv, FunctionFailsAsText
    PROVE  IInv'
<1> USE KindsAssumption, DepthAssumption DEF IInv, FunctionFailsAsText, Things, Callback, Go, Script, Runs, Result, Exception, TextError, NoResult, ValueOf, ErrorOf, Same, Rethrown
<1>1. /\ stack' \in Seq(Frames) /\ StackInv' /\ Top' = Top /\ crossing' \in CallResults
      /\ Depth \in Nat /\ Depth' = Depth /\ \A i \in 1 .. Depth : stack'[i].kind = stack[i].kind
    BY DEF Typed, StackInv, CallResults, Top, Depth
<1> HIDE DEF StackInv, MakingInv, FreshInv, ReceiversInv, Frames, Outcomes, Top, Pop, Got, Push
<1>2. Typed'
    BY <1>1 DEF Typed, StackInv, CrossInv, CallResults
<1>3. CrossInv'
    BY <1>1 DEF Typed, CrossInv, ErrorsArrive, Nothing
<1>4. AnswersMatch'
    BY <1>1 DEF Typed, CrossInv, AnswersMatch, Nothing, CallResults
<1>5. ErrorsArrive'
    BY <1>1 DEF Typed, CrossInv, ErrorsArrive, Nothing, CallResults
<1>6. MakingInv'
    BY <1>1, MakingStays
<1>7. FreshInv'
    BY <1>1, <1>2 DEF Typed, StackInv, MakingInv, FreshInv, Depth
<1>8. ReceiversInv'
    BY <1>1 DEF Typed, ReceiversInv
<1>9. QED
    BY <1>1, <1>2, <1>3, <1>4, <1>5, <1>6, <1>7, <1>8

(* A Value that was given up crosses as no result. *)
LEMMA FunctionReturnsStaleIInv ==
    ASSUME IInv, FunctionReturnsStale
    PROVE  IInv'
<1> USE KindsAssumption, DepthAssumption DEF IInv, FunctionReturnsStale, Things, Callback, Go, Script, Runs, Result, Exception, TextError, NoResult, ValueOf, ErrorOf, Same, Rethrown
<1>1. /\ stack' \in Seq(Frames) /\ StackInv' /\ Top' = Top /\ crossing' \in CallResults
      /\ Depth \in Nat /\ Depth' = Depth /\ \A i \in 1 .. Depth : stack'[i].kind = stack[i].kind
    BY DEF Typed, StackInv, CallResults, Top, Depth
<1> HIDE DEF StackInv, MakingInv, FreshInv, ReceiversInv, Frames, Outcomes, Top, Pop, Got, Push
<1>2. Typed'
    BY <1>1 DEF Typed, StackInv, CrossInv, CallResults
<1>3. CrossInv'
    BY <1>1 DEF Typed, CrossInv, ErrorsArrive, Nothing
<1>4. AnswersMatch'
    BY <1>1 DEF Typed, CrossInv, AnswersMatch, Nothing, CallResults
<1>5. ErrorsArrive'
    BY <1>1 DEF Typed, CrossInv, ErrorsArrive, Nothing, CallResults
<1>6. MakingInv'
    BY <1>1, MakingStays
<1>7. FreshInv'
    BY <1>1, <1>2 DEF Typed, StackInv, MakingInv, FreshInv, Depth
<1>8. ReceiversInv'
    BY <1>1 DEF Typed, ReceiversInv
<1>9. QED
    BY <1>1, <1>2, <1>3, <1>4, <1>5, <1>6, <1>7, <1>8

(* A Go error without an object: the class Error is called to make one. *)
LEMMA BeginErrorObjectIInv ==
    ASSUME IInv, BeginErrorObject
    PROVE  IInv'
<1> USE KindsAssumption, DepthAssumption DEF IInv, BeginErrorObject, Things, Callback, Go, Script, Runs, Makes, Result, Exception, TextError, NoResult, ValueOf, ErrorOf, Same, Rethrown
<1>1. /\ stack' \in Seq(Frames) /\ StackInv' /\ Top'.kind = "constructor" /\ Top'.got = Nothing
      /\ Depth \in Nat /\ Depth' = Depth + 1 /\ \A i \in 1 .. Depth : stack'[i].kind = stack[i].kind
    BY Pushed
<1> HIDE DEF StackInv, MakingInv, FreshInv, ReceiversInv, Frames, Outcomes, Top, Pop, Got, Push
<1>2. Typed'
  <2>1. Depth \in 1 .. MaxDepth
    BY DEF StackInv, Depth
  <2>2. making' \in [1 .. MaxDepth -> GoErrors \cup {None}]
    BY <2>1 DEF Typed
  <2>3. QED
    BY <1>1, <2>2 DEF Typed
<1>3. CrossInv'
    BY <1>1 DEF Typed, CrossInv, ErrorsArrive, Nothing
<1>4. AnswersMatch'
    BY <1>1 DEF Typed, CrossInv, AnswersMatch, Nothing, CallResults
<1>5. ErrorsArrive'
    BY <1>1 DEF Typed, CrossInv, ErrorsArrive, Nothing, CallResults
<1>6. MakingInv'
    BY <1>1 DEF MakingInv, StackInv, Typed, Top, Depth
<1>7. FreshInv'
    BY <1>1, <1>2 DEF Typed, StackInv, MakingInv, FreshInv, Depth
<1>8. ReceiversInv'
    BY <1>1 DEF Typed, ReceiversInv
<1>9. QED
    BY <1>1, <1>2, <1>3, <1>4, <1>5, <1>6, <1>7, <1>8

(* The constructor returns an object that is not yet an error's. *)
LEMMA ConstructorReturnsIInv ==
    ASSUME IInv, ConstructorReturns
    PROVE  IInv'
<1> USE KindsAssumption, DepthAssumption DEF IInv, ConstructorReturns, Things, Callback, Go, Script, Runs, Makes, Result, Exception, TextError, NoResult, ValueOf, ErrorOf, Same, Rethrown
<1>1. /\ stack' \in Seq(Frames) /\ StackInv' /\ crossing' \in CallResults
      /\ Depth \in Nat /\ Depth' = Depth - 1
      /\ \A i \in 1 .. Depth - 1 : stack'[i].kind = stack[i].kind
    BY PoppedStack DEF CallResults, Typed
<1> HIDE DEF StackInv, MakingInv, FreshInv, ReceiversInv, Frames, Outcomes, Top, Pop, Got, Push
<1>2. Typed'
    BY <1>1 DEF Typed, StackInv, CrossInv, CallResults
<1>3. CrossInv'
    BY <1>1 DEF Typed, CrossInv, ErrorsArrive, Nothing
<1>4. AnswersMatch'
    BY <1>1 DEF Typed, CrossInv, AnswersMatch, Nothing, CallResults
<1>5. ErrorsArrive'
    BY <1>1 DEF Typed, CrossInv, ErrorsArrive, Nothing, CallResults
<1>6. MakingInv'
    BY <1>1, MakingPopped
<1>7. FreshInv'
  <2>1. PICK x \in Objects \ made : crossing' = Result("go", x) /\ made' = made \cup {x}
    OBVIOUS
  <2>2. crossing' # None /\ crossing'.result \in made' /\ crossing'.result \in Objects \ made
    BY <2>1, <1>1
  <2>3. errorOf'[crossing'.result] = None
    BY <2>2 DEF ReceiversInv
  <2>4. QED
    BY <2>2, <2>3 DEF FreshInv
<1>8. ReceiversInv'
    BY <1>1 DEF Typed, ReceiversInv
<1>9. QED
    BY <1>1, <1>2, <1>3, <1>4, <1>5, <1>6, <1>7, <1>8

(* The new object becomes the error's and crosses as its exception. *)
LEMMA EndErrorObjectIInv ==
    ASSUME IInv, EndErrorObject
    PROVE  IInv'
<1> USE KindsAssumption, DepthAssumption DEF IInv, EndErrorObject, Things, Callback, Go, Script, Runs, Makes, Result, Exception, TextError, NoResult, ValueOf, ErrorOf, Same, Rethrown
<1>1. PICK e \in GoErrors, x \in Objects :
        /\ making[Depth] = e /\ Top.got = ValueOf(x) /\ x \in made /\ errorOf[x] = None /\ Top.kind \in Callback
        /\ receivers' = [receivers EXCEPT ![e] = x] /\ errorOf' = [errorOf EXCEPT ![x] = e]
        /\ making' = [making EXCEPT ![Depth] = None]
        /\ crossing' = Exception("js", x) /\ meant' = ErrorOf(e) /\ origin' = e
        /\ crossing' \in CallResults /\ Depth \in 1 .. MaxDepth /\ Depth' = Depth
  <2>1. PICK e \in GoErrors, x \in Objects :
        /\ making[Depth] = e /\ Top.got = ValueOf(x)
        /\ receivers' = [receivers EXCEPT ![e] = x] /\ errorOf' = [errorOf EXCEPT ![x] = e]
        /\ making' = [making EXCEPT ![Depth] = None]
        /\ crossing' = Exception("js", x) /\ meant' = ErrorOf(e) /\ origin' = e /\ crossing = None
    OBVIOUS
  <2>2. Depth \in 1 .. MaxDepth /\ Depth' = Depth
    BY DEF Typed, StackInv, Depth
  <2>3. x \in made /\ errorOf[x] = None
    BY <2>1 DEF FreshInv
  <2>4. Top.kind \in Callback
    BY <2>1, <2>2 DEF MakingInv, Top
  <2>5. QED
    BY <2>1, <2>2, <2>3, <2>4 DEF CallResults
<1> HIDE DEF StackInv, MakingInv, FreshInv, ReceiversInv, Frames, Outcomes, Top, Pop, Got, Push
<1>2. Typed'
    BY <1>1 DEF Typed, StackInv, CrossInv, CallResults
<1>3. StackInv' /\ Top' = Top
    BY <1>1 DEF Top, StackInv
<1>4. CrossInv'
    BY <1>1, <1>3 DEF Typed, CrossInv
<1>5. AnswersMatch'
    BY <1>1 DEF AnswersMatch
<1>6. ErrorsArrive'
    BY <1>1 DEF ErrorsArrive
<1>7. MakingInv'
    BY <1>1 DEF MakingInv, Typed, Top, Depth
<1>8. FreshInv'
    BY <1>1, <1>2 DEF Typed, StackInv, MakingInv, FreshInv, Depth
<1>9. ReceiversInv'
    BY <1>1 DEF Typed, ReceiversInv
<1>10. QED
    BY <1>1, <1>2, <1>3, <1>4, <1>5, <1>6, <1>7, <1>8, <1>9

(* The constructor throws: a text crosses. *)
LEMMA NoErrorObjectIInv ==
    ASSUME IInv, NoErrorObject
    PROVE  IInv'
<1> USE KindsAssumption, DepthAssumption DEF IInv, NoErrorObject, Things, Callback, Go, Script, Runs, Makes, Result, Exception, TextError, NoResult, ValueOf, ErrorOf, Same, Rethrown
<1>1. /\ stack' \in Seq(Frames) /\ StackInv' /\ Top' = Top /\ Top.kind \in Callback /\ crossing' \in CallResults
      /\ Depth \in 1 .. MaxDepth /\ Depth' = Depth
    BY DEF Typed, StackInv, CallResults, Top, Depth, MakingInv
<1> HIDE DEF StackInv, MakingInv, FreshInv, ReceiversInv, Frames, Outcomes, Top, Pop, Got, Push
<1>2. Typed'
    BY <1>1 DEF Typed, StackInv, CrossInv, CallResults
<1>3. CrossInv'
    BY <1>1 DEF Typed, CrossInv, ErrorsArrive, Nothing
<1>4. AnswersMatch'
    BY <1>1 DEF Typed, CrossInv, AnswersMatch, Nothing, CallResults
<1>5. ErrorsArrive'
    BY <1>1 DEF Typed, CrossInv, ErrorsArrive, Nothing, CallResults
<1>6. MakingInv'
    BY <1>1 DEF MakingInv, Typed, Top, Depth
<1>7. FreshInv'
    BY <1>1, <1>2 DEF Typed, StackInv, MakingInv, FreshInv, Depth
<1>8. ReceiversInv'
    BY <1>1 DEF Typed, ReceiversInv
<1>9. QED
    BY <1>1, <1>2, <1>3, <1>4, <1>5, <1>6, <1>7, <1>8

(* The handlers hand over what crossed: as an exception if it is an error. *)
LEMMA ScriptReceivesIInv ==
    ASSUME IInv, ScriptReceives
    PROVE  IInv'
<1> USE KindsAssumption, DepthAssumption DEF IInv, ScriptReceives, Things, Callback, Go, Script, Runs, Result, Exception, TextError, NoResult, ValueOf, ErrorOf, Same, Rethrown
<1>1. \E r \in Outcomes :
        /\ stack' \in Seq(Frames) /\ StackInv' /\ Top'.got = r
        /\ Depth \in Nat /\ Depth' = Depth - 1 /\ \A i \in 1 .. Depth - 1 : stack'[i].kind = stack[i].kind
        /\ IF crossing.error THEN \E x \in Objects : r = ErrorOf(x) /\ made' = made \cup {x}
           ELSE /\ made' = made
                /\ r = IF crossing.isError THEN ErrorOf(crossing.result)
                       ELSE ValueOf(IF crossing.result = NULL THEN Undefined ELSE crossing.result)
  <2>1. PICK r : /\ stack' = Got(Pop, r)
                 /\ IF crossing.error THEN \E x \in Objects : r = ErrorOf(x) /\ made' = made \cup {x}
                    ELSE /\ made' = made
                         /\ r = IF crossing.isError THEN ErrorOf(crossing.result)
                                ELSE ValueOf(IF crossing.result = NULL THEN Undefined ELSE crossing.result)
    BY DEF Typed, CallResults
  <2>2. r \in Outcomes
    BY <2>1 DEF Outcomes, CrossInv, Typed, CallResults
  <2>3. Top.kind # "host"
    BY DEF CrossInv
  <2>4. QED
    BY <2>1, <2>2, <2>3, GotBelow
<1> HIDE DEF StackInv, MakingInv, FreshInv, ReceiversInv, Frames, Outcomes, Top, Pop, Got, Push
<1>2. Typed'
    BY <1>1 DEF Typed, StackInv, CrossInv, CallResults
<1>3. CrossInv'
    BY <1>1 DEF Typed, CrossInv, ErrorsArrive, Nothing
<1>4. AnswersMatch'
    BY <1>1 DEF Typed, CrossInv, AnswersMatch, Nothing, CallResults
<1>5. ErrorsArrive'
    BY <1>1 DEF Typed, CrossInv, ErrorsArrive, Nothing, CallResults
<1>6. MakingInv' /\ (making[Depth - 1] # None /\ Depth' >= 1 => Top.kind = "constructor")
  <2>1. crossing' = None /\ making' = making /\ making[Depth] = None
    BY DEF MakingInv
  <2>2. QED
    BY <1>1, <2>1, MakingPopped
<1>7. FreshInv'
  <2>1. Top.kind # "constructor" /\ making' = making /\ Depth' = Depth - 1 /\ Depth' >= 1
    BY <1>1 DEF CrossInv, StackInv, Depth
  <2>2. QED
    BY <1>6, <2>1 DEF FreshInv
<1>8. ReceiversInv'
    BY <1>1 DEF Typed, ReceiversInv
<1>9. QED
    BY <1>1, <1>2, <1>3, <1>4, <1>5, <1>6, <1>7, <1>8

-----------------------------------------------------------------------------
(* The specification *)

(* The host starts alone. *)
LEMMA InitIInv == Init => IInv
<1> SUFFICES ASSUME Init PROVE IInv
    OBVIOUS
<1>1. [kind |-> "host", got |-> Nothing] \in Frames
    BY DEF Frames, Kinds, Outcomes, Nothing
<1>2. Typed
    BY <1>1 DEF Init, Typed
<1>3. StackInv /\ CrossInv /\ AnswersMatch /\ ErrorsArrive
    BY <1>1, DepthAssumption DEF Init, StackInv, CrossInv, AnswersMatch, ErrorsArrive
<1>4. MakingInv /\ FreshInv /\ ReceiversInv
    BY DepthAssumption DEF Init, MakingInv, FreshInv, ReceiversInv, Depth
<1>5. QED
    BY <1>2, <1>3, <1>4 DEF IInv

(* Every step keeps the invariant. *)
LEMMA NextIInv == IInv /\ [Next]_vars => IInv'
<1> SUFFICES ASSUME IInv, [Next]_vars PROVE IInv'
    OBVIOUS
<1>1. CASE Function
    BY <1>1, FunctionReturnsIInv, FunctionThrowsIInv, FunctionFailsIInv, BeginErrorObjectIInv, EndErrorObjectIInv,
       NoErrorObjectIInv, FunctionFailsAsTextIInv, FunctionReturnsStaleIInv DEF Function
<1>2. CASE UNCHANGED vars
    BY <1>2 DEF IInv, Typed, StackInv, MakingInv, FreshInv, ReceiversInv, CrossInv, AnswersMatch, ErrorsArrive, Top, Depth, Same, vars
<1>3. QED
    BY <1>1, <1>2, CallScriptIInv, CallNoFunctionIInv, ScriptReturnsIInv, ScriptThrowsIInv,
       ConstructorReturnsIInv, GoReceivesIInv,
       CallGoIInv, CatchIInv, ScriptReceivesIInv DEF Next

(* Every reachable state has the invariant. *)
LEMMA IInvHolds == Spec => []IInv
<1>1. QED
    BY InitIInv, NextIInv, PTL DEF Spec

(* Through callbackHandler and the three native handlers JavaScript gets what the
   Go function returned. *)
THEOREM AnswersAreMeant == Spec => []AnswersMatch
<1>1. IInv => AnswersMatch
    BY DEF IInv
<1>2. QED
    BY IInvHolds, <1>1, PTL

(* An error crosses any number of functions of both languages and is the same. *)
THEOREM ErrorsSurvive == Spec => []ErrorsArrive
<1>1. IInv => ErrorsArrive
    BY DEF IInv
<1>2. QED
    BY IInvHolds, <1>1, PTL

(* Only a call of create that found no object stores one, so the last of those
   under way for an error decides which object it has for good. *)
THEOREM ErrorObjectsSettleDown == Spec => ErrorObjectsSettle
<1> DEFINE Keeps(e) == Settled(e) => Settled(e)' /\ receivers'[e] = receivers[e]
<1>1. IInv /\ [Next]_vars => [\A e \in GoErrors : Keeps(e)]_vars
  <2> SUFFICES ASSUME IInv, [Next]_vars, NEW e \in GoErrors, Settled(e)
               PROVE  Settled(e)' /\ receivers'[e] = receivers[e]
    OBVIOUS
  <2>1. /\ receivers \in [GoErrors -> Objects \cup {None}] /\ making \in [1 .. MaxDepth -> GoErrors \cup {None}]
        /\ Depth \in 1 .. MaxDepth /\ e # None
        /\ \A d \in 1 .. MaxDepth : making[d] # e
    BY KindsAssumption, DepthAssumption DEF IInv, Typed, StackInv, Settled, Depth
  <2>2. CASE BeginErrorObject
    BY <2>1, <2>2 DEF BeginErrorObject, Settled
  <2>3. CASE EndErrorObject
    BY <2>1, <2>3 DEF EndErrorObject, Makes, Settled
  <2>4. CASE NoErrorObject
    BY <2>1, <2>4 DEF NoErrorObject, Settled
  <2>5. CASE UNCHANGED <<receivers, making>>
    BY <2>5 DEF Settled
  <2>6. QED
    BY <2>2, <2>3, <2>4, <2>5
       DEF Next, Function, CallScript, CallNoFunction, ScriptReturns, ScriptThrows, ConstructorReturns, GoReceives, CallGo,
           Catch, FunctionReturns, FunctionThrows, FunctionFails, FunctionFailsAsText, FunctionReturnsStale, ScriptReceives, vars
<1>2. QED
    BY IInvHolds, <1>1, PTL DEF Spec, ErrorObjectsSettle

(* The variables that the invariant does not need have their types, too. *)
LEMMA TypeStep ==
    ASSUME IInv, TypeOK, [Next]_vars
    PROVE  TypeOK'
<1> DEFINE Rest == /\ receivers \in [GoErrors -> made \cup {None}] /\ meant \in Outcomes
                   /\ origin \in Objects \cup GoErrors \cup {None} /\ crashed \in BOOLEAN
<1>1. SUFFICES Rest'
    <2>1. Typed'
        BY NextIInv DEF IInv
    <2>2. QED
        BY <2>1 DEF Typed, TypeOK
<1>2. /\ Nothing \in Outcomes /\ \A x \in Things : ValueOf(x) \in Outcomes
      /\ \A x \in Objects \cup GoErrors \cup {Text} : ErrorOf(x) \in Outcomes
    BY DEF Outcomes, Nothing, ValueOf, ErrorOf, Things
<1>3. made \in SUBSET Objects /\ Rest
    BY DEF TypeOK
<1>4. \A x \in Objects \cup GoErrors : Rethrown(x) \in Objects \cup GoErrors \cup {None}
    BY <1>3 DEF Rethrown
<1>5. CASE CallScript \/ CallNoFunction \/ ScriptReturns \/ GoReceives \/ Catch
           \/ \E kind \in Callback : CallGo(kind)
    BY <1>2, <1>3, <1>5 DEF CallScript, CallNoFunction, ScriptReturns, GoReceives, Catch, CallGo
<1>6. CASE ScriptThrows \/ ConstructorReturns
    BY <1>2, <1>3, <1>4, <1>6 DEF ScriptThrows, ConstructorReturns
<1>7. CASE Function
    <2>1. CASE FunctionReturns \/ FunctionThrows
        BY <1>2, <1>3, <1>4, <2>1 DEF FunctionReturns, FunctionThrows, Things
    <2>2. CASE FunctionFails
        BY <1>2, <1>3, <1>4, <2>2 DEF FunctionFails
    <2>3. CASE FunctionFailsAsText \/ FunctionReturnsStale
        BY <1>2, <1>3, <2>3 DEF FunctionFailsAsText, FunctionReturnsStale, Things
    <2>4. CASE BeginErrorObject \/ NoErrorObject
        BY <1>2, <1>3, <2>4 DEF BeginErrorObject, NoErrorObject
    <2>5. CASE EndErrorObject
        <3>1. \A x \in Objects : Top.got = ValueOf(x) /\ making[Depth] # None /\ crossing = None => x \in made
            BY DEF IInv, FreshInv
        <3>2. PICK e \in GoErrors, x \in Objects :
                /\ receivers' = [receivers EXCEPT ![e] = x] /\ x \in made
                /\ meant' = ErrorOf(e) /\ origin' = e /\ UNCHANGED <<made, crashed>>
            BY <2>5, <3>1, KindsAssumption DEF EndErrorObject, Makes
        <3>3. QED
            BY <1>2, <1>3, <3>2
    <2>6. QED
        BY <1>7, <2>1, <2>2, <2>3, <2>4, <2>5 DEF Function
<1>8. CASE ScriptReceives
    BY <1>2, <1>3, <1>8 DEF ScriptReceives
<1>9. CASE UNCHANGED vars
    BY <1>3, <1>9 DEF vars
<1>10. QED
    BY <1>5, <1>6, <1>7, <1>8, <1>9 DEF Next

(***************************************************************************)
(* What crosses between the languages stays an outcome, and an error has   *)
(* the object of a value that was made.                                    *)
(***************************************************************************)
THEOREM TypeCorrect == Spec => []TypeOK
<1>1. Init => TypeOK
    <2>1. Init => Typed
        BY InitIInv DEF IInv
    <2>2. Nothing \in Outcomes
        BY DEF Nothing, Outcomes
    <2>3. Init => /\ receivers \in [GoErrors -> made \cup {None}] /\ meant \in Outcomes
                  /\ origin \in Objects \cup GoErrors \cup {None} /\ crashed \in BOOLEAN
        BY <2>2 DEF Init
    <2>4. QED
        BY <2>1, <2>3 DEF Typed, TypeOK
<1>2. IInv /\ TypeOK /\ [Next]_vars => TypeOK'
    BY TypeStep
<1>3. QED
    BY <1>1, <1>2, IInvHolds, PTL DEF Spec
==============================================================================
