------------------------------ MODULE Callbacks ------------------------------
(***************************************************************************)
(* Calls that cross between Go and JavaScript, in both directions and      *)
(* nested, and what becomes of their values and errors.  Go calls          *)
(* JavaScript with Value.CallValue; JavaScript calls Go through the        *)
(* handlers of v8_c_function.cc and callbackHandler.  A CallResult carries *)
(* what comes back: a tuple with the value or, if isError, the exception;  *)
(* or the text of an error and no tuple.                                   *)
(*                                                                         *)
(* In Go an error is a Go error or the Value of a JS exception.  A Go      *)
(* error becomes a JS Error object when a function returns it: the one     *)
(* that receivers has for the pointer in the error or, if it has none, a   *)
(* new one.  Making it calls the global class Error, which the program may *)
(* replace ("ownError") by one whose constructor calls Go functions again, *)
(* and only then is the new object put into receivers.                     *)
(***************************************************************************)
EXTENDS Naturals, Sequences

CONSTANTS
    Objects,        \* JS objects: values and exceptions
    GoErrors,       \* Go errors that are pointers
    MaxDepth,       \* bound on the calls in progress
    Usage,          \* a subset of {"plain", "foreign", "stale", "ownError"}
    Undefined, NULL, Text, None

Things == Objects \cup {Undefined}

CallResults ==
    [to : {"js", "go"}, result : Things \cup {NULL}, error : BOOLEAN, isError : BOOLEAN]

ASSUME UsageAssumption == Usage \subseteq {"plain", "foreign", "stale", "ownError"}
ASSUME DepthAssumption == MaxDepth \in Nat \ {0}
ASSUME KindsAssumption ==
    /\ Objects \cap GoErrors = {}
    /\ None \notin Objects \cup GoErrors \cup CallResults
    /\ NULL \notin Things

VARIABLES
    stack,      \* the frames: the host's, and in turn those of JS and of Go functions
    made,       \* the objects that exist
    receivers,  \* Context.receivers: the object found for each Go error
    errorOf,    \* Value.receiver: the Go error that an object was made for
    making,     \* the Go error for which the function at each depth makes one
    crossing,   \* the CallResult on its way to the frame below, or None
    meant,      \* what the Go function returned
    origin,     \* the error, if one is raised and not caught
    crashed     \* NULL was dereferenced

vars == <<stack, made, receivers, errorOf, making, crossing, meant, origin, crashed>>

Outcomes == [is : {"nothing", "value", "error"}, of : Things \cup GoErrors \cup {Text, None}]

Nothing == [is |-> "nothing", of |-> None]
ValueOf(x) == [is |-> "value", of |-> x]
ErrorOf(x) == [is |-> "error", of |-> x]

Kinds == {"host", "script", "constructor", "function", "getter", "setter"}
Frames == [kind : Kinds, got : Outcomes]

TypeOK ==
    /\ stack \in Seq(Frames)
    /\ made \in SUBSET Objects
    /\ receivers \in [GoErrors -> made \cup {None}]
    /\ errorOf \in [Objects -> GoErrors \cup {None}]
    /\ making \in [1 .. MaxDepth -> GoErrors \cup {None}]
    /\ crossing \in CallResults \cup {None}
    /\ meant \in Outcomes
    /\ origin \in Objects \cup GoErrors \cup {None}
    /\ crashed \in BOOLEAN

Init ==
    /\ stack = <<[kind |-> "host", got |-> Nothing]>>
    /\ made = {}
    /\ receivers = [e \in GoErrors |-> None]
    /\ errorOf = [x \in Objects |-> None]
    /\ making = [d \in 1 .. MaxDepth |-> None]
    /\ crossing = None
    /\ meant = Nothing
    /\ origin = None
    /\ crashed = FALSE

Depth == Len(stack)
Top == stack[Depth]

\* The frame at the top goes on by itself, or with the object it makes.
Runs(kinds) == crossing = None /\ ~crashed /\ Top.kind \in kinds /\ making[Depth] = None
Makes(e) == crossing = None /\ ~crashed /\ making[Depth] = e

Script == {"script"} \cup (IF "ownError" \in Usage THEN {"constructor"} ELSE {})
Callback == {"function", "getter", "setter"}
Go == Callback \cup {"host"}

Push(kind) == stack' = Append(stack, [kind |-> kind, got |-> Nothing])
Pop == SubSeq(stack, 1, Depth - 1)
Got(frames, outcome) == [frames EXCEPT ![Len(frames)].got = outcome]

Result(to, x) == [to |-> to, result |-> x, error |-> FALSE, isError |-> FALSE]
Exception(to, x) == [to |-> to, result |-> x, error |-> FALSE, isError |-> TRUE]
TextError(to) == [to |-> to, result |-> NULL, error |-> TRUE, isError |-> TRUE]
NoResult(to) == [to |-> to, result |-> NULL, error |-> FALSE, isError |-> FALSE]

\* What the exception a frame got is, unless it raises another.
Rethrown(x) == IF Top.got = ErrorOf(x) THEN origin ELSE x

-----------------------------------------------------------------------------
(* Go calls JavaScript *)

\* Value.CallValue and v8_Value_Call.
CallScript ==
    /\ Runs(Go)
    /\ Depth < MaxDepth
    /\ Push("script")
    /\ meant' = Nothing /\ origin' = None
    /\ UNCHANGED <<made, receivers, errorOf, making, crossing, crashed>>

\* v8_Value_Call of what is not a function: an error that is only a text.
CallNoFunction ==
    /\ Runs(Go)
    /\ \E e \in GoErrors :
        /\ stack' = Got(stack, ErrorOf(e))
        /\ origin' = e
    /\ meant' = Nothing
    /\ UNCHANGED <<made, receivers, errorOf, making, crossing, crashed>>

ScriptReturns ==
    /\ Runs(Script) /\ Top.kind = "script"
    /\ Top.got.is # "error"
    /\ \E x \in made \cup {Undefined} : crossing' = Result("go", x)
    /\ stack' = Pop
    /\ meant' = Nothing /\ origin' = None
    /\ UNCHANGED <<made, receivers, errorOf, making, crashed>>

\* The code throws an exception of its own, or does not catch the one it got.
ScriptThrows ==
    /\ Runs(Script)
    /\ \E x \in Objects :
        /\ Top.got.is = "error" => x = Top.got.of
        /\ crossing' = Exception("go", x)
        /\ made' = made \cup {x}
        /\ origin' = Rethrown(x)
    /\ stack' = Pop
    /\ meant' = Nothing
    /\ UNCHANGED <<receivers, errorOf, making, crashed>>

\* Mutant: isError is not looked at.
GoReceives_AnyValue ==
    /\ crossing # None /\ crossing.to = "go"
    /\ stack' = Got(stack, ValueOf(crossing.result))
    /\ crossing' = None
    /\ UNCHANGED <<made, receivers, errorOf, making, meant, origin, crashed>>

\* Context.newValueFromTuple: the exception is returned as an error.
GoReceives ==
    /\ crossing # None /\ crossing.to = "go"
    /\ stack' = Got(stack, IF crossing.isError THEN ErrorOf(crossing.result) ELSE ValueOf(crossing.result))
    /\ crossing' = None
    /\ UNCHANGED <<made, receivers, errorOf, making, meant, origin, crashed>>

-----------------------------------------------------------------------------
(* JavaScript calls Go *)

\* FunctionCallbackHandler, GetterCallbackHandler or SetterCallbackHandler,
\* down to the Go function.
CallGo(kind) ==
    /\ Runs(Script)
    /\ Top.got.is # "error"
    /\ Depth < MaxDepth
    /\ Push(kind)
    /\ meant' = Nothing /\ origin' = None
    /\ UNCHANGED <<made, receivers, errorOf, making, crossing, crashed>>

Catch ==
    /\ Runs(Script)
    /\ Top.got.is = "error"
    /\ stack' = Got(stack, Nothing)
    /\ meant' = Nothing /\ origin' = None
    /\ UNCHANGED <<made, receivers, errorOf, making, crossing, crashed>>

\* It returns a value; a setter returns none, and none becomes undefined.
FunctionReturns ==
    /\ Runs(Callback)
    /\ \E x \in made \cup {Undefined} :
        /\ Top.kind = "setter" => x = Undefined
        /\ crossing' = Result("js", x)
        /\ meant' = ValueOf(x)
    /\ origin' = None
    /\ UNCHANGED <<stack, made, receivers, errorOf, making, crashed>>

\* It returns an exception, the one it got or another, as its error.
FunctionThrows ==
    /\ Runs(Callback)
    /\ \E x \in made :
        /\ crossing' = Exception("js", x)
        /\ meant' = ErrorOf(x)
        /\ origin' = Rethrown(x)
    /\ UNCHANGED <<stack, made, receivers, errorOf, making, crashed>>

\* It returns a Go error, or panics with what Sync makes an error, which has an
\* object: Context.create finds it.
FunctionFails ==
    /\ Runs(Callback)
    /\ \E e \in GoErrors :
        /\ receivers[e] # None
        /\ crossing' = Exception("js", receivers[e])
        /\ meant' = ErrorOf(e)
        /\ origin' = e
    /\ UNCHANGED <<stack, made, receivers, errorOf, making, crashed>>

\* Mutant: receivers are not looked up.
BeginErrorObject_Anew ==
    /\ Runs(Callback)
    /\ Depth < MaxDepth
    /\ \E e \in GoErrors : making' = [making EXCEPT ![Depth] = e]
    /\ Push("constructor")
    /\ meant' = Nothing /\ origin' = None
    /\ UNCHANGED <<made, receivers, errorOf, crossing, crashed>>

\* It has none: create gives up receiversMutex and calls the class Error.
BeginErrorObject ==
    /\ Runs(Callback)
    /\ Depth < MaxDepth
    /\ \E e \in GoErrors :
        /\ receivers[e] = None
        /\ making' = [making EXCEPT ![Depth] = e]
    /\ Push("constructor")
    /\ meant' = Nothing /\ origin' = None
    /\ UNCHANGED <<made, receivers, errorOf, crossing, crashed>>

\* The constructor returns the new object.
ConstructorReturns ==
    /\ crossing = None /\ ~crashed
    /\ Top.kind = "constructor"
    /\ Top.got.is # "error"
    /\ \E x \in Objects \ made :
        /\ crossing' = Result("go", x)
        /\ made' = made \cup {x}
    /\ stack' = Pop
    /\ meant' = Nothing /\ origin' = None
    /\ UNCHANGED <<receivers, errorOf, making, crashed>>

\* create gives it the error as its receiver, whether or not the error has got
\* another object in the meantime, and callbackHandler answers with it.
EndErrorObject ==
    \E e \in GoErrors, x \in Objects :
        /\ Makes(e)
        /\ Top.got = ValueOf(x)
        /\ receivers' = [receivers EXCEPT ![e] = x]
        /\ errorOf' = [errorOf EXCEPT ![x] = e]
        /\ making' = [making EXCEPT ![Depth] = None]
        /\ crossing' = Exception("js", x)
        /\ meant' = ErrorOf(e)
        /\ origin' = e
        /\ UNCHANGED <<stack, made, crashed>>

\* The constructor throws: the answer is the text of what it threw.
NoErrorObject ==
    /\ \E e \in GoErrors : Makes(e)
    /\ Top.got.is = "error"
    /\ making' = [making EXCEPT ![Depth] = None]
    /\ crossing' = TextError("js")
    /\ meant' = ErrorOf(Text)
    /\ origin' = None
    /\ UNCHANGED <<stack, made, receivers, errorOf, crashed>>

\* It returns an error that is not a pointer, from which Create makes no
\* object; or a value of another isolate.
FunctionFailsAsText ==
    /\ Runs(Callback)
    /\ "plain" \in Usage \/ ("foreign" \in Usage /\ Top.kind # "setter")
    /\ crossing' = TextError("js")
    /\ meant' = ErrorOf(Text)
    /\ origin' = None
    /\ UNCHANGED <<stack, made, receivers, errorOf, making, crashed>>

\* It returns a Value that was given up: callbackHandler panics and recovers.
FunctionReturnsStale ==
    /\ Runs(Callback)
    /\ "stale" \in Usage /\ Top.kind # "setter"
    /\ crossing' = NoResult("js")
    /\ meant' = ValueOf(Undefined)
    /\ origin' = None
    /\ UNCHANGED <<stack, made, receivers, errorOf, making, crashed>>

\* Mutant: the exception of a setter is not thrown.
ScriptReceives_SetterSilent ==
    /\ crossing # None /\ crossing.to = "js"
    /\ stack' = Got(Pop, IF crossing.isError /\ Top.kind # "setter" THEN ErrorOf(crossing.result) ELSE ValueOf(crossing.result))
    /\ crossing' = None
    /\ UNCHANGED <<made, receivers, errorOf, making, meant, origin, crashed>>

\* The handler throws the exception or hands over the value, which for a setter
\* is undefined.  Then it releases the tuple of the result, NULL or not.
ScriptReceives ==
    /\ crossing # None /\ crossing.to = "js"
    /\ \/ /\ crossing.error
          /\ \E x \in Objects \ made :
              /\ stack' = Got(Pop, ErrorOf(x))
              /\ made' = made \cup {x}
       \/ /\ ~crossing.error /\ crossing.isError
          /\ stack' = Got(Pop, ErrorOf(crossing.result))
          /\ UNCHANGED made
       \/ /\ ~crossing.error /\ ~crossing.isError
          /\ stack' = Got(Pop, ValueOf(IF crossing.result = NULL THEN Undefined ELSE crossing.result))
          /\ UNCHANGED made
    /\ crossing' = None
    /\ crashed' = (crossing.result = NULL)
    /\ UNCHANGED <<receivers, errorOf, making, meant, origin>>

-----------------------------------------------------------------------------
(* Specification *)

Function ==
    \/ FunctionReturns \/ FunctionThrows \/ FunctionFails
    \/ BeginErrorObject \/ EndErrorObject \/ NoErrorObject
    \/ FunctionFailsAsText \/ FunctionReturnsStale

Next ==
    \/ CallScript \/ CallNoFunction \/ ScriptReturns \/ ScriptThrows \/ ConstructorReturns
    \/ GoReceives
    \/ \E kind \in Callback : CallGo(kind)
    \/ Catch \/ Function \/ ScriptReceives

Spec == Init /\ [][Next]_vars

-----------------------------------------------------------------------------
(* Properties *)

\* The error x in Go and the exception y in JavaScript are one and the same: y is
\* x, or an object made for it (of which there can be several).
Same(x, y) == x = y \/ (x \in GoErrors /\ y \in Objects /\ errorOf[y] = x)

(***************************************************************************)
(* JavaScript gets from a Go function what the function returned: its      *)
(* value, its exception or the object of its error.                        *)
(***************************************************************************)
AnswersMatch ==
    crossing = None /\ Top.kind \in Script /\ meant # Nothing =>
        /\ Top.got.is = meant.is
        /\ meant.is = "value" => Top.got.of = meant.of
        /\ meant.is = "error" => meant.of = Text \/ Same(meant.of, Top.got.of)

(***************************************************************************)
(* An error that nobody catches reaches every caller up to the host as the *)
(* error that was raised, through any number of functions that return it.  *)
(***************************************************************************)
ErrorsArrive ==
    crossing = None /\ origin # None => Top.got.is = "error" /\ Same(origin, Top.got.of)

(***************************************************************************)
(* While its objects are made an error can get several, one for each call  *)
(* of the class Error that was under way when there was none, and the last *)
(* one stored replaces the others.  Then it settles: once the error has an *)
(* object and no more are being made, it has that object for good, and     *)
(* JavaScript can compare what it catches from then on by identity.        *)
(***************************************************************************)
Settled(e) == receivers[e] # None /\ \A d \in 1 .. MaxDepth : making[d] # e

ErrorObjectsSettle ==
    [][\A e \in GoErrors : Settled(e) => Settled(e)' /\ receivers'[e] = receivers[e]]_vars

(***************************************************************************)
(* A call of a Go function is answered without harm.  In particular the    *)
(* error for "callback returned a value from another isolate" reaches the  *)
(* JavaScript caller.                                                      *)
(***************************************************************************)
EveryAnswerIsSafe == ~crashed
=============================================================================
