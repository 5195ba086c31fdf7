------------------------------- MODULE Require -------------------------------
(***************************************************************************)
(* The module cache of RunWithRuntime: require resolves a specifier to a   *)
(* module, answers from the cache when the module is there, and otherwise  *)
(* puts it in the cache and evaluates its parts, whose code calls require  *)
(* again.  A module is a file, or the parts registered under one name with *)
(* RegisterRuntime and RegisterRuntimeLibrary.  What the code of a module  *)
(* does is free: it requires anything in any order, catches errors or not, *)
(* replaces its exports, throws or returns.                                *)
(***************************************************************************)
EXTENDS Naturals, Sequences

CONSTANTS
    Specifiers,     \* what require is called with
    Ids,            \* keys of the cache
    Module,         \* the ids a specifier may resolve to in a module (None: in the host):
                    \* None stands for an error, Diverges for a search without end
    Refused,        \* specifiers that the security map turns away (those it maps to true)
    Parts,          \* for each id what resolve found: "factory" or "file"
    Usage,          \* a subset of {"nativeFails"}: operations on module values may fail
    None, Diverges

ASSUME ModuleAssumption ==
    Module \in [Ids \cup {None} -> [Specifiers -> SUBSET (Ids \cup {None, Diverges})]]
ASSUME RefusedAssumption == Refused \subseteq Specifiers
ASSUME PartsAssumption == Parts \in [Ids -> Seq({"factory", "file"}) \ {<<>>}]
ASSUME UsageAssumption == Usage \subseteq {"nativeFails"}
ASSUME NoneAssumption == None \notin Ids /\ Diverges \notin Ids \cup {None}

VARIABLES
    modules,    \* the ids in the map of modules
    failed,     \* the ids of modules with an Error
    exports,    \* the "exports" property of each module value
    stack,      \* the calls of require in progress, each evaluating a module
    loaded,     \* the modules whose evaluation ended well
    incomplete, \* those left in the cache without an Error when an operation on them failed
    answer      \* what the last call of require returned: an id, None for an error

cache == <<modules, failed, exports>>
history == <<loaded, incomplete>>
vars == <<cache, stack, history, answer>>

Frames ==
    [id : Ids, part : Nat \ {0}, step : {"start", "body", "next"}]
        \cup [id : {None}, part : {1}, step : {"search"}]

TypeOK ==
    /\ modules \in SUBSET Ids
    /\ failed \in SUBSET modules
    /\ exports \in [Ids -> {None, "object", "default", "nil"}]
    /\ stack \in Seq(Frames)
    /\ loaded \in SUBSET Ids
    /\ incomplete \in SUBSET Ids
    /\ answer \in Ids \cup {None}

Init ==
    /\ modules = {}
    /\ failed = {}
    /\ exports = [id \in Ids |-> None]
    /\ stack = <<>>
    /\ loaded = {}
    /\ incomplete = {}
    /\ answer = None

Depth == Len(stack)
Top == stack[Depth]
Loading == {stack[n].id : n \in 1 .. Depth} \ {None}

AtStep(step) == stack # <<>> /\ Top.step = step

MoveTo(part, step) ==
    stack' = [stack EXCEPT ![Depth] = [id |-> Top.id, part |-> part, step |-> step]]

Goto(step) == MoveTo(Top.part, step)

NextPart == MoveTo(Top.part + 1, "start")

\* "break": the loop over the parts is over.
Break == MoveTo(Len(Parts[Top.id]) + 1, "start")

Pop == stack' = SubSeq(stack, 1, Depth - 1)

Fail == failed' = failed \cup {Top.id}

-----------------------------------------------------------------------------
(* A call of require: by the host, or by the code of a module *)

MayCall == stack = <<>> \/ AtStep("body")

\* The module a call of require is made in.
Caller == IF stack = <<>> THEN None ELSE Top.id

\* What the specifier of a call may lead to.
Found(s) == IF s \in Refused THEN {None} ELSE Module[Caller][s]

\* The specifier is refused, nothing is found for it, the file system fails,
\* or the require function of a new module cannot be created.
RequireNothing(s) ==
    /\ MayCall
    /\ None \in Found(s) \/ "nativeFails" \in Usage
    /\ answer' = None
    /\ UNCHANGED <<cache, stack, history>>

\* The search for a package from a relative path does not end.
RequireDiverges(s) ==
    /\ MayCall
    /\ Diverges \in Found(s)
    /\ stack' = Append(stack, [id |-> None, part |-> 1, step |-> "search"])
    /\ answer' = None
    /\ UNCHANGED <<cache, history>>

\* It goes round in ".".
KeepSearching == AtStep("search") /\ UNCHANGED vars

\* Mutant: the error of a module that failed is not looked at.
RequireCached_NoError(s) ==
    /\ MayCall
    /\ \E id \in Found(s) \cap modules : answer' = id
    /\ UNCHANGED <<cache, stack, history>>

\* The module is in the cache: its error or, complete or not, its exports.
RequireCached(s) ==
    /\ MayCall
    /\ \E id \in Found(s) \cap modules :
        \/ id \notin failed /\ answer' = id
        \/ (id \in failed \/ "nativeFails" \in Usage) /\ answer' = None
    /\ UNCHANGED <<cache, stack, history>>

\* It is not: it is put there, but the module value cannot be set up: the error
\* is returned and not remembered.
RequireFailsLate(s) ==
    /\ MayCall
    /\ "nativeFails" \in Usage
    /\ \E id \in (Found(s) \cap Ids) \ modules :
        /\ modules' = modules \cup {id}
        /\ incomplete' = incomplete \cup {id}
    /\ answer' = None
    /\ UNCHANGED <<failed, exports, stack, loaded>>

Begin(id) ==
    /\ exports' = [exports EXCEPT ![id] = "object"]
    /\ stack' = Append(stack, [id |-> id, part |-> 1, step |-> "start"])

\* Mutant: the module is put in the cache when it has been evaluated.
RequireNew_Uncached(s) ==
    /\ MayCall
    /\ \E id \in (Found(s) \cap Ids) \ modules : Begin(id)
    /\ answer' = None
    /\ UNCHANGED <<modules, failed, history>>

\* It is not: it is put in the cache with an empty exports object and evaluated.
RequireNew(s) ==
    /\ MayCall
    /\ \E id \in (Found(s) \cap Ids) \ modules :
        /\ modules' = modules \cup {id}
        /\ Begin(id)
    /\ answer' = None
    /\ UNCHANGED <<failed, history>>

-----------------------------------------------------------------------------
(* The loop over the parts of a module *)

MoreParts == AtStep("start") /\ Top.part <= Len(Parts[Top.id])

Part == Parts[Top.id][Top.part]

\* The factory, or the function of the file's extension, is called.
StartPart ==
    /\ MoreParts
    /\ Goto("body")
    /\ answer' = None
    /\ UNCHANGED <<cache, history>>

\* The factory cannot be created; or no extension handles the file, or it
\* cannot be read or compiled.
PartMissing ==
    /\ MoreParts
    /\ Part = "file" \/ "nativeFails" \in Usage
    /\ Fail
    /\ Break
    /\ answer' = None
    /\ UNCHANGED <<modules, exports, history>>

\* The exports cannot be read: the error is returned and not remembered.
PartAborts ==
    /\ MoreParts
    /\ Part = "factory" /\ "nativeFails" \in Usage
    /\ Pop
    /\ incomplete' = incomplete \cup {Top.id}
    /\ answer' = None
    /\ UNCHANGED <<cache, loaded>>

\* The global object is not there: an error without a break.
PartSkipped ==
    /\ MoreParts
    /\ Part = "factory" /\ "nativeFails" \in Usage
    /\ Fail
    /\ NextPart
    /\ answer' = None
    /\ UNCHANGED <<modules, exports, history>>

\* The code of the module replaces module.exports.
SetExports ==
    /\ AtStep("body")
    /\ \E e \in {"object", "nil"} : exports' = [exports EXCEPT ![Top.id] = e]
    /\ answer' = None
    /\ UNCHANGED <<modules, failed, stack, history>>

\* It throws, or does not catch what require threw.
Throw ==
    /\ AtStep("body")
    /\ Fail
    /\ Break
    /\ answer' = None
    /\ UNCHANGED <<modules, exports, history>>

\* It returns.
ReturnFromPart ==
    /\ AtStep("body")
    /\ Goto("next")
    /\ answer' = None
    /\ UNCHANGED <<cache, history>>

\* Mutant: the loop does not go on to the next part.
EndPart_Stays ==
    /\ AtStep("next")
    /\ Part = "factory" => exports[Top.id] # "nil"
    /\ \/ UNCHANGED exports
       \/ Part = "factory" /\ exports' = [exports EXCEPT ![Top.id] = "default"]
    /\ answer' = None
    /\ UNCHANGED <<modules, failed, stack, history>>

\* After a file there is nothing to do; after a factory the exports may have
\* a default export, which takes their place.
EndPart ==
    /\ AtStep("next")
    /\ Part = "factory" => exports[Top.id] # "nil"
    /\ \/ UNCHANGED exports
       \/ Part = "factory" /\ exports' = [exports EXCEPT ![Top.id] = "default"]
    /\ NextPart
    /\ answer' = None
    /\ UNCHANGED <<modules, failed, history>>

\* A factory left no exports, or they cannot be handled: their default export
\* is not to be read, or is put in their place and does not take their properties.
EndPartFails ==
    /\ AtStep("next")
    /\ Part = "factory"
    /\ Fail
    /\ Break
    /\ \/ UNCHANGED exports
       \/ exports[Top.id] # "nil" /\ exports' = [exports EXCEPT ![Top.id] = "default"]
    /\ answer' = None
    /\ UNCHANGED <<modules, history>>

AllParts == AtStep("start") /\ Top.part > Len(Parts[Top.id])

\* Mutant: a module that failed is taken out of the cache.
Finish_Retries ==
    /\ AllParts
    /\ Pop
    /\ IF Top.id \in failed
       THEN answer' = None /\ modules' = modules \ {Top.id} /\ failed' = failed \ {Top.id}
       ELSE answer' = Top.id /\ UNCHANGED <<modules, failed>>
    /\ loaded' = IF Top.id \in failed THEN loaded ELSE loaded \cup {Top.id}
    /\ UNCHANGED <<exports, incomplete>>

\* The module's error is returned, or else its exports.
Finish ==
    /\ AllParts
    /\ Pop
    /\ answer' = IF Top.id \in failed THEN None ELSE Top.id
    /\ loaded' = IF Top.id \in failed THEN loaded ELSE loaded \cup {Top.id}
    /\ UNCHANGED <<cache, incomplete>>

\* The exports cannot be read in the end.
FinishFails ==
    /\ AllParts
    /\ "nativeFails" \in Usage
    /\ Top.id \notin failed
    /\ Pop
    /\ loaded' = loaded \cup {Top.id}
    /\ answer' = None
    /\ UNCHANGED <<cache, incomplete>>

-----------------------------------------------------------------------------
(* Specification *)

Require(s) ==
    \/ RequireNothing(s) \/ RequireDiverges(s) \/ RequireCached(s) \/ RequireFailsLate(s) \/ RequireNew(s)

Evaluate ==
    \/ StartPart \/ PartMissing \/ PartAborts \/ PartSkipped
    \/ EndPart \/ EndPartFails \/ Finish \/ FinishFails

Body == SetExports \/ Throw \/ ReturnFromPart

Next == (\E s \in Specifiers : Require(s)) \/ Evaluate \/ Body \/ KeepSearching

Spec == Init /\ [][Next]_vars

(***************************************************************************)
(* The loader goes on, and the code of a module returns or throws in the   *)
(* end, however often it calls require before.                             *)
(***************************************************************************)
FairSpec == Spec /\ WF_vars(Evaluate) /\ SF_vars(ReturnFromPart \/ Throw)

-----------------------------------------------------------------------------
(* Properties *)

(***************************************************************************)
(* However modules depend on one another, in circles too, a module that is *)
(* being evaluated is not evaluated again: require calls nest at most as   *)
(* deep as there are modules.                                              *)
(***************************************************************************)
NoReentry == \A m, n \in 1 .. Depth : stack[m].id = stack[n].id => m = n

(***************************************************************************)
(* require returns the exports of a module only when it is loaded, or is   *)
(* being loaded by a caller; or when, after it was put in the cache, an    *)
(* operation on its object failed, which the cache does not remember.      *)
(***************************************************************************)
AnswersAreLoaded == answer # None => answer \in loaded \cup Loading \cup incomplete

(***************************************************************************)
(* Every call of require returns, unless it comes to search for a package  *)
(* from a relative path, which is the only thing that can hold it up.      *)
(***************************************************************************)
EveryRequireReturns == [](stack # <<>> => <>(stack = <<>> \/ AtStep("search")))

(***************************************************************************)
(* The cache implements a module loader: whichever specifiers lead to it,  *)
(* and however native calls fail, a module is evaluated once, for good.    *)
(***************************************************************************)
Status(id) ==
    IF id \notin modules THEN "absent"
    ELSE IF id \in Loading THEN "loading"
    ELSE IF id \in failed THEN "failed"
    ELSE IF id \in incomplete THEN "incomplete"
    ELSE "loaded"

Loader == INSTANCE ModuleLoader WITH
    Modules <- Ids,
    NoAnswer <- None,
    status <- [id \in Ids |-> Status(id)],
    answer <- answer

ImplementsLoader == Loader!Spec
===============================================================================
