----------------------------- MODULE ModuleLoader -----------------------------
(***************************************************************************)
(* What a module loader promises: a module is evaluated at most once, is   *)
(* loaded or has failed for good, and a request for it is answered with    *)
(* its exports only when it is loaded, or while it is being loaded (by a   *)
(* module it depends on).  A module that was given up before its           *)
(* evaluation ended without being recorded as failed is incomplete: it is  *)
(* answered too.                                                           *)
(***************************************************************************)
CONSTANTS Modules, NoAnswer

VARIABLES
    status,     \* of each module
    answer      \* the last module a request was answered with

Ends == {"loaded", "failed", "incomplete"}
States == {"absent", "loading"} \cup Ends

Init == status = [m \in Modules |-> "absent"] /\ answer = NoAnswer

\* A request is answered with an error, or the program goes on.
Silent == answer' = NoAnswer

Answer(m) == status'[m] \in {"loading", "loaded", "incomplete"} /\ answer' = m

Load(m) ==
    /\ status[m] = "absent"
    /\ \E s \in {"loading", "incomplete"} : status' = [status EXCEPT ![m] = s]
    /\ Silent

Finish(m, outcome) ==
    /\ status[m] = "loading"
    /\ status' = [status EXCEPT ![m] = outcome]
    /\ Silent \/ (outcome = "loaded" /\ Answer(m))

Request(m) == UNCHANGED status /\ (Answer(m) \/ Silent)

Next ==
    \E m \in Modules :
        Load(m) \/ Request(m) \/ \E outcome \in Ends : Finish(m, outcome)

Spec == Init /\ [][Next]_<<status, answer>>
===============================================================================
