---------------------------- MODULE MCExecution ----------------------------
(* Model values and symmetry for model-checking Execution. *)
EXTENDS Execution, TLC

Symmetry ==
    Permutations(Goroutines) \cup Permutations(UserContexts) \cup Permutations(FreshContexts)
        \cup Permutations(Isolates) \cup Permutations(Releasers)
=============================================================================
