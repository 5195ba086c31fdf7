----------------------------- MODULE MCCallbacks -----------------------------
(* Objects and errors are interchangeable. *)
EXTENDS Callbacks, TLC

Symmetry == Permutations(Objects) \cup Permutations(GoErrors)
=============================================================================
