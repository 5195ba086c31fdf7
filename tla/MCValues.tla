------------------------------ MODULE MCValues ------------------------------
(* Model values and symmetry for model-checking Values. *)
EXTENDS Values, TLC

Symmetry ==
    Permutations(Objects) \cup Permutations(Primitives) \cup Permutations(Tuples)
        \cup Permutations(GoValues)
=============================================================================
