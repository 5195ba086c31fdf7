--------------------------- MODULE ReentrantMonitor ---------------------------
(***************************************************************************)
(* What a reentrant lock promises, whatever it is made of.  An activity    *)
(* <<a, n>> is the n-th nested activity of agent a.  Only one agent has    *)
(* activities at a place at any time, and it leaves them in the reverse    *)
(* order in which it entered them.  Isolate.Sync is meant to be such a     *)
(* lock, with goroutines for agents and isolates for places.               *)
(***************************************************************************)
EXTENDS Integers

CONSTANTS Agents, Places, MaxNesting

VARIABLE inside     \* the activities at each place

Activities == Agents \X (1 .. MaxNesting)

Init == inside = [p \in Places |-> {}]

\* Nobody else is at p, and a is the innermost activity of its agent there.
Enter(a, p) ==
    /\ \A b \in inside[p] : b[1] = a[1] /\ b[2] < a[2]
    /\ inside' = [inside EXCEPT ![p] = @ \cup {a}]

Leave(a, p) ==
    /\ a \in inside[p]
    /\ \A b \in inside[p] : b[2] <= a[2]
    /\ inside' = [inside EXCEPT ![p] = @ \ {a}]

Next == \E a \in Activities, p \in Places : Enter(a, p) \/ Leave(a, p)

Spec == Init /\ [][Next]_inside
===============================================================================
