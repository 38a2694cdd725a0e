--------------------------- MODULE DependencyGraph --------------------------
(* What the task relations promise: a directed graph of blocking relations  *)
(* that edges join one at a time, never closing a cycle, and leave freely.  *)
EXTENDS Digraph

CONSTANT Tasks

VARIABLE edges

Init == edges = {}

\* A new relation, rejected if the target already leads to the source.
Link ==
    \E s, d \in Tasks :
        /\ s \notin Reach(Tasks, edges, d)
        /\ edges' = edges \cup {<<s, d>>}

\* Removed relations, and those of a task that leaves.
Unlink == edges' \in SUBSET edges

Next == Link \/ Unlink

Spec == Init /\ [][Next]_edges

\* The graph has no cycle, whatever joined and left it.
NoCycle == Acyclic(Tasks, edges)
=============================================================================
