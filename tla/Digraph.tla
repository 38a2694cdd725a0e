------------------------------ MODULE Digraph -------------------------------
(* Reachability and acyclicity of a finite directed graph given as its set  *)
(* of edges <<from, to>> over the nodes N, without recursion: the nodes a   *)
(* walk reaches from x are the least set that holds x and is closed.        *)

Closed(E, S) == \A e \in E : e[1] \in S => e[2] \in S

Reach(N, E, x) == {y \in N : \A S \in SUBSET N : x \in S /\ Closed(E, S) => y \in S}

\* No edge lies on a cycle.
Acyclic(N, E) == \A e \in E : e[1] \notin Reach(N, E, e[2])
=============================================================================
