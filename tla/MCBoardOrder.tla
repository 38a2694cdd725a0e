---------------------------- MODULE MCBoardOrder ----------------------------
(* Instances of BoardOrder for TLC: two columns, the second completes tasks. *)
EXTENDS BoardOrder, TLC

CONSTANTS todo, done

MCRank == todo :> 0 @@ done :> 1

\* Moves, reorders, removals and restores; or bulk moves, moves and creates,
\* where some two tasks recur.
MCMixes ==
    {[ops |-> {"remove", "move", "restore"}, recurring |-> {}, maxRequest |-> 1, maxPosition |-> 2]}
    \cup {[ops |-> {"create", "bulk", "move"}, recurring |-> S, maxRequest |-> 0, maxPosition |-> 1] :
             S \in {R \in SUBSET Tasks : Cardinality(R) = 2}}

\* Requests are interchangeable, and so are tasks: the mixes treat them alike.
Symmetry == Permutations(Clients) \cup Permutations(Tasks)
=============================================================================
