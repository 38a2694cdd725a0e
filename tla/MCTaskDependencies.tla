------------------------- MODULE MCTaskDependencies -------------------------
(* Instances of TaskDependencies for TLC.                                   *)
EXTENDS TaskDependencies, TLC

\* Tasks and clients are interchangeable where no constant names one of them.
Symmetry == Permutations(Tasks) \cup Permutations(Clients)

\* Bounds an instance: relations of tasks that stay where they were created,
\* or the checklist and the moves of one task.
RelationsOrMoves ==
    \/ /\ \A t \in Tasks : dod[t] = "none" /\ col[t] = Origin
       /\ (\A l \in Layouts : doneCols \subseteq l) /\ \A c \in Clients : req[c].pc \notin {"moving", "landed"}
    \/ /\ blocks = {} /\ relates = {} /\ \A c \in Clients : req[c].pc \notin RelationPC
       /\ Cardinality({t \in Tasks : status[t] # "absent"}) <= 1
       /\ \A t \in Tasks : status[t] = "absent" => col[t] = Origin
=============================================================================
