--------------------------- MODULE MCBoardLayout ---------------------------
(* An instance of BoardLayout for TLC.                                     *)
EXTENDS BoardLayout, TLC

Two(l) == IF l = 1 \/ l = 2 THEN 1 ELSE 0

\* A board with two columns, two boards, a funnel with two stages, none.
MCStarts ==
    {[kind |-> "boards", boards |-> {1}, on |-> [l \in Lanes |-> Two(l)]],
     [kind |-> "boards", boards |-> {1, 2},
      on |-> [l \in Lanes |-> IF l = 3 THEN 2 ELSE Two(l)]],
     [kind |-> "funnels", boards |-> {1}, on |-> [l \in Lanes |-> IF l <= 3 THEN 1 ELSE 0]],
     [kind |-> "funnels", boards |-> {}, on |-> [l \in Lanes |-> 0]]}

Symmetry == Permutations(Items) \cup Permutations(Clients)
=============================================================================
