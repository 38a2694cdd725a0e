-------------------------- MODULE MCRefreshSessions --------------------------
(* Instances of RefreshSessions for TLC. *)
EXTENDS RefreshSessions, TLC

\* Requests, tokens, links and devices are interchangeable.
Symmetry == Permutations(Clients) \cup Permutations(Tokens)
            \cup Permutations(Links) \cup Permutations(Devices)
=============================================================================
