------------------------- MODULE MCWorkspaceMembers -------------------------
(* Instances of WorkspaceMembers for TLC: a founder, an administrator or     *)
(* member, and a third user who may be outside the workspace.                *)
EXTENDS WorkspaceMembers, TLC

CONSTANTS ann, bob, cid

MCFirstRoles == {ann :> "OWNER" @@ bob :> "ADMIN" @@ cid :> "MEMBER",
                 ann :> "OWNER" @@ bob :> "ADMIN" @@ cid :> None}

\* Requests are interchangeable, and so are processes.
Symmetry == Permutations(Clients) \cup Permutations(Processes)
=============================================================================
