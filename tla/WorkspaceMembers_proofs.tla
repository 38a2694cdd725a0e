----------------------- MODULE WorkspaceMembers_proofs -----------------------
(* Type correctness of WorkspaceMembers; that without a raced role change the *)
(* workspace always has exactly the owner its row names; what its cache and   *)
(* its room hold; and who gets in by which invitation.                        *)
EXTENDS WorkspaceMembers, FiniteSetTheorems, TLAPS

-----------------------------------------------------------------------------
(* Requests *)

\* What a request carries at each stage.
Formed(r) ==
    /\ r.pc # "idle" => r.actor \in Users /\ r.on \in Processes
    /\ r.op \in {"role", "remove", "invite"} => r.target \in Users
    /\ r.op \in {"role", "invite"} => r.new \in Roles
    /\ r.op = "invite" => r.new # "OWNER"
    /\ r.pc \in {"target", "count", "del", "delActor", "evict"} => r.op \in {"role", "remove"}
    /\ r.pc \in {"member", "active", "insert"} => r.op = "invite"
    /\ r.pc = "fill" => r.arole \in Roles

ReqOK == req \in [Clients -> Request] /\ \A c \in Clients : Formed(req[c])

TypeInv == TypeOK /\ ReqOK

\* The idle request.
LEMMA IdleFormed == Idle \in Request /\ Formed(Idle)
BY DEF Idle, Request, Formed, Stages, Operations

\* A step that replaces the request of c by a formed one.
LEMMA ReqReplaced ==
    ASSUME ReqOK, NEW c \in Clients, NEW r \in Request, Formed(r),
           req' = [req EXCEPT ![c] = r]
    PROVE  ReqOK'
<1>1. req' \in [Clients -> Request]
  BY DEF ReqOK
<1>2. \A d \in Clients : req'[d] = IF d = c THEN r ELSE req[d]
  BY DEF ReqOK
<1>3. \A d \in Clients : Formed(req'[d])
  BY <1>2 DEF ReqOK
<1>4. QED
  BY <1>1, <1>3 DEF ReqOK, Formed

\* The request of c ends.
LEMMA ReqDone ==
    ASSUME ReqOK, NEW c \in Clients, Done(c)
    PROVE  ReqOK'
BY IdleFormed, ReqReplaced DEF Done

\* The request of c goes to another stage.
LEMMA ReqGoes ==
    ASSUME ReqOK, NEW c \in Clients, NEW p \in Stages, Go(c, p),
           Formed([req[c] EXCEPT !.pc = p])
    PROVE  ReqOK'
<1>1. req' = [req EXCEPT ![c] = [req[c] EXCEPT !.pc = p]]
  BY DEF Go, ReqOK
<1>2. [req[c] EXCEPT !.pc = p] \in Request
  BY DEF ReqOK, Request
<1>3. QED
  BY <1>1, <1>2, ReqReplaced

\* The fields of a request, for the provers.
LEMMA Fields ==
    ASSUME ReqOK, NEW c \in Clients
    PROVE  /\ req[c].pc \in Stages /\ req[c].op \in Operations
           /\ req[c].on \in Processes \cup {None}
           /\ req[c].actor \in Users \cup {None} /\ req[c].target \in Users \cup {None}
           /\ req[c].new \in Roles \cup {None} /\ req[c].arole \in Roles \cup {None}
           /\ req[c].old \in Roles \cup {None} /\ req[c].archived \in BOOLEAN
           /\ req[c].id \in Nat /\ req[c].invs \in SUBSET Invites
           /\ Formed(req[c]) /\ req[c] \in Request
BY DEF ReqOK, Request

\* A new request with arguments that fit its operation.
LEMMA StartFormed ==
    ASSUME ReqOK, NEW c \in Clients, NEW op \in Operations, NEW a \in Users,
           NEW t \in Users \cup {None}, NEW n \in Roles \cup {None}, NEW is \in SUBSET Invites,
           op \in {"role", "remove", "invite"} => t \in Users,
           op \in {"role", "invite"} => n \in Roles,
           op = "invite" => n # "OWNER",
           Start(c, op, a, t, n, is)
    PROVE  ReqOK' /\ UNCHANGED <<db, cache, room, raced, ghosts>> /\ started' = started + 1
<1>0. PICK p \in Processes :
        req' = [req EXCEPT ![c] = [Idle EXCEPT !.pc = "auth", !.on = p, !.op = op, !.actor = a,
                                               !.target = t, !.new = n, !.invs = is]]
  BY DEF Start
<1> DEFINE r == [Idle EXCEPT !.pc = "auth", !.on = p, !.op = op, !.actor = a,
                             !.target = t, !.new = n, !.invs = is]
<1>1. r \in Request
  BY DEF Idle, Request, Stages
<1>2. Formed(r)
  BY DEF Formed, Idle
<1>3. req' = [req EXCEPT ![c] = r]
  BY <1>0
<1>4. QED
  BY <1>1, <1>2, <1>3, ReqReplaced DEF Start

\* Every way to start one.
LEMMA StartReq ==
    ASSUME ReqOK, NEW c \in Clients, StartRequest(c)
    PROVE  ReqOK' /\ UNCHANGED <<db, cache, room, raced, ghosts>> /\ started' = started + 1
<1>1. NewRoles \subseteq Roles
  BY MembersConstants
<1>2. PICK a \in Users :
        \/ \E op \in {"use", "join", "archive", "delete", "unarchive"} :
              Start(c, op, a, None, None, {})
        \/ \E t \in Users : Start(c, "remove", a, t, None, {})
        \/ \E t \in Users, n \in NewRoles : Start(c, "role", a, t, n, {})
        \/ \E t \in Users \ {a}, n \in NewRoles \ {"OWNER"} : Start(c, "invite", a, t, n, {})
        \/ \E i \in Invites, op \in {"revoke", "accept"} : Start(c, op, a, None, None, {i})
  BY DEF StartRequest, Invitable
<1>3. CASE \E op \in {"use", "join", "archive", "delete", "unarchive"} :
              Start(c, op, a, None, None, {})
  <2>1. PICK op \in {"use", "join", "archive", "delete", "unarchive"} :
           Start(c, op, a, None, None, {})
    BY <1>3
  <2>2. op \in Operations /\ op \notin {"role", "remove", "invite"}
    BY DEF Operations
  <2>3. QED
    BY <2>1, <2>2, StartFormed
<1>4. CASE \E t \in Users : Start(c, "remove", a, t, None, {})
  BY <1>4, StartFormed DEF Operations
<1>5. CASE \E t \in Users, n \in NewRoles : Start(c, "role", a, t, n, {})
  BY <1>5, <1>1, StartFormed DEF Operations
<1>6. CASE \E t \in Users \ {a}, n \in NewRoles \ {"OWNER"} : Start(c, "invite", a, t, n, {})
  BY <1>6, <1>1, StartFormed DEF Operations
<1>7. CASE \E i \in Invites, op \in {"revoke", "accept"} : Start(c, op, a, None, None, {i})
  <2>1. PICK i \in Invites, op \in {"revoke", "accept"} : Start(c, op, a, None, None, {i})
    BY <1>7
  <2>2. op \in Operations /\ op \notin {"role", "remove", "invite"} /\ {i} \in SUBSET Invites
    BY DEF Operations
  <2>3. QED
    BY <2>1, <2>2, StartFormed
<1>8. QED
  BY <1>2, <1>3, <1>4, <1>5, <1>6, <1>7

\* After the membership check.
LEMMA AuthorisedReq ==
    ASSUME ReqOK, NEW c \in Clients, NEW r \in Roles, Authorised(c, r), req[c].pc # "idle"
    PROVE  ReqOK'
<1> DEFINE next == CASE req[c].op \in {"role", "remove"} -> "target"
                     [] req[c].op = "invite"             -> "member"
                     [] req[c].op = "use"                -> "idle"
                     [] OTHER                            -> "commit"
<1>1. CASE Done(c)
  BY <1>1, ReqDone
<1>2. CASE ~Done(c)
  <2>1. req' = [req EXCEPT ![c].pc = next, ![c].arole = r] /\ next # "idle"
    BY <1>2 DEF Authorised
  <2> DEFINE q == [req[c] EXCEPT !.pc = next, !.arole = r]
  <2>2. req' = [req EXCEPT ![c] = q]
    BY <2>1 DEF ReqOK
  <2>3. next \in {"target", "member", "commit"}
        /\ (next = "target" => req[c].op \in {"role", "remove"})
        /\ (next = "member" => req[c].op = "invite")
    BY <2>1
  <2> HIDE DEF next
  <2>4. q \in Request
    BY <2>3, Fields, ZenonT(60) DEF Request, Stages
  <2>5. Formed(q)
    BY <2>3, Fields DEF Formed
  <2>6. QED
    BY <2>2, <2>4, <2>5, ReqReplaced
<1>3. QED
  BY <1>1, <1>2

-----------------------------------------------------------------------------
(* Type correctness *)

\* The variables other than req.
DataOK ==
    /\ role \in [Users -> Roles \cup {None}]
    /\ row \in [Users -> Nat]
    /\ ownerId \in Users
    /\ shut \in SUBSET {"archived", "deleted"}
    /\ invite \in [Invites -> InviteRow]
    /\ cache \in [Users -> CacheEntry \cup {None}]
    /\ room \in SUBSET (Users \X Processes)
    /\ started \in Nat
    /\ raced \in BOOLEAN
    /\ ghosts \in SUBSET (Users \X Processes)

Inv == DataOK /\ ReqOK

\* Together they are the type invariant.
LEMMA InvTypes == Inv => TypeOK
BY DEF Inv, DataOK, ReqOK, TypeOK

\* getMembership.
LEMMA MembershipTypes ==
    ASSUME Inv, NEW c \in Clients, Membership(c)
    PROVE  Inv'
<1> USE DEF Inv
<1>1. CASE CacheHit(c)
  <2>1. req[c].pc = "auth"
    BY <1>1 DEF CacheHit, ViaCache, At
  <2>2. cache[req[c].actor] \in CacheEntry
    BY <1>1, <2>1, Fields DEF CacheHit, DataOK, Formed
  <2>3. cache[req[c].actor].role \in Roles
    BY <2>2 DEF CacheEntry
  <2>4. ReqOK'
    BY <1>1, <2>1, <2>3, AuthorisedReq, ReqDone DEF CacheHit
  <2>5. QED
    BY <1>1, <2>4 DEF CacheHit, DataOK, db
<1>2. CASE LoadMembership(c)
  <2>1. req[c].pc = "auth" /\ req[c].actor \in Users
    BY <1>2, Fields DEF LoadMembership, ViaCache, At, Formed
  <2>2. CASE Done(c)
    BY <1>2, <2>2, ReqDone DEF LoadMembership, DataOK, db
  <2>3. CASE ~Done(c)
    <3> DEFINE arc == "archived" \in shut
               q == [req[c] EXCEPT !.pc = "fill", !.arole = role[req[c].actor],
                                   !.archived = arc]
    <3>0. arc \in BOOLEAN
      OBVIOUS
    <3>1. role[req[c].actor] # None
          /\ req' = [req EXCEPT ![c].pc = "fill", ![c].arole = role[req[c].actor],
                                ![c].archived = arc]
      BY <1>2, <2>3 DEF LoadMembership
    <3> HIDE DEF arc
    <3>2. req' = [req EXCEPT ![c] = q]
      BY <3>1 DEF ReqOK
    <3>3. role[req[c].actor] \in Roles
      BY <2>1, <3>1 DEF DataOK
    <3>4. q \in Request
      BY <3>0, <3>3, Fields, ZenonT(60) DEF Request, Stages
    <3>5. Formed(q)
      BY <2>1, <3>3, Fields DEF Formed
    <3>6. ReqOK'
      BY <3>2, <3>4, <3>5, ReqReplaced
    <3>7. QED
      BY <1>2, <3>6 DEF LoadMembership, DataOK, db
  <2>4. QED
    BY <2>2, <2>3
<1>3. CASE FillCache(c)
  <2>1. req[c].pc = "fill" /\ req[c].arole \in Roles
    BY <1>3, Fields DEF FillCache, At, Formed
  <2>2. ReqOK'
    BY <1>3, <2>1, AuthorisedReq DEF FillCache
  <2>3. cache' \in [Users -> CacheEntry \cup {None}]
    BY <1>3, <2>1, Fields DEF FillCache, DataOK, CacheEntry
  <2>4. QED
    BY <1>3, <2>2, <2>3 DEF FillCache, DataOK, db
<1>4. QED
  BY <1>1, <1>2, <1>3 DEF Membership

\* updateMemberRole and removeMember up to their commit.
LEMMA ChangeRoleTypes ==
    ASSUME Inv, NEW c \in Clients, ChangeRole(c)
    PROVE  Inv'
<1> USE DEF Inv
<1>1. CASE ReadTarget(c)
  <2>1. req[c].pc = "target" /\ req[c].target \in Users
    BY <1>1, Fields DEF ReadTarget, At, Formed
  <2>2. CASE Done(c)
    BY <1>1, <2>2, ReqDone DEF ReadTarget, DataOK, db
  <2>3. CASE ~Done(c)
    <3> DEFINE q == [req[c] EXCEPT !.pc = "count", !.old = role[req[c].target],
                                   !.id = row[req[c].target]]
    <3>1. req' = [req EXCEPT ![c].pc = "count", ![c].old = role[req[c].target],
                             ![c].id = row[req[c].target]]
      BY <1>1, <2>3 DEF ReadTarget
    <3>2. req' = [req EXCEPT ![c] = q]
      BY <3>1 DEF ReqOK
    <3>3. role[req[c].target] \in Roles \cup {None} /\ row[req[c].target] \in Nat
      BY <2>1 DEF DataOK
    <3>4. q \in Request
      BY <3>3, Fields, ZenonT(60) DEF Request, Stages
    <3>5. Formed(q)
      BY <2>1, Fields DEF Formed
    <3>6. ReqOK'
      BY <3>2, <3>4, <3>5, ReqReplaced
    <3>7. QED
      BY <1>1, <3>6 DEF ReadTarget, DataOK, db
  <2>4. QED
    BY <2>2, <2>3
<1>2. CASE CountOwners(c)
  <2>1. CASE Done(c)
    BY <1>2, <2>1, ReqDone DEF CountOwners, DataOK, db
  <2>2. CASE Go(c, "commit")
    <3>1. Formed([req[c] EXCEPT !.pc = "commit"])
      BY <1>2, Fields DEF CountOwners, At, Formed
    <3>2. ReqOK'
      BY <2>2, <3>1, ReqGoes DEF Stages
    <3>3. QED
      BY <1>2, <3>2 DEF CountOwners, DataOK, db
  <2>3. QED
    BY <1>2, <2>1, <2>2 DEF CountOwners
<1>3. CASE CommitRole(c)
  <2>1. req[c].pc = "commit" /\ req[c].op = "role" /\ req[c].target \in Users
        /\ req[c].new \in Roles /\ req[c].actor \in Users
    BY <1>3, Fields DEF CommitRole, At, Formed
  <2>2. CASE Done(c) /\ UNCHANGED <<role, ownerId, raced>>
    BY <1>3, <2>2, ReqDone DEF CommitRole, DataOK
  <2>3. CASE Go(c, "del") /\ role' = RolesAfter(req[c].actor, req[c].target, req[c].new)
             /\ ownerId' = (IF req[c].new = "OWNER" THEN req[c].target ELSE ownerId)
             /\ raced' = (raced \/ Outdated(c))
    <3>1. Formed([req[c] EXCEPT !.pc = "del"])
      BY <2>1, Fields DEF Formed
    <3>2. ReqOK'
      BY <2>3, <3>1, ReqGoes DEF Stages
    <3>3. role' \in [Users -> Roles \cup {None}]
      BY <2>1, <2>3 DEF RolesAfter, DataOK, Roles
    <3>4. ownerId' \in Users /\ raced' \in BOOLEAN
      BY <2>1, <2>3 DEF DataOK, Outdated
    <3>5. QED
      BY <1>3, <3>2, <3>3, <3>4 DEF CommitRole, DataOK
  <2>4. QED
    BY <1>3, <2>2, <2>3 DEF CommitRole
<1>4. CASE CommitRemove(c)
  <2>1. req[c].pc = "commit" /\ req[c].op = "remove" /\ req[c].target \in Users
    BY <1>4, Fields DEF CommitRemove, At, Formed
  <2>2. CASE Done(c) /\ UNCHANGED <<role, raced>>
    BY <1>4, <2>2, ReqDone DEF CommitRemove, DataOK
  <2>3. CASE Go(c, "del") /\ role' = [role EXCEPT ![req[c].target] = None]
             /\ raced' = (raced \/ Outdated(c))
    <3>1. Formed([req[c] EXCEPT !.pc = "del"])
      BY <2>1, Fields DEF Formed
    <3>2. ReqOK'
      BY <2>3, <3>1, ReqGoes DEF Stages
    <3>3. QED
      BY <1>4, <2>3, <3>2 DEF CommitRemove, DataOK, Outdated
  <2>4. QED
    BY <1>4, <2>2, <2>3 DEF CommitRemove
<1>5. QED
  BY <1>1, <1>2, <1>3, <1>4 DEF ChangeRole

\* What follows the commit, and the crash.
LEMMA AftermathTypes ==
    ASSUME Inv, NEW c \in Clients, Aftermath(c)
    PROVE  Inv'
<1> USE DEF Inv
<1>1. Formed([req[c] EXCEPT !.pc = "delActor"]) \/ ~HandsOver(c) \/ req[c].pc # "del"
  BY Fields DEF Formed, HandsOver
<1>2. ASSUME req[c].pc = "del", AfterTarget(c)
      PROVE  ReqOK'
  <2>1. CASE Go(c, "delActor")
    BY <1>2, <2>1, ReqGoes, Fields DEF Stages, Formed
  <2>2. CASE Go(c, "evict")
    BY <1>2, <2>2, ReqGoes, Fields DEF Stages, Formed
  <2>3. CASE Done(c)
    BY <2>3, ReqDone
  <2>4. QED
    BY <1>2, <2>1, <2>2, <2>3 DEF AfterTarget
<1>3. ASSUME NEW u \in Users
      PROVE  Overdue(u, cache[u]) \in CacheEntry \cup {None}
  BY DEF Overdue, DataOK, CacheEntry
<1>4. CASE InvalidateTarget(c)
  <2>1. ReqOK'
    BY <1>2, <1>4 DEF InvalidateTarget, At
  <2>2. QED
    BY <1>4, <2>1 DEF InvalidateTarget, DataOK, db
<1>5. CASE InvalidateActor(c)
  BY <1>5, ReqDone DEF InvalidateActor, DataOK, db
<1>6. CASE InvalidateFails(c)
  <2>1. ReqOK'
    BY <1>2, <1>6, ReqDone DEF InvalidateFails, At
  <2> DEFINE u == IF At(c, "del") THEN req[c].target ELSE req[c].actor
  <2>2. u \in Users
    BY <1>6, Fields DEF InvalidateFails, At, Formed
  <2>3. cache' = [cache EXCEPT ![u] = Overdue(u, cache[u])]
    BY <1>6 DEF InvalidateFails
  <2>4. cache' \in [Users -> CacheEntry \cup {None}]
    BY <1>3, <2>2, <2>3 DEF DataOK
  <2>5. QED
    BY <1>6, <2>1, <2>4 DEF InvalidateFails, DataOK, db
<1>7. CASE Evict(c)
  BY <1>7, ReqDone DEF Evict, Listening, DataOK, db
<1>8. CASE EvictFails(c)
  BY <1>8, ReqDone DEF EvictFails, Listening, DataOK, db
<1>9. QED
  BY <1>4, <1>5, <1>6, <1>7, <1>8 DEF Aftermath

\* A crash.
LEMMA CrashTypes ==
    ASSUME Inv, NEW p \in Processes, Crash(p)
    PROVE  Inv'
<1>1. req' \in [Clients -> Request] /\ \A c \in Clients : req'[c] \in {Idle, req[c]}
  BY IdleFormed DEF Crash, Inv, ReqOK
<1>2. ReqOK'
  BY <1>1, IdleFormed DEF ReqOK, Formed, Inv
<1>3. \A u \in Users : Overdue(u, cache[u]) \in CacheEntry \cup {None}
  BY DEF Inv, Overdue, DataOK, CacheEntry
<1>4. cache' \in [Users -> CacheEntry \cup {None}]
  BY <1>3 DEF Crash, Inv, DataOK
<1>5. room' \in SUBSET (Users \X Processes) /\ ghosts' \in SUBSET (Users \X Processes)
  BY DEF Crash, Inv, DataOK
<1>6. QED
  BY <1>2, <1>4, <1>5 DEF Inv, Crash, DataOK, db

\* workspace:join.
LEMMA JoinRoomTypes ==
    ASSUME Inv, NEW c \in Clients, JoinRoom(c)
    PROVE  Inv'
<1> USE DEF Inv
<1>1. CASE JoinRead(c)
  <2>1. Formed([req[c] EXCEPT !.pc = "enter"])
    BY <1>1, Fields DEF JoinRead, At, Formed
  <2>2. ReqOK'
    BY <1>1, <2>1, ReqDone, ReqGoes DEF JoinRead, Stages
  <2>3. QED
    BY <1>1, <2>2 DEF JoinRead, DataOK, db
<1>2. CASE EnterRoom(c)
  <2>1. /\ Formed([req[c] EXCEPT !.pc = "recheck"])
        /\ req[c].actor \in Users /\ req[c].on \in Processes
    BY <1>2, Fields DEF EnterRoom, At, Formed
  <2>2. ReqOK'
    BY <1>2, <2>1, ReqGoes DEF EnterRoom, Stages
  <2>3. QED
    BY <1>2, <2>1, <2>2 DEF EnterRoom, DataOK, db
<1>3. CASE Recheck(c)
  BY <1>3, ReqDone DEF Recheck, DataOK, db
<1>4. QED
  BY <1>1, <1>2, <1>3 DEF JoinRoom

\* Marking invitations keeps their type.
LEMMA MarkedInvites ==
    ASSUME DataOK, NEW is \in SUBSET Invites
    PROVE  Revoked(is) \in [Invites -> InviteRow] /\ Accepted(is) \in [Invites -> InviteRow]
BY ZenonT(60) DEF DataOK, Revoked, Accepted, InviteRow

\* The invitations.
LEMMA InvitationTypes ==
    ASSUME Inv, NEW c \in Clients, Invitation(c)
    PROVE  Inv'
<1> USE DEF Inv
<1>1. ASSUME NEW p \in {"active", "insert", "revoking", "claim", "workspace", "admit"},
             Go(c, p), p \in {"active", "insert"} => req[c].op = "invite", ~At(c, "idle")
      PROVE  ReqOK'
  <2>1. Formed([req[c] EXCEPT !.pc = p])
    BY <1>1, Fields DEF Formed, At
  <2>2. QED
    BY <1>1, <2>1, ReqGoes DEF Stages
<1>2. CASE CheckInvited(c)
  <2>1. ReqOK'
    BY <1>1, <1>2, ReqDone, Fields DEF CheckInvited, At, Formed
  <2>2. QED
    BY <1>2, <2>1 DEF CheckInvited, DataOK, db
<1>3. CASE CheckActive(c)
  <2>1. ReqOK'
    BY <1>1, <1>3, ReqDone, Fields DEF CheckActive, At, Formed
  <2>2. QED
    BY <1>3, <2>1 DEF CheckActive, DataOK, db
<1>4. CASE InsertInvite(c)
  <2>1. req[c].target \in Users /\ req[c].new \in Roles \ {"OWNER"}
    BY <1>4, Fields DEF InsertInvite, At, Formed
  <2> DEFINE late == role[req[c].target] # None \/ ActiveFor(req[c].target) # {} \/ ShuttingNow
             r == [sent |-> TRUE, email |-> req[c].target, role |-> req[c].new,
                   accepted |-> FALSE, revoked |-> FALSE, late |-> late]
  <2>2. late \in BOOLEAN
    OBVIOUS
  <2>3. \E i \in Invites : invite' = [invite EXCEPT ![i] = r]
    BY <1>4 DEF InsertInvite
  <2> HIDE DEF late
  <2>4. r \in InviteRow
    BY <2>1, <2>2 DEF InviteRow
  <2>5. invite' \in [Invites -> InviteRow]
    BY <2>3, <2>4 DEF DataOK
  <2>6. QED
    BY <1>4, <2>5, ReqDone DEF InsertInvite, DataOK
<1>5. CASE ReadInvite(c)
  <2>1. ReqOK'
    BY <1>1, <1>5, ReqDone DEF ReadInvite, At
  <2>2. QED
    BY <1>5, <2>1 DEF ReadInvite, DataOK, db
<1>6. CASE RevokeInvite(c)
  <2>1. invite' \in [Invites -> InviteRow]
    BY <1>6, MarkedInvites, Fields DEF RevokeInvite
  <2>2. QED
    BY <1>6, <2>1, ReqDone DEF RevokeInvite, DataOK
<1>7. CASE ReadAccept(c)
  <2>1. ReqOK'
    BY <1>1, <1>7, ReqDone DEF ReadAccept, At
  <2>2. QED
    BY <1>7, <2>1 DEF ReadAccept, DataOK, db
<1>8. CASE ClaimInvite(c)
  <2>1. ReqOK'
    BY <1>1, <1>8, ReqDone DEF ClaimInvite, At
  <2>2. QED
    BY <1>8, <2>1 DEF ClaimInvite, DataOK, db
<1>9. CASE CheckWorkspace(c)
  <2>1. ReqOK'
    BY <1>1, <1>9, ReqDone DEF CheckWorkspace, At
  <2>2. QED
    BY <1>9, <2>1 DEF CheckWorkspace, DataOK, db
<1>10. CASE AdmitMember(c)
  <2>1. ReqOK' /\ req[c].actor \in Users
    BY <1>10, ReqDone, Fields DEF AdmitMember, At, Formed
  <2>2. role' \in [Users -> Roles \cup {None}]
    BY <1>10, Fields DEF AdmitMember, DataOK, InviteRow
  <2>3. row' \in [Users -> Nat]
    BY <1>10, <2>1 DEF AdmitMember, DataOK
  <2>4. invite' \in [Invites -> InviteRow]
    BY <1>10, MarkedInvites, Fields DEF AdmitMember, DataOK
  <2>5. QED
    BY <1>10, <2>1, <2>2, <2>3, <2>4 DEF AdmitMember, DataOK
<1>11. QED
  BY <1>2, <1>3, <1>4, <1>5, <1>6, <1>7, <1>8, <1>9, <1>10 DEF Invitation

\* Archiving, deleting and reopening the workspace.
LEMMA ShutTypes ==
    ASSUME Inv, NEW c \in Clients, Shut(c)
    PROVE  Inv'
<1> USE DEF Inv
<1>1. CASE BeginShut(c)
  <2> DEFINE q == [req[c] EXCEPT !.pc = "shutting", !.invs = Revocable]
  <2>1. req' = [req EXCEPT ![c] = q]
    BY <1>1 DEF BeginShut, ReqOK
  <2>2. q \in Request
    BY Fields, ZenonT(60) DEF Request, Stages, Revocable
  <2>3. Formed(q)
    BY <1>1, Fields DEF Formed, BeginShut, At
  <2>4. ReqOK'
    BY <2>1, <2>2, <2>3, ReqReplaced
  <2>5. QED
    BY <1>1, <2>4 DEF BeginShut, DataOK, db
<1>2. CASE CommitShut(c)
  <2>1. invite' \in [Invites -> InviteRow]
    BY <1>2, MarkedInvites, Fields DEF CommitShut
  <2>2. QED
    BY <1>2, <2>1, ReqDone DEF CommitShut, DataOK
<1>3. CASE Unarchive(c)
  BY <1>3, ReqDone DEF Unarchive, DataOK
<1>4. QED
  BY <1>1, <1>2, <1>3 DEF Shut

\* Init establishes the types.
LEMMA InitTypes == Init => Inv
<1>1. ASSUME Init PROVE DataOK
  <2>1. FirstRoles \subseteq [Users -> Roles \cup {None}] /\ Founder \in Users
    BY MembersConstants
  <2>2. NoInvite \in InviteRow
    BY <2>1 DEF NoInvite, InviteRow, Roles
  <2>3. QED
    BY <1>1, <2>1, <2>2 DEF Init, DataOK
<1>2. ASSUME Init PROVE ReqOK
  <2>1. req \in [Clients -> Request] /\ \A c \in Clients : req[c] = Idle
    BY <1>2, IdleFormed DEF Init
  <2>2. QED
    BY <2>1, IdleFormed DEF ReqOK
<1>3. QED
  BY <1>1, <1>2 DEF Inv

\* Every step keeps them.
LEMMA NextTypes == Inv /\ [Next]_vars => Inv'
<1> SUFFICES ASSUME Inv, [Next]_vars PROVE Inv'
  OBVIOUS
<1>1. CASE UNCHANGED vars
  BY <1>1 DEF vars, db, Inv, DataOK, ReqOK, Formed
<1>2. ASSUME NEW c \in Clients, StartRequest(c) PROVE Inv'
  <2>1. ReqOK' /\ UNCHANGED <<db, cache, room, raced, ghosts>> /\ started' = started + 1
    BY <1>2, StartReq DEF Inv
  <2>2. QED
    BY <2>1 DEF Inv, DataOK, db
<1>3. ASSUME NEW u \in Users, Expire(u) PROVE Inv'
  BY <1>3 DEF Expire, Inv, DataOK, db, ReqOK, Formed
<1>4. ASSUME NEW c \in Clients,
             \/ Membership(c) \/ ChangeRole(c) \/ Aftermath(c)
             \/ JoinRoom(c) \/ Invitation(c) \/ Shut(c)
      PROVE  Inv'
  BY <1>4, MembershipTypes, ChangeRoleTypes, AftermathTypes, JoinRoomTypes,
     InvitationTypes, ShutTypes
<1>5. CASE Next
  BY <1>2, <1>3, <1>4, <1>5, CrashTypes DEF Next
<1>6. QED
  BY <1>1, <1>5

\* Type correctness of WorkspaceMembers: every reachable state is well typed.
THEOREM MembersTypeCorrect == Spec => []TypeOK
<1>1. Spec => []Inv
  BY InitTypes, NextTypes, PTL DEF Spec
<1>2. QED
  BY <1>1, InvTypes, PTL

-----------------------------------------------------------------------------
(* The sole owner *)

\* What the checks of a request have established when it may commit: only an
\* owner hands the ownership over, and an owner is unseated after a race only
\* (the count of owners would have refused it otherwise).
Vet(r, rc) ==
    /\ r.pc \in {"count", "commit"} /\ r.op = "role" /\ r.new = "OWNER" => r.arole = "OWNER"
    /\ r.pc = "commit" /\ r.old = "OWNER" /\ (r.op = "remove" \/ (r.op = "role" /\ r.new # "OWNER"))
       => rc

Vetted == \A c \in Clients : Vet(req[c], raced)

OwnerInv == Inv /\ SoleOwner /\ Vetted

\* Replacing one request keeps the others vetted.
LEMMA VetReplaced ==
    ASSUME ReqOK, Vetted, raced => raced', NEW c \in Clients, NEW r, Vet(r, raced'),
           req' = [req EXCEPT ![c] = r]
    PROVE  Vetted'
<1>1. \A d \in Clients : req'[d] = IF d = c THEN r ELSE req[d]
  BY DEF ReqOK
<1>2. ASSUME NEW d \in Clients PROVE Vet(req'[d], raced')
  BY <1>1 DEF Vetted, Vet
<1>3. QED
  BY <1>2 DEF Vetted, Vet

\* So does ending it ...
LEMMA VetDone ==
    ASSUME ReqOK, Vetted, raced => raced', NEW c \in Clients, Done(c)
    PROVE  Vetted'
<1>1. Vet(Idle, raced')
  BY DEF Vet, Idle
<1>2. QED
  BY <1>1, VetReplaced DEF Done

\* ... or sending it to a stage that promises nothing.
LEMMA VetGoes ==
    ASSUME ReqOK, Vetted, raced => raced', NEW c \in Clients,
           NEW p \in Stages \ {"count", "commit"}, Go(c, p)
    PROVE  Vetted'
<1>1. req' = [req EXCEPT ![c] = [req[c] EXCEPT !.pc = p]]
  BY DEF Go, ReqOK
<1>2. Vet([req[c] EXCEPT !.pc = p], raced')
  BY Fields DEF Vet, Request
<1>3. QED
  BY <1>1, <1>2, VetReplaced

\* A membership check leaves the requests vetted: what goes straight to its
\* commit is neither a role change nor a removal.
LEMMA VetAuthorised ==
    ASSUME ReqOK, Vetted, raced' = raced, NEW c \in Clients, NEW r \in Roles, Authorised(c, r)
    PROVE  Vetted'
<1> DEFINE next == CASE req[c].op \in {"role", "remove"} -> "target"
                     [] req[c].op = "invite"             -> "member"
                     [] req[c].op = "use"                -> "idle"
                     [] OTHER                            -> "commit"
<1>1. CASE Done(c)
  BY <1>1, VetDone
<1>2. CASE ~Done(c)
  <2>1. req' = [req EXCEPT ![c].pc = next, ![c].arole = r]
    BY <1>2 DEF Authorised
  <2> DEFINE q == [req[c] EXCEPT !.pc = next, !.arole = r]
  <2>2. req' = [req EXCEPT ![c] = q]
    BY <2>1 DEF ReqOK
  <2>3. next = "commit" => req[c].op \notin {"role", "remove"}
    OBVIOUS
  <2>4. next # "count"
    OBVIOUS
  <2> HIDE DEF next
  <2>5. Vet(q, raced')
    BY <2>3, <2>4, Fields DEF Vet, Request
  <2>6. QED
    BY <2>2, <2>5, VetReplaced
<1>3. QED
  BY <1>1, <1>2

\* Every step that is no role change leaves the requests vetted.
LEMMA VetElsewhere ==
    ASSUME Inv, Vetted, NEW c \in Clients,
           \/ StartRequest(c) \/ Membership(c) \/ Aftermath(c)
           \/ JoinRoom(c) \/ Invitation(c) \/ Shut(c)
    PROVE  Vetted'
<1> USE DEF Inv
<1>1. ASSUME NEW p \in {"fill", "del", "delActor", "evict", "enter", "recheck", "active",
                        "insert", "revoking", "claim", "workspace", "admit"},
             Go(c, p) \/ Done(c), raced' = raced
      PROVE  Vetted'
  BY <1>1, VetDone, VetGoes DEF Stages
<1>2. CASE StartRequest(c)
  <2>1. PICK op \in Operations, a \in Users, t \in Users \cup {None},
             n \in Roles \cup {None}, is \in SUBSET Invites : Start(c, op, a, t, n, is)
    <3>1. NewRoles \subseteq Roles
      BY MembersConstants
    <3>2. QED
      BY <1>2, <3>1 DEF StartRequest, Invitable, Operations
  <2>2. PICK p \in Processes :
          req' = [req EXCEPT ![c] = [Idle EXCEPT !.pc = "auth", !.on = p, !.op = op, !.actor = a,
                                                 !.target = t, !.new = n, !.invs = is]]
    BY <2>1 DEF Start
  <2> DEFINE r == [Idle EXCEPT !.pc = "auth", !.on = p, !.op = op, !.actor = a,
                               !.target = t, !.new = n, !.invs = is]
  <2>3. Vet(r, raced')
    BY DEF Vet, Idle
  <2>4. QED
    BY <2>1, <2>2, <2>3, VetReplaced DEF Start
<1>3. CASE Membership(c)
  <2>1. CASE CacheHit(c)
    <3>1. cache[req[c].actor].role \in Roles
      BY <2>1, Fields DEF CacheHit, ViaCache, At, DataOK, Formed, CacheEntry
    <3>2. QED
      BY <2>1, <3>1, VetAuthorised, VetDone DEF CacheHit
  <2>2. CASE LoadMembership(c)
    <3>1. CASE Done(c)
      BY <2>2, <3>1, VetDone DEF LoadMembership
    <3>2. CASE ~Done(c)
      <4> DEFINE q == [req[c] EXCEPT !.pc = "fill", !.arole = role[req[c].actor],
                                     !.archived = "archived" \in shut]
      <4>1. req' = [req EXCEPT ![c] = q]
        BY <2>2, <3>2 DEF LoadMembership, ReqOK
      <4>2. q.pc = "fill"
        BY Fields DEF Request
      <4> HIDE DEF q
      <4>3. Vet(q, raced')
        BY <4>2 DEF Vet
      <4>4. QED
        BY <2>2, <4>1, <4>3, VetReplaced DEF LoadMembership
    <3>3. QED
      BY <3>1, <3>2
  <2>3. CASE FillCache(c)
    <3>1. req[c].arole \in Roles
      BY <2>3, Fields DEF FillCache, At, Formed
    <3>2. QED
      BY <2>3, <3>1, VetAuthorised DEF FillCache
  <2>4. QED
    BY <1>3, <2>1, <2>2, <2>3 DEF Membership
<1>4. CASE Aftermath(c)
  BY <1>1, <1>4 DEF Aftermath, InvalidateTarget, InvalidateActor, InvalidateFails, AfterTarget,
                    Evict, EvictFails
<1>5. CASE JoinRoom(c)
  BY <1>1, <1>5 DEF JoinRoom, JoinRead, EnterRoom, Recheck
<1>6. CASE Invitation(c)
  BY <1>1, <1>6 DEF Invitation, CheckInvited, CheckActive, InsertInvite, ReadInvite,
                    RevokeInvite, ReadAccept, ClaimInvite, CheckWorkspace, AdmitMember
<1>7. CASE Shut(c)
  <2>1. CASE BeginShut(c)
    <3> DEFINE q == [req[c] EXCEPT !.pc = "shutting", !.invs = Revocable]
    <3>1. req' = [req EXCEPT ![c] = q]
      BY <2>1 DEF BeginShut, ReqOK
    <3>2. q.pc = "shutting"
      BY Fields DEF Request
    <3> HIDE DEF q
    <3>3. Vet(q, raced')
      BY <3>2 DEF Vet
    <3>4. QED
      BY <2>1, <3>1, <3>3, VetReplaced DEF BeginShut
  <2>2. QED
    BY <1>1, <1>7, <2>1 DEF Shut, CommitShut, Unarchive
<1>8. QED
  BY <1>2, <1>3, <1>4, <1>5, <1>6, <1>7

\* The stages of a role change keep it vetted.
LEMMA VetChanges ==
    ASSUME Inv, SoleOwner, Vetted, NEW c \in Clients, ChangeRole(c)
    PROVE  Vetted'
<1> USE DEF Inv
<1>1. CASE ReadTarget(c)
  <2>1. CASE Done(c)
    BY <1>1, <2>1, VetDone DEF ReadTarget
  <2>2. CASE ~Done(c)
    <3> DEFINE q == [req[c] EXCEPT !.pc = "count", !.old = role[req[c].target],
                                   !.id = row[req[c].target]]
    <3>1. req' = [req EXCEPT ![c] = q] /\ ~Forbidden(c, role[req[c].target])
      BY <1>1, <2>2 DEF ReadTarget, ReqOK
    <3>2. req[c].op = "role" /\ req[c].new = "OWNER" => req[c].arole = "OWNER"
      BY <3>1 DEF Forbidden, CanAssign
    <3>3. q.pc = "count" /\ q.op = req[c].op /\ q.new = req[c].new /\ q.arole = req[c].arole
      BY Fields DEF Request
    <3> HIDE DEF q
    <3>4. Vet(q, raced')
      BY <3>2, <3>3 DEF Vet
    <3>5. QED
      BY <1>1, <3>1, <3>4, VetReplaced DEF ReadTarget
  <2>3. QED
    BY <2>1, <2>2
<1>2. CASE CountOwners(c)
  <2>1. CASE Done(c)
    BY <1>2, <2>1, VetDone DEF CountOwners
  <2>2. CASE ~Done(c)
    <3>1. Go(c, "commit") /\ ~(Unseats(c) /\ Cardinality(Owners) <= 1)
          /\ raced' = raced /\ req[c].pc = "count"
      BY <1>2, <2>2 DEF CountOwners, At
    <3>2. Unseats(c) => raced
      <4>1. ~raced => Cardinality(Owners) = 1
        BY FS_Singleton DEF SoleOwner
      <4>2. QED
        BY <3>1, <4>1
    <3> DEFINE q == [req[c] EXCEPT !.pc = "commit"]
    <3>3. req' = [req EXCEPT ![c] = q]
      BY <3>1 DEF Go, ReqOK
    <3>4. Vet(q, raced')
      BY <3>1, <3>2, Fields DEF Vet, Vetted, Unseats, Request
    <3>5. QED
      BY <3>1, <3>3, <3>4, VetReplaced
  <2>3. QED
    BY <2>1, <2>2
<1>3. CASE CommitRole(c)
  BY <1>3, VetDone, VetGoes DEF CommitRole, Stages
<1>4. CASE CommitRemove(c)
  BY <1>4, VetDone, VetGoes DEF CommitRemove, Stages
<1>5. QED
  BY <1>1, <1>2, <1>3, <1>4 DEF ChangeRole

\* A role change on an up-to-date reading keeps the sole owner: it hands the
\* ownership over as a whole, or leaves the owner alone.
LEMMA OwnerAfterChange ==
    ASSUME Inv, SoleOwner, Vetted, NEW c \in Clients, ChangeRole(c)
    PROVE  SoleOwner'
<1> USE DEF Inv
<1>1. CASE UNCHANGED <<role, ownerId, raced>>
  BY <1>1 DEF SoleOwner, Owners
<1>2. CASE CommitRole(c) /\ ~UNCHANGED <<role, ownerId, raced>>
  <2> DEFINE a == req[c].actor
             t == req[c].target
             n == req[c].new
  <2>1. /\ req[c].pc = "commit" /\ req[c].op = "role"
        /\ role' = RolesAfter(a, t, n)
        /\ ownerId' = (IF n = "OWNER" THEN t ELSE ownerId)
        /\ raced' = (raced \/ Outdated(c))
    BY <1>2 DEF CommitRole, At
  <2>2. a \in Users /\ t \in Users /\ n \in Roles
    BY <2>1, Fields DEF Formed
  <2>3. SUFFICES ASSUME ~raced' PROVE Owners' = {ownerId'}
    BY DEF SoleOwner
  <2>4. ~raced /\ role[a] = req[c].arole /\ role[t] = req[c].old /\ Owners = {ownerId}
    BY <2>1, <2>3 DEF Outdated, SoleOwner
  <2>5. CASE n = "OWNER"
    <3>1. role[a] = "OWNER"
      BY <2>1, <2>4, <2>5 DEF Vetted, Vet
    <3>2. \A u \in Users : role[u] = "OWNER" <=> u = a
      BY <2>2, <2>4, <3>1 DEF Owners
    <3>3. \A u \in Users : role'[u] = "OWNER" <=> u = t
      BY <2>1, <2>2, <2>5, <3>2 DEF RolesAfter, DataOK
    <3>4. QED
      BY <2>1, <2>2, <2>5, <3>3 DEF Owners
  <2>6. CASE n # "OWNER"
    <3>1. role[t] # "OWNER"
      BY <2>1, <2>4, <2>6 DEF Vetted, Vet
    <3>2. \A u \in Users : role'[u] = "OWNER" <=> role[u] = "OWNER"
      BY <2>1, <2>2, <2>6, <3>1 DEF RolesAfter, DataOK
    <3>3. QED
      BY <2>1, <2>4, <2>6, <3>2 DEF Owners
  <2>7. QED
    BY <2>5, <2>6
<1>3. CASE CommitRemove(c) /\ ~UNCHANGED <<role, ownerId, raced>>
  <2> DEFINE t == req[c].target
  <2>1. /\ req[c].pc = "commit" /\ req[c].op = "remove"
        /\ role' = [role EXCEPT ![t] = None] /\ ownerId' = ownerId
        /\ raced' = (raced \/ Outdated(c))
    BY <1>3 DEF CommitRemove, At
  <2>2. SUFFICES ASSUME ~raced' PROVE Owners' = {ownerId'}
    BY DEF SoleOwner
  <2>3. ~raced /\ role[t] = req[c].old /\ Owners = {ownerId}
    BY <2>1, <2>2 DEF Outdated, SoleOwner
  <2>4. role[t] # "OWNER"
    BY <2>1, <2>3 DEF Vetted, Vet
  <2>5. None # "OWNER"
    BY MembersConstants DEF Roles
  <2>6. \A u \in Users : role'[u] = "OWNER" <=> role[u] = "OWNER"
    BY <2>1, <2>4, <2>5 DEF DataOK
  <2>7. QED
    BY <2>1, <2>3, <2>6 DEF Owners
<1>4. QED
  BY <1>1, <1>2, <1>3 DEF ChangeRole, ReadTarget, CountOwners, CommitRole, CommitRemove, db

\* An invitation never admits an owner, and nothing else touches the roles.
LEMMA OwnerElsewhere ==
    ASSUME Inv, SoleOwner, NEW c \in Clients,
           \/ StartRequest(c) \/ Membership(c) \/ Aftermath(c)
           \/ JoinRoom(c) \/ Invitation(c) \/ Shut(c)
    PROVE  SoleOwner'
<1>1. CASE UNCHANGED <<role, ownerId, raced>>
  BY <1>1 DEF SoleOwner, Owners
<1>2. CASE AdmitMember(c) /\ ~UNCHANGED <<role, ownerId, raced>>
  <2>1. req[c].actor \in Users /\ role[req[c].actor] = None
        /\ ownerId' = ownerId /\ raced' = raced
    BY <1>2, Fields DEF Inv, AdmitMember, At, Formed
  <2>2. PICK i \in req[c].invs : role' = [role EXCEPT ![req[c].actor] = invite[i].role]
    BY <1>2 DEF AdmitMember
  <2>3. invite[i].role # "OWNER" /\ None # "OWNER"
    BY <2>2, Fields, MembersConstants DEF Inv, DataOK, InviteRow, Roles
  <2>4. \A u \in Users : role'[u] = "OWNER" <=> role[u] = "OWNER"
    BY <2>1, <2>2, <2>3 DEF Inv, DataOK
  <2>5. QED
    BY <2>1, <2>4 DEF SoleOwner, Owners
<1>3. CASE StartRequest(c)
  BY <1>1, <1>3, StartReq DEF Inv, db
<1>4. QED
  BY <1>1, <1>2, <1>3 DEF Membership, CacheHit, LoadMembership, FillCache,
     Aftermath, InvalidateTarget, InvalidateActor, InvalidateFails, Evict, EvictFails,
     JoinRoom, JoinRead, EnterRoom, Recheck,
     Invitation, CheckInvited, CheckActive, InsertInvite, ReadInvite, RevokeInvite,
     ReadAccept, ClaimInvite, CheckWorkspace, AdmitMember,
     Shut, BeginShut, CommitShut, Unarchive, db

\* Without a raced role change the workspace has exactly one owner, the user
\* its row names, whatever else happens: transfers, demotions, removals,
\* invitations, cached roles, crashes, and any number of requests at once.
THEOREM OneOwner == Spec => []SoleOwner
<1>1. Init => OwnerInv
  <2>1. ASSUME Init PROVE SoleOwner
    <3>1. role \in FirstRoles /\ ownerId = Founder
      BY <2>1 DEF Init
    <3>2. \A u \in Users : role[u] = "OWNER" <=> u = Founder
      BY <3>1, MembersConstants
    <3>3. QED
      BY <3>1, <3>2, MembersConstants DEF SoleOwner, Owners
  <2>2. ASSUME Init PROVE Vetted
    BY <2>2 DEF Init, Vetted, Vet, Idle
  <2>3. QED
    BY <2>1, <2>2, InitTypes DEF OwnerInv
<1>2. OwnerInv /\ [Next]_vars => OwnerInv'
  <2> SUFFICES ASSUME OwnerInv, [Next]_vars PROVE OwnerInv'
    OBVIOUS
  <2> USE DEF OwnerInv
  <2>1. Inv'
    BY NextTypes
  <2>2. CASE UNCHANGED vars
    BY <2>1, <2>2 DEF vars, db, SoleOwner, Owners, Vetted, Vet
  <2>3. CASE \E u \in Users : Expire(u)
    BY <2>1, <2>3 DEF Expire, db, SoleOwner, Owners, Vetted, Vet
  <2>4. ASSUME NEW p \in Processes, Crash(p) PROVE OwnerInv'
    <3>1. SoleOwner'
      BY <2>4 DEF Crash, db, SoleOwner, Owners
    <3>2. \A c \in Clients : req'[c] \in {Idle, req[c]}
      BY <2>4 DEF Crash
    <3>3. Vetted'
      BY <2>4, <3>2 DEF Vetted, Vet, Idle, Crash, db
    <3>4. QED
      BY <2>1, <3>1, <3>3
  <2>5. ASSUME NEW c \in Clients,
               \/ StartRequest(c) \/ Membership(c) \/ Aftermath(c)
               \/ JoinRoom(c) \/ Invitation(c) \/ Shut(c)
        PROVE  OwnerInv'
    BY <2>1, <2>5, VetElsewhere, OwnerElsewhere
  <2>6. ASSUME NEW c \in Clients, ChangeRole(c) PROVE OwnerInv'
    BY <2>1, <2>6, VetChanges, OwnerAfterChange
  <2>7. QED
    BY <2>2, <2>3, <2>4, <2>5, <2>6 DEF Next
<1>3. OwnerInv => SoleOwner
  BY DEF OwnerInv
<1>4. QED
  BY <1>1, <1>2, <1>3, PTL DEF Spec

-----------------------------------------------------------------------------
(* The cache and the room *)

\* A request that goes on or ends leaves the others alone.
LEMMA GoFields ==
    ASSUME ReqOK, NEW c \in Clients, NEW p, Go(c, p)
    PROVE  /\ req'[c].pc = p /\ req'[c].op = req[c].op /\ req'[c].new = req[c].new
           /\ req'[c].actor = req[c].actor /\ req'[c].target = req[c].target
           /\ req'[c].invs = req[c].invs /\ req'[c].on = req[c].on
           /\ \A d \in Clients : d # c => req'[d] = req[d]
<1>1. req'[c] = [req[c] EXCEPT !.pc = p] /\ \A d \in Clients : d # c => req'[d] = req[d]
  BY DEF Go, ReqOK
<1>2. QED
  BY <1>1, Fields DEF Request

\* Done gives the client its idle record and leaves the others.
LEMMA DoneFields ==
    ASSUME ReqOK, NEW c \in Clients, Done(c)
    PROVE  /\ req'[c] = Idle /\ req'[c].pc = "idle"
           /\ \A d \in Clients : d # c => req'[d] = req[d]
BY DEF Done, ReqOK, Idle

\* After the membership check a request is at one of four stages.
LEMMA AuthorisedFields ==
    ASSUME ReqOK, NEW c \in Clients, NEW r, Authorised(c, r)
    PROVE  /\ req'[c].pc \in {"idle", "target", "member", "commit"}
           /\ \A d \in Clients : d # c => req'[d] = req[d]
<1> DEFINE next == CASE req[c].op \in {"role", "remove"} -> "target"
                     [] req[c].op = "invite"             -> "member"
                     [] req[c].op = "use"                -> "idle"
                     [] OTHER                            -> "commit"
<1>1. CASE Done(c)
  BY <1>1, DoneFields
<1>2. CASE ~Done(c)
  <2>1. req' = [req EXCEPT ![c].pc = next, ![c].arole = r]
    BY <1>2 DEF Authorised
  <2>2. next \in {"idle", "target", "member", "commit"}
    OBVIOUS
  <2> HIDE DEF next
  <2>3. req'[c] = [req[c] EXCEPT !.pc = next, !.arole = r] /\ \A d \in Clients : d # c => req'[d] = req[d]
    BY <2>1 DEF ReqOK
  <2>4. QED
    BY <2>2, <2>3, Fields DEF Request
<1>3. QED
  BY <1>1, <1>2

\* A step that leaves cache, room and roles alone, of a request that owes nothing.
LEMMA AccessFrame ==
    ASSUME ReqOK, CacheFresh, RoomOfMembers, NEW c \in Clients,
           \A d \in Clients : d # c => req'[d] = req[d],
           UNCHANGED <<cache, room, role, ghosts>>,
           req[c].pc \notin {"del", "delActor", "evict", "recheck"}
    PROVE  CacheFresh' /\ RoomOfMembers'
<1>1. \A d \in Clients : \A u :
         /\ Invalidates(d, u) => d # c /\ Invalidates(d, u)'
         /\ \A p : ShowsOut(d, u, p) => d # c /\ ShowsOut(d, u, p)'
  BY DEF Invalidates, ShowsOut, Removes, HandsOver, At
<1>2. CacheFresh'
  BY <1>1 DEF CacheFresh, WillInvalidate, Invalidates, HandsOver, At
<1>3. RoomOfMembers'
  BY <1>1 DEF RoomOfMembers, ShowsOut, Removes, At
<1>4. QED
  BY <1>2, <1>3

\* What is owed by the others stays owed.
LEMMA OwedStays ==
    ASSUME NEW c \in Clients, \A d \in Clients : d # c => req'[d] = req[d], NEW u \in Users
    PROVE  /\ (Invalidates(c, u) => Invalidates(c, u)') => (WillInvalidate(u) => WillInvalidate(u)')
           /\ WillInvalidate(u) <=> \E d \in Clients : Invalidates(d, u)
           /\ Invalidates(c, u)' => WillInvalidate(u)'
           /\ \A d \in Clients : \A p : d # c /\ ShowsOut(d, u, p) => ShowsOut(d, u, p)'
BY DEF WillInvalidate, Invalidates, ShowsOut, Removes, HandsOver, At

\* A membership that is loaded is cached with its truth.
LEMMA AccessMembership ==
    ASSUME Inv, CacheFresh, RoomOfMembers, NEW c \in Clients, Membership(c)
    PROVE  CacheFresh' /\ RoomOfMembers'
<1> USE DEF Inv
<1>1. CASE CacheHit(c)
  <2>1. \A d \in Clients : d # c => req'[d] = req[d]
    BY <1>1, AuthorisedFields, DoneFields DEF CacheHit
  <2>2. QED
    BY <1>1, <2>1, AccessFrame DEF CacheHit, ViaCache, At, db
<1>2. CASE LoadMembership(c)
  <2>1. \A d \in Clients : d # c => req'[d] = req[d]
    BY <1>2, DoneFields DEF LoadMembership, ReqOK
  <2>2. QED
    BY <1>2, <2>1, AccessFrame DEF LoadMembership, ViaCache, At, db
<1>3. CASE FillCache(c)
  <2>1. \A d \in Clients : d # c => req'[d] = req[d]
    BY <1>3, AuthorisedFields DEF FillCache
  <2> DEFINE a == req[c].actor
             e == [role |-> req[c].arole, archived |-> req[c].archived, late |-> req[c].arole # role[a]]
  <2>2. a \in Users /\ cache' = [cache EXCEPT ![a] = e] /\ UNCHANGED <<role, room, ghosts>> /\ At(c, "fill")
    BY <1>3, Fields DEF FillCache, At, Formed, db
  <2>3. \A u \in Users : WillInvalidate(u) => WillInvalidate(u)'
    BY <2>1, <2>2, OwedStays DEF Invalidates, At
  <2>4. ASSUME NEW u \in Users, cache'[u] # None, cache'[u].role # role'[u]
        PROVE  cache'[u].late \/ WillInvalidate(u)'
    <3>1. CASE u = a
      BY <2>2, <2>4, <3>1 DEF DataOK
    <3>2. CASE u # a
      BY <2>2, <2>3, <2>4, <3>2 DEF DataOK, CacheFresh
    <3>3. QED
      BY <3>1, <3>2
  <2>5. RoomOfMembers'
    <3>1. ASSUME NEW s \in room PROVE role[s[1]] # None \/ s \in ghosts
                                      \/ \E d \in Clients : ShowsOut(d, s[1], s[2])'
      <4>1. s[1] \in Users /\ (role[s[1]] # None \/ s \in ghosts
                              \/ \E d \in Clients : ShowsOut(d, s[1], s[2]))
        BY <3>1 DEF DataOK, RoomOfMembers
      <4>2. ~ShowsOut(c, s[1], s[2])
        BY <2>2 DEF ShowsOut, Removes, At
      <4>3. QED
        BY <2>1, <4>1, <4>2, OwedStays
    <3>2. QED
      BY <2>2, <3>1 DEF RoomOfMembers, ShowsOut, Removes, At
  <2>6. QED
    BY <2>4, <2>5 DEF CacheFresh
<1>4. QED
  BY <1>1, <1>2, <1>3 DEF Membership

\* The commit of a role change owes a DEL to everyone whose role it changed, that
\* of a removal also the way out of the room.
LEMMA AccessChanges ==
    ASSUME Inv, CacheFresh, RoomOfMembers, NEW c \in Clients, ChangeRole(c)
    PROVE  CacheFresh' /\ RoomOfMembers'
<1> USE DEF Inv
<1>1. CASE ReadTarget(c)
  <2>1. \A d \in Clients : d # c => req'[d] = req[d]
    BY <1>1, DoneFields DEF ReadTarget, ReqOK
  <2>2. QED
    BY <1>1, <2>1, AccessFrame DEF ReadTarget, At, db
<1>2. CASE CountOwners(c)
  <2>1. \A d \in Clients : d # c => req'[d] = req[d]
    BY <1>2, DoneFields, GoFields DEF CountOwners
  <2>2. QED
    BY <1>2, <2>1, AccessFrame DEF CountOwners, At, db
<1>3. CASE (CommitRole(c) \/ CommitRemove(c)) /\ Done(c) /\ UNCHANGED role
  BY <1>3, DoneFields, AccessFrame DEF CommitRole, CommitRemove, At
<1>4. CASE (CommitRole(c) \/ CommitRemove(c)) /\ ~(Done(c) /\ UNCHANGED role)
  <2> DEFINE a == req[c].actor
             t == req[c].target
             n == req[c].new
  <2>1. /\ UNCHANGED <<cache, room, ghosts>> /\ Go(c, "del") /\ At(c, "commit")
        /\ \/ req[c].op = "role" /\ role' = RolesAfter(a, t, n)
           \/ req[c].op = "remove" /\ role' = [role EXCEPT ![t] = None]
    BY <1>4 DEF CommitRole, CommitRemove
  <2>2. a \in Users /\ t \in Users /\ (req[c].op = "role" => n \in Roles)
    BY <2>1, Fields DEF At, Formed
  <2>3. /\ req'[c].pc = "del" /\ req'[c].op = req[c].op /\ req'[c].new = n /\ req'[c].actor = a
        /\ req'[c].target = t /\ \A d \in Clients : d # c => req'[d] = req[d]
    BY <2>1, GoFields
  <2>4. None \notin Roles /\ "ADMIN" \in Roles
    BY MembersConstants DEF Roles
  <2> HIDE DEF a, t, n
  <2>5. \A u \in Users : role'[u] # role[u] =>
           \/ u = t
           \/ u = a /\ req[c].op = "role" /\ n = "OWNER" /\ a # t
    BY <2>1, <2>2 DEF RolesAfter, DataOK
  <2>6. \A u \in Users : role'[u] # role[u] => Invalidates(c, u)'
    BY <2>3, <2>5 DEF Invalidates, HandsOver, At, a, t, n
  <2>7. ASSUME NEW u \in Users, cache'[u] # None, cache'[u].role # role'[u]
        PROVE  cache'[u].late \/ WillInvalidate(u)'
    <3>1. WillInvalidate(u) => WillInvalidate(u)'
      BY <2>1, <2>3, OwedStays DEF Invalidates, At
    <3>2. Invalidates(c, u)' => WillInvalidate(u)'
      BY <2>3, OwedStays
    <3>3. QED
      BY <2>1, <2>6, <2>7, <3>1, <3>2 DEF CacheFresh
  <2>8. ASSUME NEW u \in Users, NEW p, role[u] # None, role'[u] = None PROVE ShowsOut(c, u, p)'
    <3>1. req[c].op = "remove"
      BY <2>1, <2>2, <2>4, <2>8 DEF RolesAfter, DataOK
    <3>2. u = t
      BY <2>5, <2>8, <3>1
    <3>3. QED
      BY <2>3, <3>1, <3>2 DEF ShowsOut, Removes
  <2>9. ASSUME NEW s \in room
        PROVE  role'[s[1]] # None \/ s \in ghosts \/ \E d \in Clients : ShowsOut(d, s[1], s[2])'
    <3>1. s[1] \in Users
      BY <2>9 DEF DataOK
    <3>2. role[s[1]] # None \/ s \in ghosts \/ \E d \in Clients : ShowsOut(d, s[1], s[2])
      BY DEF RoomOfMembers
    <3>3. ~ShowsOut(c, s[1], s[2])
      BY <2>1 DEF ShowsOut, Removes, At
    <3>4. QED
      BY <2>3, <2>8, <3>1, <3>2, <3>3, OwedStays
  <2>10. RoomOfMembers'
    BY <2>1, <2>9 DEF RoomOfMembers, ShowsOut, Removes, At
  <2>11. QED
    BY <2>7, <2>10 DEF CacheFresh
<1>5. QED
  BY <1>1, <1>2, <1>3, <1>4 DEF ChangeRole

\* What comes after the commit pays what is owed, or leaves a note of it: an
\* entry that could not be deleted is late, a member who was not shown out a ghost.
LEMMA AccessAftermath ==
    ASSUME Inv, CacheFresh, RoomOfMembers, NEW c \in Clients, Aftermath(c)
    PROVE  CacheFresh' /\ RoomOfMembers'
<1> USE DEF Inv
<1> DEFINE a == req[c].actor
           t == req[c].target
<1>1. role' = role /\ req[c].pc \in {"del", "delActor", "evict"} /\ a \in Users /\ t \in Users
  BY Fields DEF Aftermath, InvalidateTarget, InvalidateActor, InvalidateFails, Evict, EvictFails,
                At, Formed, db
<1>2. PICK p \in {"idle", "delActor", "evict"} :
        /\ p = "idle" => Done(c)
        /\ p # "idle" => Go(c, p)
        /\ At(c, "del") => p = IF HandsOver(c) THEN "delActor"
                               ELSE IF req[c].op = "remove" THEN "evict" ELSE "idle"
        /\ ~At(c, "del") => p = "idle"
  BY <1>1 DEF Aftermath, InvalidateTarget, InvalidateActor, InvalidateFails, Evict, EvictFails,
              AfterTarget, At
<1>3. \A d \in Clients : d # c => req'[d] = req[d]
  BY <1>2, GoFields, DoneFields
<1>4. /\ req'[c].pc = p
      /\ p # "idle" => /\ req'[c].op = req[c].op /\ req'[c].new = req[c].new
                       /\ req'[c].actor = a /\ req'[c].target = t
  BY <1>2, GoFields, DoneFields
<1> HIDE DEF a, t
<1>5. \A u \in Users : Invalidates(c, u) =>
        \/ Invalidates(c, u)'
        \/ At(c, "del") /\ u = t
        \/ At(c, "delActor") /\ u = a
  BY <1>2, <1>4 DEF Invalidates, HandsOver, At, a, t
<1>6. \A u \in Users : \A q : ShowsOut(c, u, q) => ShowsOut(c, u, q)' \/ (At(c, "evict") /\ u = t)
  BY <1>1, <1>2, <1>4 DEF ShowsOut, Removes, HandsOver, At, a, t
<1>7. /\ \A u \in Users : cache'[u] = cache[u] \/ cache'[u] = None \/ cache'[u] = Overdue(u, cache[u])
      /\ At(c, "del") => cache'[t] = None \/ cache'[t] = Overdue(t, cache[t])
      /\ At(c, "delActor") => cache'[a] = None \/ cache'[a] = Overdue(a, cache[a])
  BY <1>1 DEF Aftermath, InvalidateTarget, InvalidateActor, InvalidateFails, Evict, EvictFails,
              DataOK, At, a, t
<1>8. \A u \in Users : LET e == Overdue(u, cache[u]) IN
        e # None /\ e.role # role[u] => e.late
  BY DEF Overdue, DataOK, CacheEntry
<1>9. ASSUME NEW u \in Users, cache'[u] # None, cache'[u].role # role'[u]
      PROVE  cache'[u].late \/ WillInvalidate(u)'
  <2>1. CASE cache'[u] = Overdue(u, cache[u])
    BY <1>1, <1>8, <1>9, <2>1
  <2>2. CASE cache'[u] # Overdue(u, cache[u])
    <3>1. cache'[u] = cache[u] /\ (cache[u].late \/ WillInvalidate(u))
      BY <1>1, <1>7, <1>9, <2>2 DEF CacheFresh
    <3>2. Invalidates(c, u) => Invalidates(c, u)'
      BY <1>5, <1>7, <1>9, <2>2
    <3>3. QED
      BY <1>3, <3>1, <3>2, OwedStays
  <2>3. QED
    BY <2>1, <2>2
<1>10. /\ room' \subseteq room /\ ghosts \subseteq ghosts'
       /\ At(c, "evict") => \A s \in room' : s[1] = t => s \in ghosts'
  BY <1>1 DEF Aftermath, InvalidateTarget, InvalidateActor, InvalidateFails, Evict, EvictFails,
              Listening, At, a, t
<1>11. ASSUME NEW s \in room'
       PROVE  role'[s[1]] # None \/ s \in ghosts' \/ \E d \in Clients : ShowsOut(d, s[1], s[2])'
  <2>1. s \in room /\ s[1] \in Users
    BY <1>10, <1>11 DEF DataOK
  <2>2. role[s[1]] # None \/ s \in ghosts \/ \E d \in Clients : ShowsOut(d, s[1], s[2])
    BY <2>1 DEF RoomOfMembers
  <2>3. \A d \in Clients : d # c /\ ShowsOut(d, s[1], s[2]) => ShowsOut(d, s[1], s[2])'
    BY <1>3, <2>1, OwedStays
  <2>4. ShowsOut(c, s[1], s[2]) => ShowsOut(c, s[1], s[2])' \/ s \in ghosts'
    BY <1>6, <1>10, <1>11, <2>1
  <2>5. QED
    BY <1>1, <1>10, <2>2, <2>3, <2>4
<1>12. RoomOfMembers'
  BY <1>11 DEF RoomOfMembers, ShowsOut, Removes, At
<1>13. QED
  BY <1>9, <1>12 DEF CacheFresh

\* A socket enters the room with another look at the membership still to come.
LEMMA AccessJoin ==
    ASSUME Inv, CacheFresh, RoomOfMembers, NEW c \in Clients, JoinRoom(c)
    PROVE  CacheFresh' /\ RoomOfMembers'
<1> USE DEF Inv
<1>1. CASE JoinRead(c)
  BY <1>1, GoFields, DoneFields, AccessFrame DEF JoinRead, At, db
<1>2. CASE EnterRoom(c) \/ Recheck(c)
  <2> DEFINE a == req[c].actor
             mine == <<a, req[c].on>>
  <2>1. /\ UNCHANGED <<cache, role, ghosts>> /\ req[c].pc \in {"enter", "recheck"} /\ a \in Users
        /\ \A d \in Clients : d # c => req'[d] = req[d]
    BY <1>2, GoFields, DoneFields, Fields DEF EnterRoom, Recheck, At, Formed, db
  <2>2. CacheFresh'
    <3>1. \A u \in Users : WillInvalidate(u) => WillInvalidate(u)'
      BY <2>1, OwedStays DEF Invalidates, At
    <3>2. QED
      BY <2>1, <3>1 DEF CacheFresh
  <2>3. /\ room' \subseteq room \cup {mine}
        /\ \/ mine \in room' => role[a] # None
           \/ req'[c].pc = "recheck" /\ req'[c].actor = a /\ req'[c].on = req[c].on
    BY <1>2, GoFields DEF EnterRoom, Recheck
  <2>4. ASSUME NEW s \in room'
        PROVE  role'[s[1]] # None \/ s \in ghosts' \/ \E d \in Clients : ShowsOut(d, s[1], s[2])'
    <3>1. CASE s = mine
      BY <2>1, <2>3, <2>4, <3>1 DEF ShowsOut, At
    <3>2. CASE s # mine
      <4>1. s \in room /\ s[1] \in Users /\ s = <<s[1], s[2]>>
        BY <2>3, <2>4, <3>2 DEF DataOK
      <4>2. ~ShowsOut(c, s[1], s[2])
        BY <2>1, <3>2, <4>1 DEF ShowsOut, Removes, At
      <4>3. role[s[1]] # None \/ s \in ghosts \/ \E d \in Clients : ShowsOut(d, s[1], s[2])
        BY <4>1 DEF RoomOfMembers
      <4>4. QED
        BY <2>1, <4>1, <4>2, <4>3, OwedStays
    <3>3. QED
      BY <3>1, <3>2
  <2>5. QED
    BY <2>2, <2>4 DEF RoomOfMembers, ShowsOut, Removes, At
<1>3. QED
  BY <1>1, <1>2 DEF JoinRoom

\* Who becomes a member had no membership that a cache entry could hold, unless
\* that entry is late or about to be deleted.
LEMMA AccessInvitation ==
    ASSUME Inv, CacheFresh, RoomOfMembers, NEW c \in Clients, Invitation(c) \/ Shut(c)
    PROVE  CacheFresh' /\ RoomOfMembers'
<1> USE DEF Inv
<1>1. /\ UNCHANGED <<cache, room, ghosts>>
      /\ req[c].pc \notin {"del", "delActor", "evict", "recheck"}
  BY Fields DEF Invitation, CheckInvited, CheckActive, InsertInvite, ReadInvite, RevokeInvite,
                ReadAccept, ClaimInvite, CheckWorkspace, AdmitMember, Shut, BeginShut, CommitShut,
                Unarchive, At, db
<1>2. \A d \in Clients : d # c => req'[d] = req[d]
  BY GoFields, DoneFields DEF Invitation, CheckInvited, CheckActive, InsertInvite, ReadInvite,
                RevokeInvite, ReadAccept, ClaimInvite, CheckWorkspace, AdmitMember, Shut, BeginShut,
                CommitShut, Unarchive, ReqOK
<1>3. CASE role' = role
  BY <1>1, <1>2, <1>3, AccessFrame
<1>4. CASE role' # role
  <2> DEFINE a == req[c].actor
  <2>1. a \in Users /\ role[a] = None /\ \E i \in req[c].invs : role' = [role EXCEPT ![a] = invite[i].role]
    BY <1>4, Fields DEF Invitation, CheckInvited, CheckActive, InsertInvite, ReadInvite, RevokeInvite,
                ReadAccept, ClaimInvite, CheckWorkspace, AdmitMember, Shut, BeginShut, CommitShut,
                Unarchive, At, Formed, db
  <2>2. None \notin Roles
    BY MembersConstants
  <2>3. \A u \in Users : (u # a => role'[u] = role[u]) /\ (role[u] # None => role'[u] = role[u])
    BY <2>1 DEF DataOK
  <2>4. role'[a] # None
    BY <2>1, <2>2, Fields DEF DataOK, InviteRow
  <2>5. \A d \in Clients : \A u :
          /\ Invalidates(d, u) => Invalidates(d, u)'
          /\ \A p : ShowsOut(d, u, p) => ShowsOut(d, u, p)'
    BY <1>1, <1>2 DEF Invalidates, ShowsOut, Removes, HandsOver, At
  <2>6. \A u \in Users : cache[u] # None => cache[u].role # None
    BY <2>2 DEF DataOK, CacheEntry
  <2>7. \A u \in Users : cache'[u] # None /\ cache'[u].role # role'[u] => cache[u].role # role[u]
    BY <1>1, <2>1, <2>3, <2>6
  <2>8. CacheFresh'
    <3>1. \A u \in Users : WillInvalidate(u) => WillInvalidate(u)'
      BY <1>2, <2>5, OwedStays
    <3>2. QED
      BY <1>1, <2>7, <3>1 DEF CacheFresh
  <2>9. RoomOfMembers'
    <3>1. ASSUME NEW s \in room
          PROVE  role'[s[1]] # None \/ s \in ghosts
                 \/ \E d \in Clients : ShowsOut(d, s[1], s[2])'
      <4>1. s[1] \in Users
        BY DEF DataOK
      <4>2. role[s[1]] # None \/ s \in ghosts \/ \E d \in Clients : ShowsOut(d, s[1], s[2])
        BY DEF RoomOfMembers
      <4>3. role[s[1]] # None => role'[s[1]] # None
        BY <2>3, <4>1
      <4>4. QED
        BY <2>5, <4>2, <4>3
    <3>2. QED
      BY <1>1, <3>1 DEF RoomOfMembers, ShowsOut, Removes, At
  <2>10. QED
    BY <2>8, <2>9
<1>5. QED
  BY <1>3, <1>4

\* A crash leaves a note of what its process owed: an entry that was not deleted is
\* late, a socket of another process that was not shown out a ghost.
LEMMA AccessCrash ==
    ASSUME Inv, CacheFresh, RoomOfMembers,
           (\E p \in Processes : Crash(p)) \/ \E u \in Users : Expire(u)
    PROVE  CacheFresh' /\ RoomOfMembers'
<1>1. ASSUME NEW p \in Processes, Crash(p) PROVE CacheFresh' /\ RoomOfMembers'
  <2>1. /\ role' = role /\ room' = {s \in room : s[2] # p}
        /\ ghosts' = ghosts \cup {s \in room' : \E c \in Clients : req[c].on = p /\ Removes(c, s[1])}
        /\ \A u \in Users : cache'[u] = IF \E c \in Clients : req[c].on = p /\ Invalidates(c, u)
                                         THEN Overdue(u, cache[u]) ELSE cache[u]
        /\ \A c \in Clients : req[c].on # p => req'[c] = req[c]
    BY <1>1 DEF Crash, db
  <2>2. \A u \in Users : LET e == Overdue(u, cache[u]) IN
          e # None /\ e.role # role[u] => e.late
    BY DEF Overdue, Inv, DataOK, CacheEntry
  <2>3. \A c \in Clients : req[c].on # p =>
          \A u : /\ Invalidates(c, u) => Invalidates(c, u)'
                 /\ \A q : ShowsOut(c, u, q) => ShowsOut(c, u, q)'
    BY <2>1 DEF Invalidates, HandsOver, ShowsOut, Removes, At
  <2>4. ASSUME NEW u \in Users, cache'[u] # None, cache'[u].role # role'[u]
        PROVE  cache'[u].late \/ WillInvalidate(u)'
    <3>1. CASE \E c \in Clients : req[c].on = p /\ Invalidates(c, u)
      BY <2>1, <2>2, <2>4, <3>1
    <3>2. CASE ~\E c \in Clients : req[c].on = p /\ Invalidates(c, u)
      <4>1. cache[u].late \/ WillInvalidate(u)
        BY <2>1, <2>4, <3>2 DEF CacheFresh
      <4>2. WillInvalidate(u) => WillInvalidate(u)'
        BY <2>3, <3>2 DEF WillInvalidate
      <4>3. QED
        BY <2>1, <3>2, <4>1, <4>2
    <3>3. QED
      BY <3>1, <3>2
  <2>5. ASSUME NEW s \in room'
        PROVE  role'[s[1]] # None \/ s \in ghosts' \/ \E d \in Clients : ShowsOut(d, s[1], s[2])'
    <3>1. s \in room /\ s[2] # p
      BY <2>1, <2>5
    <3>2. role[s[1]] # None \/ s \in ghosts \/ \E d \in Clients : ShowsOut(d, s[1], s[2])
      BY <3>1 DEF RoomOfMembers
    <3>3. ASSUME NEW d \in Clients, ShowsOut(d, s[1], s[2]), req[d].on = p PROVE s \in ghosts'
      BY <2>1, <2>5, <3>1, <3>3 DEF ShowsOut
    <3>4. QED
      BY <2>1, <2>3, <3>2, <3>3
  <2>6. QED
    BY <2>4, <2>5 DEF CacheFresh, RoomOfMembers, ShowsOut, Removes, At
<1>2. CASE \E u \in Users : Expire(u)
  <2>1. PICK v \in Users : Expire(v)
    BY <1>2
  <2>2. UNCHANGED <<role, room, req, ghosts>> /\ cache' = [cache EXCEPT ![v] = None]
    BY <2>1 DEF Expire, db
  <2>3. \A u \in Users : cache'[u] = None \/ cache'[u] = cache[u]
    BY <2>2 DEF Inv, DataOK
  <2>4. CacheFresh'
    BY <2>2, <2>3 DEF CacheFresh, WillInvalidate, Invalidates, HandsOver, At
  <2>5. RoomOfMembers'
    BY <2>2 DEF RoomOfMembers, ShowsOut, Removes, At
  <2>6. QED
    BY <2>4, <2>5
<1>3. QED
  BY <1>1, <1>2

AccessInv == Inv /\ CacheFresh /\ RoomOfMembers

\* Both hold together with the types, step by step.
LEMMA AccessInvariant == Spec => []AccessInv
<1>1. Init => AccessInv
  <2>1. ASSUME Init PROVE CacheFresh /\ RoomOfMembers
    BY <2>1 DEF Init, CacheFresh, RoomOfMembers
  <2>2. QED
    BY <2>1, InitTypes DEF AccessInv
<1>2. AccessInv /\ [Next]_vars => AccessInv'
  <2> SUFFICES ASSUME AccessInv, [Next]_vars PROVE AccessInv'
    OBVIOUS
  <2> USE DEF AccessInv
  <2>1. Inv'
    BY NextTypes
  <2>2. CASE UNCHANGED vars
    <3>1. UNCHANGED <<role, cache, room, req, ghosts>>
      BY <2>2 DEF vars, db
    <3>2. QED
      BY <2>1, <3>1 DEF CacheFresh, RoomOfMembers, WillInvalidate, Invalidates, HandsOver,
                        ShowsOut, Removes, At
  <2>3. CASE (\E p \in Processes : Crash(p)) \/ \E u \in Users : Expire(u)
    BY <2>1, <2>3, AccessCrash
  <2>4. ASSUME NEW c \in Clients, StartRequest(c) PROVE AccessInv'
    <3>1. UNCHANGED <<cache, room, role, ghosts>>
      BY <2>4, StartReq DEF Inv, db
    <3>2. req[c].pc = "idle" /\ \A d \in Clients : d # c => req'[d] = req[d]
      BY <2>4 DEF StartRequest, Start, At, Inv, ReqOK
    <3>3. QED
      BY <2>1, <3>1, <3>2, AccessFrame DEF Inv
  <2>5. ASSUME NEW c \in Clients,
               \/ Membership(c) \/ ChangeRole(c) \/ Aftermath(c)
               \/ JoinRoom(c) \/ Invitation(c) \/ Shut(c)
        PROVE  AccessInv'
    BY <2>1, <2>5, AccessMembership, AccessChanges, AccessAftermath, AccessJoin, AccessInvitation
  <2>6. QED
    BY <2>2, <2>3, <2>4, <2>5 DEF Next
<1>3. QED
  BY <1>1, <1>2, PTL DEF Spec

\* Every operation that changes a role deletes the cached role of everyone it
\* changed: what a cache entry says wrongly is about to go, was late when it was
\* written, or outlived a failed DEL.
THEOREM CacheIsFresh == Spec => []CacheFresh
<1>1. AccessInv => CacheFresh
  BY DEF AccessInv
<1>2. QED
  BY <1>1, AccessInvariant, PTL

\* A removal and a join in any order, in any two processes, leave only members in the
\* room, but for sockets the removal could not reach: those of another process that were
\* in the room already, and all of them when it broke off (realtime.gateway.ts:142).
THEOREM RoomIsOfMembers == Spec => []RoomOfMembers
<1>1. AccessInv => RoomOfMembers
  BY DEF AccessInv
<1>2. QED
  BY <1>1, AccessInvariant, PTL

-----------------------------------------------------------------------------
(* The invitations of WorkspaceMembers: an address has one that can be used,   *)
(* and nobody joins by one that cannot.  The argument is about the row locks   *)
(* of an acceptance and of an archiving, which both write what they have read  *)
(* a statement earlier.                                                        *)

\* The request has written rows of the invitations and not committed yet.
Locks(c) == req[c].pc \in {"workspace", "admit", "shutting"}

\* What a request relies on until it commits: an acceptance on an open
\* invitation of its own address and, once it has looked, on an open workspace;
\* an archiving on having seen every pending invitation, but for late ones.
Holds(c) ==
    /\ req[c].pc \in {"claim", "workspace", "admit"} =>
         \A i \in req[c].invs : invite[i].sent /\ invite[i].email = req[c].actor
    /\ req[c].pc \in {"workspace", "admit"} => \A i \in req[c].invs : Pending(i)
    /\ At(c, "admit") => shut = {} \/ \A i \in req[c].invs : invite[i].late
    /\ At(c, "shutting") => \A i \in Invites : Pending(i) => i \in req[c].invs \/ invite[i].late

LocksApart ==
    \A c, d \in Clients : c # d /\ Locks(c) /\ Locks(d) => req[c].invs \cap req[d].invs = {}

LateSent == \A i \in Invites : invite[i].late => invite[i].sent

Excused(u) == \E i \in Invites : invite[i].email = u /\ invite[i].late

\* OneActiveInvitation without counting.
OneEach == \A u \in Users :
    \/ Excused(u)
    \/ ActiveFor(u) = {}
    \/ role[u] = None /\ \A i, j \in ActiveFor(u) : i = j

InviteInv == Inv /\ LateSent /\ OneEach /\ LocksApart /\ \A c \in Clients : Holds(c)

-----------------------------------------------------------------------------
(* What one step can do to the rows *)

\* The invitations in S stop being pending, and nothing else happens to any.
Marks(S) == \A i \in Invites :
    /\ invite'[i].sent = invite[i].sent /\ invite'[i].email = invite[i].email
    /\ invite'[i].late = invite[i].late
    /\ Pending(i)' <=> Pending(i) /\ i \notin S

\* The invitations of other open transactions are not among them.
Spares(c, S) == \A d \in Clients : d # c /\ Locks(d) => req[d].invs \cap S = {}

\* A step that leaves the invitations alone marks none.
LEMMA MarksNone ==
    ASSUME UNCHANGED invite
    PROVE  Marks({}) /\ \A c \in Clients : Spares(c, {})
BY DEF Marks, Spares, Pending

\* Setting revokedAt or acceptedAt marks what was pending of them.
LEMMA MarksSome ==
    ASSUME Inv, NEW S \in SUBSET Invites, invite' = Revoked(S) \/ invite' = Accepted(S)
    PROVE  Marks(S)
<1>1. \A i \in Invites :
        invite'[i] = IF i \notin S THEN invite[i]
                     ELSE IF invite' = Revoked(S) THEN [invite[i] EXCEPT !.revoked = TRUE]
                                                  ELSE [invite[i] EXCEPT !.accepted = TRUE]
  BY DEF Revoked, Accepted
<1>2. \A i \in Invites : invite[i] \in InviteRow
  BY DEF Inv, DataOK
<1>3. \A x \in InviteRow :
        /\ LET y == [x EXCEPT !.revoked = TRUE] IN
             y.sent = x.sent /\ y.email = x.email /\ y.late = x.late /\ y.revoked
        /\ LET y == [x EXCEPT !.accepted = TRUE] IN
             y.sent = x.sent /\ y.email = x.email /\ y.late = x.late /\ y.accepted
  BY DEF InviteRow
<1>4. ASSUME NEW i \in Invites
      PROVE  /\ invite'[i].sent = invite[i].sent /\ invite'[i].email = invite[i].email
             /\ invite'[i].late = invite[i].late
             /\ i \in S => invite'[i].revoked \/ invite'[i].accepted
             /\ i \notin S => invite'[i] = invite[i]
  BY <1>1, <1>2, <1>3
<1>5. QED
  BY <1>4 DEF Marks, Pending

\* The requests of the others keep what they rely on, unless the workspace is
\* shut under an acceptance that does not expect it.
LEMMA OthersHold ==
    ASSUME InviteInv, NEW c \in Clients, NEW S, Marks(S), Spares(c, S),
           \A d \in Clients : d # c => req'[d] = req[d],
           shut = {} => \/ shut' = {}
                        \/ \A d \in Clients \ {c} :
                             At(d, "admit") => \A i \in req[d].invs : invite[i].late
    PROVE  /\ LateSent'
           /\ \A d \in Clients : d # c => Holds(d)'
           /\ \A d, e \in Clients : d # c /\ e # c /\ d # e /\ Locks(d)' /\ Locks(e)'
                => req'[d].invs \cap req'[e].invs = {}
<1>1. LateSent'
  BY DEF InviteInv, LateSent, Marks
<1>2. ASSUME NEW d \in Clients, d # c PROVE Holds(d)'
  <2>1. req'[d] = req[d] /\ Holds(d) /\ req[d].invs \subseteq Invites
    BY <1>2, Fields DEF InviteInv, Inv
  <2>2. Locks(d) => req[d].invs \cap S = {}
    BY <1>2 DEF Spares
  <2>3. req'[d].pc \in {"claim", "workspace", "admit"} =>
          \A i \in req'[d].invs : invite'[i].sent /\ invite'[i].email = req'[d].actor
    BY <2>1 DEF Holds, Marks
  <2>4. req'[d].pc \in {"workspace", "admit"} => \A i \in req'[d].invs : Pending(i)'
    BY <2>1, <2>2 DEF Holds, Marks, Locks
  <2>5. At(d, "admit")' => shut' = {} \/ \A i \in req'[d].invs : invite'[i].late
    BY <1>2, <2>1 DEF Holds, Marks, At
  <2>6. At(d, "shutting")' => \A i \in Invites : Pending(i)' => i \in req'[d].invs \/ invite'[i].late
    BY <2>1 DEF Holds, Marks, At
  <2>7. QED
    BY <2>3, <2>4, <2>5, <2>6 DEF Holds
<1>3. \A d, e \in Clients : d # c /\ e # c /\ d # e /\ Locks(d)' /\ Locks(e)'
        => req'[d].invs \cap req'[e].invs = {}
  BY DEF InviteInv, LocksApart, Locks
<1>4. QED
  BY <1>1, <1>2, <1>3

\* Addresses keep their one invitation, if who becomes a member used it up.
LEMMA OneEachKept ==
    ASSUME InviteInv, NEW S, Marks(S),
           \A u \in Users : role'[u] # None =>
             role[u] # None \/ Excused(u) \/ ActiveFor(u) \subseteq S
    PROVE  OneEach'
<1>1. ASSUME NEW u \in Users
      PROVE  \/ Excused(u)'
             \/ ActiveFor(u)' = {}
             \/ role'[u] = None /\ \A i, j \in ActiveFor(u)' : i = j
  <2>1. ActiveFor(u)' = ActiveFor(u) \ S
    BY DEF Marks, ActiveFor
  <2>2. Excused(u) => Excused(u)'
    BY DEF Marks, Excused
  <2>3. Excused(u) \/ ActiveFor(u) = {} \/ (role[u] = None /\ \A i, j \in ActiveFor(u) : i = j)
    BY DEF InviteInv, OneEach
  <2>4. QED
    BY <2>1, <2>2, <2>3
<1>2. QED
  BY <1>1 DEF OneEach

\* What is left to show of a step, once the others and the addresses are settled.
LEMMA Together ==
    ASSUME Inv', LateSent', OneEach', NEW c \in Clients,
           \A d \in Clients : d # c => Holds(d)',
           \A d, e \in Clients : d # c /\ e # c /\ d # e /\ Locks(d)' /\ Locks(e)'
             => req'[d].invs \cap req'[e].invs = {},
           Holds(c)',
           \A d \in Clients : d # c /\ Locks(c)' /\ Locks(d)' => req'[c].invs \cap req'[d].invs = {}
    PROVE  InviteInv'
BY DEF InviteInv, LocksApart

\* A step of c after which it relies on nothing.
LEMMA StepFree ==
    ASSUME InviteInv, Inv', NEW c \in Clients, NEW S, Marks(S), Spares(c, S),
           \A d \in Clients : d # c => req'[d] = req[d],
           req'[c].pc \notin {"claim", "workspace", "admit", "shutting"},
           shut = {} => \/ shut' = {}
                        \/ \A d \in Clients \ {c} :
                             At(d, "admit") => \A i \in req[d].invs : invite[i].late,
           \A u \in Users : role'[u] # None =>
             role[u] # None \/ Excused(u) \/ ActiveFor(u) \subseteq S
    PROVE  InviteInv'
<1>1. Holds(c)' /\ ~Locks(c)'
  BY DEF Holds, Locks, At
<1>2. QED
  BY <1>1, OthersHold, OneEachKept, Together

-----------------------------------------------------------------------------
(* The steps *)

\* Nobody becomes a member but by an acceptance.
LEMMA NobodyJoins ==
    ASSUME Inv, NEW c \in Clients,
           \/ StartRequest(c) \/ Membership(c) \/ ChangeRole(c) \/ Aftermath(c) \/ JoinRoom(c)
           \/ CheckInvited(c) \/ CheckActive(c) \/ ReadInvite(c)
    PROVE  \A u \in Users : role'[u] # None => role[u] # None
<1>1. CASE CommitRole(c)
  <2>1. role' = role \/ ( /\ role' = RolesAfter(req[c].actor, req[c].target, req[c].new)
                          /\ role[req[c].target] # None
                          /\ req[c].new = "OWNER" => role[req[c].actor] # None )
    BY <1>1 DEF CommitRole, RowGone
  <2>2. QED
    BY <2>1 DEF RolesAfter, Inv, DataOK
<1>2. CASE CommitRemove(c)
  <2>1. role' = role \/ role' = [role EXCEPT ![req[c].target] = None]
    BY <1>2 DEF CommitRemove
  <2>2. QED
    BY <2>1 DEF Inv, DataOK
<1>3. CASE ~CommitRole(c) /\ ~CommitRemove(c)
  <2>1. role' = role
    <3>1. CASE StartRequest(c)
      BY <3>1, StartReq DEF Inv, db
    <3>2. CASE ~StartRequest(c)
      BY <1>3, <3>2 DEF Membership, CacheHit, LoadMembership, FillCache, ChangeRole, ReadTarget,
          CountOwners, Aftermath, InvalidateTarget, InvalidateActor, InvalidateFails,
          Evict, EvictFails, JoinRoom, JoinRead, EnterRoom, Recheck, CheckInvited, CheckActive,
          ReadInvite, db
    <3>3. QED
      BY <3>1, <3>2
  <2>2. QED
    BY <2>1
<1>4. QED
  BY <1>1, <1>2, <1>3

\* The requests that have nothing to do with invitations, and the first looks
\* of those that have.
LEMMA InviteElsewhere ==
    ASSUME InviteInv, Inv', NEW c \in Clients,
           \/ StartRequest(c) \/ Membership(c) \/ ChangeRole(c) \/ Aftermath(c) \/ JoinRoom(c)
           \/ CheckInvited(c) \/ CheckActive(c) \/ ReadInvite(c)
    PROVE  InviteInv'
<1> USE DEF Inv
<1>1. ReqOK
  BY DEF InviteInv
<1>2. UNCHANGED <<invite, shut>>
  <2>1. CASE StartRequest(c)
    BY <1>1, <2>1, StartReq DEF db
  <2>2. CASE ~StartRequest(c)
    BY <2>2 DEF Membership, CacheHit, LoadMembership, FillCache, ChangeRole, ReadTarget, CountOwners,
            CommitRole, CommitRemove, Aftermath, InvalidateTarget, InvalidateActor, InvalidateFails,
            Evict, EvictFails, JoinRoom, JoinRead, EnterRoom, Recheck, CheckInvited, CheckActive,
            ReadInvite, db
  <2>3. QED
    BY <2>1, <2>2
<1>3. /\ \A d \in Clients : d # c => req'[d] = req[d]
      /\ req'[c].pc \notin {"claim", "workspace", "admit", "shutting"}
  <2>1. CASE StartRequest(c)
    <3>1. PICK op, a, t, n, is : Start(c, op, a, t, n, is)
      BY <2>1 DEF StartRequest
    <3>0. PICK p \in Processes :
            req' = [req EXCEPT ![c] = [Idle EXCEPT !.pc = "auth", !.on = p, !.op = op, !.actor = a,
                                                   !.target = t, !.new = n, !.invs = is]]
      BY <3>1 DEF Start
    <3> DEFINE r == [Idle EXCEPT !.pc = "auth", !.on = p, !.op = op, !.actor = a,
                                 !.target = t, !.new = n, !.invs = is]
    <3>2. req' = [req EXCEPT ![c] = r]
      BY <3>0
    <3>3. r.pc = "auth"
      BY DEF Idle
    <3> HIDE DEF r
    <3>4. req'[c] = r /\ \A d \in Clients : d # c => req'[d] = req[d]
      BY <1>1, <3>2 DEF ReqOK
    <3>5. QED
      BY <3>3, <3>4
  <2>2. CASE Membership(c)
    <3>1. CASE LoadMembership(c) /\ ~Done(c)
      <4>1. PICK r, arc : req' = [req EXCEPT ![c].pc = "fill", ![c].arole = r, ![c].archived = arc]
        BY <3>1 DEF LoadMembership
      <4>2. req'[c] = [req[c] EXCEPT !.pc = "fill", !.arole = r, !.archived = arc]
            /\ \A d \in Clients : d # c => req'[d] = req[d]
        BY <1>1, <4>1 DEF ReqOK
      <4>3. QED
        BY <1>1, <4>2, Fields DEF Request
    <3>2. CASE \E r : Authorised(c, r)
      BY <1>1, <3>2, AuthorisedFields
    <3>3. CASE Done(c)
      BY <1>1, <3>3, DoneFields
    <3>4. QED
      BY <2>2, <3>1, <3>2, <3>3 DEF Membership, CacheHit, FillCache
  <2>3. CASE ChangeRole(c)
    <3>1. CASE ReadTarget(c) /\ ~Done(c)
      <4>1. PICK o, n : req' = [req EXCEPT ![c].pc = "count", ![c].old = o, ![c].id = n]
        BY <3>1 DEF ReadTarget
      <4>2. req'[c] = [req[c] EXCEPT !.pc = "count", !.old = o, !.id = n]
            /\ \A d \in Clients : d # c => req'[d] = req[d]
        BY <1>1, <4>1 DEF ReqOK
      <4>3. QED
        BY <1>1, <4>2, Fields DEF Request
    <3>2. CASE Done(c) \/ Go(c, "commit") \/ Go(c, "del")
      BY <1>1, <3>2, DoneFields, GoFields
    <3>3. QED
      BY <2>3, <3>1, <3>2 DEF ChangeRole, ReadTarget, CountOwners, CommitRole, CommitRemove
  <2>4. CASE Aftermath(c)
    <3>1. Done(c) \/ Go(c, "delActor") \/ Go(c, "evict")
      BY <2>4 DEF Aftermath, InvalidateTarget, InvalidateActor, InvalidateFails, Evict, EvictFails, AfterTarget
    <3>2. QED
      BY <1>1, <3>1, DoneFields, GoFields
  <2>5. CASE JoinRoom(c)
    <3>1. Done(c) \/ Go(c, "enter") \/ Go(c, "recheck")
      BY <2>5 DEF JoinRoom, JoinRead, EnterRoom, Recheck
    <3>2. QED
      BY <1>1, <3>1, DoneFields, GoFields
  <2>6. CASE CheckInvited(c) \/ CheckActive(c) \/ ReadInvite(c)
    <3>1. Done(c) \/ Go(c, "active") \/ Go(c, "insert") \/ Go(c, "revoking")
      BY <2>6 DEF CheckInvited, CheckActive, ReadInvite
    <3>2. QED
      BY <1>1, <3>1, DoneFields, GoFields
  <2>7. QED
    BY <2>1, <2>2, <2>3, <2>4, <2>5, <2>6
<1>4. \A u \in Users : role'[u] # None => role[u] # None
  BY NobodyJoins DEF InviteInv
<1>5. QED
  BY <1>2, <1>3, <1>4, MarksNone, StepFree

\* A new invitation takes a row nobody has used; it is late, or the first one.
LEMMA InviteInserted ==
    ASSUME InviteInv, Inv', NEW c \in Clients, InsertInvite(c)
    PROVE  InviteInv'
<1> DEFINE u == req[c].target
<1> USE DEF Inv
<1>1. /\ u \in Users /\ UNCHANGED <<role, shut>>
      /\ req'[c].pc = "idle" /\ \A d \in Clients : d # c => req'[d] = req[d]
  BY DoneFields, Fields DEF InviteInv, InsertInvite, At, Formed
<1>2. PICK k \in Invites :
        /\ ~invite[k].sent
        /\ invite' = [invite EXCEPT ![k] =
             [sent |-> TRUE, email |-> u, role |-> req[c].new, accepted |-> FALSE,
              revoked |-> FALSE,
              late |-> role[u] # None \/ ActiveFor(u) # {} \/ ShuttingNow]]
  BY DEF InsertInvite
<1> HIDE DEF u
<1>3. /\ \A i \in Invites : i # k => invite'[i] = invite[i]
      /\ invite'[k].sent /\ invite'[k].email = u
      /\ invite'[k].late <=> role[u] # None \/ ActiveFor(u) # {} \/ ShuttingNow
  BY <1>2 DEF InviteInv, DataOK
<1>4. LateSent'
  BY <1>3 DEF InviteInv, LateSent
<1>5. ~Pending(k) /\ ~invite[k].late
  BY <1>2 DEF Pending, InviteInv, LateSent
<1>6. ASSUME NEW d \in Clients PROVE Holds(d)'
  <2>1. CASE d = c
    BY <1>1, <2>1 DEF Holds, At
  <2>2. CASE d # c
    <3>1. req'[d] = req[d] /\ Holds(d) /\ shut' = shut
      BY <1>1, <2>2 DEF InviteInv
    <3>2. req[d].pc \in {"claim", "workspace", "admit"} => k \notin req[d].invs
      BY <1>2, <3>1 DEF Holds
    <3>3. At(d, "shutting") => invite'[k].late
      BY <1>3 DEF ShuttingNow
    <3>4. \A i \in Invites : i # k => (Pending(i)' <=> Pending(i))
      BY <1>3 DEF Pending
    <3>5. req[d].invs \subseteq Invites
      BY Fields DEF InviteInv
    <3>6. req'[d].pc \in {"claim", "workspace", "admit"} =>
            \A i \in req'[d].invs : invite'[i].sent /\ invite'[i].email = req'[d].actor
      BY <1>3, <3>1, <3>2, <3>5 DEF Holds
    <3>7. req'[d].pc \in {"workspace", "admit"} => \A i \in req'[d].invs : Pending(i)'
      BY <3>1, <3>2, <3>4, <3>5 DEF Holds
    <3>8. At(d, "admit")' => shut' = {} \/ \A i \in req'[d].invs : invite'[i].late
      BY <1>3, <3>1, <3>2, <3>5 DEF Holds, At
    <3>9. At(d, "shutting")' =>
            \A i \in Invites : Pending(i)' => i \in req'[d].invs \/ invite'[i].late
      BY <1>3, <3>1, <3>3, <3>4 DEF Holds, At
    <3>10. QED
      BY <3>6, <3>7, <3>8, <3>9 DEF Holds
  <2>3. QED
    BY <2>1, <2>2
<1>7. LocksApart'
  BY <1>1 DEF InviteInv, LocksApart, Locks
<1>8. ASSUME NEW v \in Users
      PROVE  \/ Excused(v)'
             \/ ActiveFor(v)' = {}
             \/ role'[v] = None /\ \A i, j \in ActiveFor(v)' : i = j
  <2>1. Excused(v) => Excused(v)'
    BY <1>3, <1>5 DEF Excused
  <2>2. ActiveFor(v)' \subseteq ActiveFor(v) \cup {k}
    BY <1>3 DEF ActiveFor, Pending
  <2>3. CASE v # u
    <3>1. ActiveFor(v)' \subseteq ActiveFor(v)
      BY <1>3, <2>2, <2>3 DEF ActiveFor
    <3>2. QED
      BY <1>1, <2>1, <3>1 DEF InviteInv, OneEach
  <2>4. CASE v = u
    <3>1. invite'[k].late => Excused(v)'
      BY <1>3, <2>4 DEF Excused
    <3>2. ~invite'[k].late => role'[v] = None /\ ActiveFor(v)' \subseteq {k}
      BY <1>1, <1>3, <2>2, <2>4
    <3>3. QED
      BY <3>1, <3>2
  <2>5. QED
    BY <2>3, <2>4
<1>9. OneEach'
  BY <1>8 DEF OneEach
<1>10. QED
  BY <1>4, <1>6, <1>7, <1>9 DEF InviteInv

\* A revocation by id waits for the rows that others have claimed.
LEMMA InviteRevoked ==
    ASSUME InviteInv, Inv', NEW c \in Clients, RevokeInvite(c)
    PROVE  InviteInv'
<1> USE DEF Inv
<1> DEFINE S == req[c].invs
<1>1. /\ S \in SUBSET Invites /\ invite' = Revoked(S) /\ UNCHANGED <<role, shut>>
      /\ req'[c].pc = "idle" /\ \A d \in Clients : d # c => req'[d] = req[d]
  BY DoneFields, Fields DEF InviteInv, RevokeInvite
<1>2. \A i \in S : ~Locked(i)
  BY DEF RevokeInvite
<1> HIDE DEF S
<1>3. Spares(c, S)
  BY <1>1, <1>2 DEF Spares, Locks, Locked
<1>4. Marks(S)
  BY <1>1, MarksSome DEF InviteInv
<1>5. QED
  BY <1>1, <1>3, <1>4, StepFree

\* An acceptance reads, claims and looks at the workspace.
LEMMA InviteClaimed ==
    ASSUME InviteInv, Inv', NEW c \in Clients,
           ReadAccept(c) \/ ClaimInvite(c) \/ CheckWorkspace(c)
    PROVE  InviteInv'
<1> USE DEF Inv
<1>1. UNCHANGED <<invite, shut, role>> /\ req[c].invs \subseteq Invites
  BY Fields DEF InviteInv, ReadAccept, ClaimInvite, CheckWorkspace, db
<1>2. Marks({}) /\ Spares(c, {})
  BY <1>1, MarksNone
<1>3. CASE Done(c)
  <2>1. req'[c].pc = "idle" /\ \A d \in Clients : d # c => req'[d] = req[d]
    BY <1>3, DoneFields DEF InviteInv
  <2>2. QED
    BY <1>1, <1>2, <2>1, StepFree
<1>4. CASE ~Done(c)
  <2>1. /\ req'[c].pc \in {"claim", "workspace", "admit"}
        /\ req'[c].actor = req[c].actor /\ req'[c].invs = req[c].invs
        /\ \A d \in Clients : d # c => req'[d] = req[d]
    BY <1>4, GoFields DEF InviteInv, ReadAccept, ClaimInvite, CheckWorkspace
  <2>2. \A i \in req[c].invs : Pending(i) /\ invite[i].email = req[c].actor
    BY <1>4, Fields DEF InviteInv, Holds, At, ReadAccept, ClaimInvite, CheckWorkspace
  <2>3. req'[c].pc = "admit" => shut = {}
    BY <1>4, GoFields DEF InviteInv, ReadAccept, ClaimInvite, CheckWorkspace
  <2>4. Holds(c)'
    BY <1>1, <2>1, <2>2, <2>3 DEF Holds, Pending, At
  <2>5. ASSUME NEW d \in Clients, d # c, Locks(c)', Locks(d)'
        PROVE  req'[c].invs \cap req'[d].invs = {}
    <3>1. Locks(d)
      BY <2>1, <2>5 DEF Locks
    <3>2. CASE Locks(c)
      BY <2>1, <2>5, <3>1, <3>2 DEF InviteInv, LocksApart
    <3>3. CASE ~Locks(c)
      <4>1. ClaimInvite(c)
        BY <1>4, <2>5, <3>3, GoFields DEF InviteInv, ReadAccept, CheckWorkspace, Locks, At
      <4>2. \A i \in req[c].invs : ~Locked(i)
        BY <4>1 DEF ClaimInvite
      <4>3. QED
        BY <2>1, <2>5, <3>1, <4>2 DEF Locks, Locked
    <3>4. QED
      BY <3>2, <3>3
  <2>6. QED
    BY <1>1, <1>2, <2>1, <2>4, <2>5, OthersHold, OneEachKept, Together
<1>5. QED
  BY <1>3, <1>4

\* Who is admitted has used up the invitations of the address, unless one was
\* late.
LEMMA InviteAccepted ==
    ASSUME InviteInv, Inv', NEW c \in Clients, AdmitMember(c)
    PROVE  InviteInv'
<1> USE DEF Inv
<1> DEFINE a == req[c].actor
           S == req[c].invs
<1>1. /\ S \in SUBSET Invites /\ a \in Users /\ UNCHANGED shut
      /\ req'[c].pc = "idle" /\ \A d \in Clients : d # c => req'[d] = req[d]
  BY DoneFields, Fields DEF InviteInv, AdmitMember, At, Formed
<1>2. /\ At(c, "admit") /\ Locks(c)
      /\ \A i \in S : Pending(i) /\ invite[i].email = a
  BY DEF AdmitMember, At, Locks, InviteInv, Holds
<1>3. CASE role[a] # None
  <2>1. UNCHANGED <<role, invite>>
    BY <1>3 DEF AdmitMember
  <2>2. QED
    BY <1>1, <2>1, MarksNone, StepFree
<1>4. CASE role[a] = None
  <2>1. invite' = Accepted(S) /\ \E i \in S : role' = [role EXCEPT ![a] = invite[i].role]
    BY <1>4 DEF AdmitMember
  <2> HIDE DEF S, a
  <2>2. Marks(S)
    BY <1>1, <2>1, MarksSome DEF InviteInv
  <2>3. Spares(c, S)
    BY <1>2 DEF Spares, InviteInv, LocksApart, S
  <2>4. \A u \in Users : u # a => role'[u] = role[u]
    BY <2>1 DEF InviteInv, DataOK
  <2>5. Excused(a) \/ ActiveFor(a) \subseteq S
    <3>1. S \subseteq ActiveFor(a) /\ S # {}
      BY <1>1, <1>2, <2>1 DEF ActiveFor
    <3>2. QED
      BY <1>1, <3>1 DEF InviteInv, OneEach
  <2>6. QED
    BY <1>1, <2>2, <2>3, <2>4, <2>5, StepFree
<1>5. QED
  BY <1>3, <1>4

\* Archiving and deleting revoke what is pending; the acceptances they overlap
\* hold invitations that came late.
LEMMA InviteShut ==
    ASSUME InviteInv, Inv', NEW c \in Clients, Shut(c)
    PROVE  InviteInv'
<1> USE DEF Inv
<1>1. CASE BeginShut(c)
  <2>1. UNCHANGED <<invite, shut, role>> /\ Marks({}) /\ Spares(c, {})
    BY <1>1, MarksNone DEF BeginShut, db
  <2>2. /\ req'[c].pc = "shutting" /\ req'[c].invs = Revocable
        /\ \A d \in Clients : d # c => req'[d] = req[d]
    <3>1. req'[c] = [req[c] EXCEPT !.pc = "shutting", !.invs = Revocable]
          /\ \A d \in Clients : d # c => req'[d] = req[d]
      BY <1>1 DEF BeginShut, InviteInv, ReqOK
    <3>2. QED
      BY <3>1, Fields DEF InviteInv, Request
  <2>3. Holds(c)'
    BY <2>1, <2>2 DEF Holds, At, Revocable, Pending
  <2>4. ASSUME NEW d \in Clients, d # c, Locks(d)'
        PROVE  req'[c].invs \cap req'[d].invs = {}
    <3>1. \A i \in Revocable : ~Locked(i)
      BY <1>1 DEF BeginShut
    <3>2. QED
      BY <2>2, <2>4, <3>1 DEF Locks, Locked
  <2>5. QED
    BY <2>1, <2>2, <2>3, <2>4, OthersHold, OneEachKept, Together
<1>2. CASE CommitShut(c)
  <2> DEFINE S == req[c].invs
  <2>1. /\ S \in SUBSET Invites /\ invite' = Revoked(S) /\ UNCHANGED role
        /\ req'[c].pc = "idle" /\ \A d \in Clients : d # c => req'[d] = req[d]
    BY <1>2, DoneFields, Fields DEF InviteInv, CommitShut
  <2>2. Locks(c) /\ At(c, "shutting")
    BY <1>2 DEF CommitShut, Locks, At
  <2>3. \A i \in Invites : Pending(i) => i \in S \/ invite[i].late
    BY <2>2 DEF InviteInv, Holds
  <2>4. Spares(c, S)
    BY <2>2 DEF Spares, InviteInv, LocksApart
  <2> HIDE DEF S
  <2>5. Marks(S)
    BY <2>1, MarksSome DEF InviteInv
  <2>6. ASSUME NEW d \in Clients \ {c}, At(d, "admit")
        PROVE  \A i \in req[d].invs : invite[i].late
    <3>1. /\ req[d].invs \subseteq Invites /\ req[d].invs \cap S = {}
          /\ \A i \in req[d].invs : Pending(i)
      BY <2>4, <2>6, Fields DEF InviteInv, Holds, Spares, Locks, At
    <3>2. QED
      BY <2>3, <3>1
  <2>7. QED
    BY <2>1, <2>4, <2>5, <2>6, StepFree
<1>3. CASE Unarchive(c)
  <2>1. UNCHANGED <<invite, role>> /\ (shut = {} => shut' = {})
    BY <1>3 DEF Unarchive
  <2>2. req'[c].pc = "idle" /\ \A d \in Clients : d # c => req'[d] = req[d]
    BY <1>3, DoneFields DEF InviteInv, Unarchive
  <2>3. QED
    BY <2>1, <2>2, MarksNone, StepFree
<1>4. QED
  BY <1>1, <1>2, <1>3 DEF Shut

-----------------------------------------------------------------------------
(* The theorems *)

\* The invariant that types, locks and invitations make together.
THEOREM InvitationInvariant == Spec => []InviteInv
<1>1. Init => InviteInv
  <2> SUFFICES ASSUME Init PROVE InviteInv
    OBVIOUS
  <2>1. Inv
    BY InitTypes
  <2>2. /\ \A i \in Invites : ~invite[i].sent /\ ~invite[i].late
        /\ \A c \in Clients : req[c].pc = "idle"
    BY DEF Init, NoInvite, Idle
  <2>3. \A u \in Users : ActiveFor(u) = {}
    BY <2>2 DEF ActiveFor, Pending
  <2>4. QED
    BY <2>1, <2>2, <2>3 DEF InviteInv, LateSent, OneEach, LocksApart, Locks, Holds, At
<1>2. InviteInv /\ [Next]_vars => InviteInv'
  <2> SUFFICES ASSUME InviteInv, [Next]_vars PROVE InviteInv'
    OBVIOUS
  <2>1. Inv'
    BY NextTypes DEF InviteInv
  <2>2. CASE UNCHANGED vars
    BY <2>1, <2>2 DEF vars, db, InviteInv, LateSent, OneEach, LocksApart, Locks, Holds, At,
                      Pending, ActiveFor, Excused
  <2>3. CASE \E u \in Users : Expire(u)
    BY <2>1, <2>3 DEF Expire, db, InviteInv, LateSent, OneEach, LocksApart, Locks, Holds, At,
                      Pending, ActiveFor, Excused
  <2>4. ASSUME NEW p \in Processes, Crash(p) PROVE InviteInv'
    <3>1. UNCHANGED <<invite, role, shut>>
      BY <2>4 DEF Crash, db
    <3>2. \A c \in Clients : req'[c].pc = "idle" \/ req'[c] = req[c]
      BY <2>4 DEF Crash, Idle
    <3>3. LateSent' /\ OneEach'
      BY <3>1 DEF InviteInv, LateSent, OneEach, Pending, ActiveFor, Excused
    <3>4. LocksApart'
      BY <3>2 DEF InviteInv, LocksApart, Locks
    <3>5. ASSUME NEW c \in Clients PROVE Holds(c)'
      BY <3>1, <3>2 DEF InviteInv, Holds, At, Pending
    <3>6. QED
      BY <2>1, <3>3, <3>4, <3>5 DEF InviteInv
  <2>5. ASSUME NEW c \in Clients,
               \/ StartRequest(c) \/ Membership(c) \/ ChangeRole(c) \/ Aftermath(c)
               \/ JoinRoom(c) \/ Invitation(c) \/ Shut(c)
        PROVE  InviteInv'
    BY <2>1, <2>5, InviteElsewhere, InviteInserted, InviteRevoked, InviteClaimed, InviteAccepted,
       InviteShut DEF Invitation
  <2>6. QED
    BY <2>2, <2>3, <2>4, <2>5 DEF Next
<1>3. QED
  BY <1>1, <1>2, PTL DEF Spec

\* An address has one active invitation at most, and none once its user is a
\* member, unless one of its invitations was inserted late: no old invitation
\* lets a removed member back in.
THEOREM InvitationsAreSingle == Spec => []OneActiveInvitation
<1>1. InviteInv => OneActiveInvitation
  <2> SUFFICES ASSUME InviteInv, NEW u \in Users, ~Excused(u)
               PROVE  Cardinality(ActiveFor(u)) <= IF role[u] = None THEN 1 ELSE 0
    BY DEF OneActiveInvitation, Excused
  <2>1. CASE ActiveFor(u) = {}
    BY <2>1, FS_EmptySet
  <2>2. CASE ActiveFor(u) # {}
    <3>1. role[u] = None /\ \A i, j \in ActiveFor(u) : i = j
      BY <2>2 DEF InviteInv, OneEach
    <3>2. PICK i \in ActiveFor(u) : ActiveFor(u) = {i}
      BY <2>2, <3>1
    <3>3. Cardinality(ActiveFor(u)) = 1
      BY <3>2, FS_Singleton
    <3>4. QED
      BY <3>1, <3>3
  <2>3. QED
    BY <2>1, <2>2
<1>2. QED
  BY <1>1, InvitationInvariant, PTL

\* Nobody joins by an invitation that was used or revoked, nor a workspace that
\* is shut, unless by an invitation inserted while it was being shut.
THEOREM JoinsAreInvited == Spec => JoinsByOpenInvitation
<1>1. ASSUME InviteInv, [Next]_vars, NEW u \in Users, role[u] = None, role'[u] # None
      PROVE  Accepts(u)
  <2> USE DEF InviteInv
  <2>1. role' # role
    BY <1>1
  <2>2. PICK c \in Clients : \/ StartRequest(c) \/ Membership(c) \/ ChangeRole(c) \/ Aftermath(c)
                             \/ JoinRoom(c) \/ Invitation(c)
    BY <1>1, <2>1 DEF Next, vars, db, Expire, Crash, Shut, BeginShut, CommitShut, Unarchive
  <2>3. ~(\/ StartRequest(c) \/ Membership(c) \/ ChangeRole(c) \/ Aftermath(c) \/ JoinRoom(c)
          \/ CheckInvited(c) \/ CheckActive(c) \/ ReadInvite(c))
    BY <1>1, NobodyJoins
  <2>4. AdmitMember(c)
    BY <2>1, <2>2, <2>3 DEF Invitation, InsertInvite, RevokeInvite, ReadAccept, ClaimInvite,
                            CheckWorkspace, db
  <2> DEFINE a == req[c].actor
  <2>5. /\ invite' = Accepted(req[c].invs) /\ At(c, "admit") /\ a = u
        /\ \E i \in req[c].invs : role' = [role EXCEPT ![a] = invite[i].role]
    BY <1>1, <2>1, <2>4 DEF AdmitMember, Inv, DataOK
  <2>6. PICK i \in req[c].invs : TRUE
    BY <2>5
  <2>7. i \in Invites /\ Pending(i) /\ invite[i].email = u /\ (shut = {} \/ invite[i].late)
    BY <1>1, <2>5, <2>6, Fields DEF Inv, Holds, At
  <2>8. invite'[i].accepted
    <3>1. invite'[i] = [invite[i] EXCEPT !.accepted = TRUE] /\ invite[i] \in InviteRow
      BY <1>1, <2>5, <2>6, <2>7 DEF Accepted, Inv, DataOK
    <3>2. QED
      BY <3>1 DEF InviteRow
  <2>9. QED
    BY <2>7, <2>8 DEF Accepts
<1>2. InviteInv /\ [Next]_vars =>
        [\A u \in Users : role[u] = None /\ role'[u] # None => Accepts(u)]_vars
  BY <1>1
<1>3. QED
  BY <1>2, InvitationInvariant, PTL DEF JoinsByOpenInvitation, Spec
=============================================================================
