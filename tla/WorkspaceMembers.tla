--------------------------- MODULE WorkspaceMembers ---------------------------
(***************************************************************************)
(* One workspace: who is a member with which role, who owns it, who is     *)
(* invited, what the membership cache in Redis says of it, and which       *)
(* sockets listen in its room.                                             *)
(*                                                                         *)
(*   workspaces/workspaces.service.ts   members, invitations, archive, and *)
(*                                      getMembership through the cache    *)
(*   realtime/realtime.gateway.ts       workspace:join, removal event      *)
(*                                                                         *)
(* One action per awaited statement.  A transaction is one action when its *)
(* statements are blind writes; acceptInvitation and archive read and lock *)
(* in between, so each of their statements is an action and their writes   *)
(* become visible in the one that commits.  A VIEWER is treated by this    *)
(* code as a MEMBER is; expiry of an invitation is a revocation by time.   *)
(* Every request runs in one of the processes of the backend, and a socket *)
(* is known to the gateway of the process it is connected to.              *)
(***************************************************************************)
EXTENDS Naturals, FiniteSets

CONSTANTS
    Users,        \* accounts
    Clients,      \* concurrently running requests
    Processes,    \* replicas of the backend
    Invites,      \* ids for rows of the invitations table
    None,         \* "no user, no role, no cache entry"
    Founder,      \* who created the workspace
    FirstRoles,   \* role assignments to start from
    NewRoles,     \* roles a request may ask for (bounds an instance)
    MaxRequests,  \* how many requests are ever started (bounds an instance)
    Ops           \* the operations clients may start (bounds an instance)

Roles      == {"OWNER", "ADMIN", "MEMBER", "VIEWER"}
Managers   == {"OWNER", "ADMIN"}
Operations == {"use", "role", "remove", "join", "invite", "revoke", "accept",
               "archive", "delete", "unarchive", "outage", "crash"}

ASSUME MembersConstants ==
    /\ IsFiniteSet(Users) /\ None \notin Users \cup Roles \cup Processes
    /\ Founder \in Users
    /\ FirstRoles \subseteq [Users -> Roles \cup {None}]
    /\ \A r \in FirstRoles, u \in Users : r[u] = "OWNER" <=> u = Founder
    /\ NewRoles \subseteq Roles
    /\ MaxRequests \in Nat
    /\ Ops \subseteq Operations

VARIABLES
    role,      \* workspace_members: role of each user's row, None without one
    row,       \* the id of that row: a member who rejoins gets a new one
    ownerId,   \* Workspace.ownerId
    shut,      \* which of archivedAt, deletedAt are set
    invite,    \* invitations
    cache,     \* Redis: ws:membership:<workspace>:<user>
    room,      \* <<user, process>>: a socket in the room of the workspace
    req,       \* the state of each client's request
    started,   \* how many requests were started
    raced,     \* history: a role was changed on an outdated reading of the roles
    ghosts     \* history: sockets in the room that their user's removal did not reach

db   == <<role, row, ownerId, shut, invite>>
vars == <<db, cache, room, req, started, raced, ghosts>>

Owners == {u \in Users : role[u] = "OWNER"}

-----------------------------------------------------------------------------
(* Requests *)

Stages == {"idle", "auth", "fill", "target", "count", "commit", "del", "delActor",
           "evict", "enter", "recheck", "member", "active", "insert", "revoking",
           "claim", "workspace", "admit", "shutting"}

\* A request: where it runs, its operation and arguments, what it has read so far.
Request == [pc : Stages, on : Processes \cup {None}, op : Operations, actor : Users \cup {None},
            target : Users \cup {None}, new : Roles \cup {None},
            arole : Roles \cup {None}, old : Roles \cup {None},
            archived : BOOLEAN, id : Nat, invs : SUBSET Invites]

Idle == [pc |-> "idle", on |-> None, op |-> "use", actor |-> None, target |-> None,
         new |-> None, arole |-> None, old |-> None,
         archived |-> FALSE, id |-> 0, invs |-> {}]

At(c, pc)   == req[c].pc = pc
Go(c, pc)   == req' = [req EXCEPT ![c].pc = pc]
Done(c)     == req' = [req EXCEPT ![c] = Idle]
Changes(c)  == req[c].op \in {"role", "remove"}

\* Row locks on invitations: a claim, and the revocations of an archive.
Locked(i) == \E c \in Clients : req[c].pc \in {"workspace", "admit", "shutting"}
                                /\ i \in req[c].invs

Pending(i)     == invite[i].sent /\ ~invite[i].accepted /\ ~invite[i].revoked
Usable(r, arc) == ~arc \/ r \in Managers

CanAssign(by, r) == /\ r = "OWNER" => by = "OWNER"
                    /\ by = "ADMIN" => r \notin {"OWNER", "ADMIN"}

Start(c, op, a, t, n, is) ==
    /\ At(c, "idle") /\ op \in Ops /\ started < MaxRequests
    /\ started' = started + 1
    /\ \E p \in Processes :
          req' = [req EXCEPT ![c] = [Idle EXCEPT !.pc = "auth", !.on = p, !.op = op,
                                     !.actor = a, !.target = t, !.new = n, !.invs = is]]
    /\ UNCHANGED <<db, cache, room, raced, ghosts>>

\* Mutant: an owner may be invited.
InvitableAny == NewRoles

Invitable == NewRoles \ {"OWNER"}

StartRequest(c) == \E a \in Users :
    \/ \E op \in {"use", "join", "archive", "delete", "unarchive"} :
          Start(c, op, a, None, None, {})
    \/ \E t \in Users : Start(c, "remove", a, t, None, {})
    \/ \E t \in Users, n \in NewRoles : Start(c, "role", a, t, n, {})
    \/ \E t \in Users \ {a}, n \in Invitable : Start(c, "invite", a, t, n, {})
    \/ \E i \in Invites, op \in {"revoke", "accept"} : Start(c, op, a, None, None, {i})

-----------------------------------------------------------------------------
(* getMembership: the cache, else the database and then the cache *)

ViaCache(c) == At(c, "auth") /\ req[c].op \notin {"join", "accept"}

\* Where a request goes once its actor is known to have role r.
Authorised(c, r) ==
    LET op == req[c].op
        next == CASE op \in {"role", "remove"} -> "target"
                  [] op = "invite"             -> "member"
                  [] op = "use"                -> "idle"
                  [] OTHER                     -> "commit"
        may  == op = "use" \/ IF op = "delete" THEN r = "OWNER" ELSE r \in Managers
        fits == op = "invite" => CanAssign(r, req[c].new)
    IN IF may /\ fits /\ next # "idle"
       THEN req' = [req EXCEPT ![c].pc = next, ![c].arole = r]
       ELSE Done(c)

CacheHit(c) ==
    LET entry == cache[req[c].actor] IN
    /\ ViaCache(c) /\ entry # None
    /\ IF Usable(entry.role, entry.archived) THEN Authorised(c, entry.role) ELSE Done(c)
    /\ UNCHANGED <<db, cache, room, started, raced, ghosts>>

\* A miss, or Redis did not answer.
LoadMembership(c) ==
    LET a == req[c].actor
        arc == "archived" \in shut IN
    /\ ViaCache(c)
    /\ IF role[a] = None \/ "deleted" \in shut \/ ~Usable(role[a], arc)
       THEN Done(c)
       ELSE req' = [req EXCEPT ![c].pc = "fill", ![c].arole = role[a], ![c].archived = arc]
    /\ UNCHANGED <<db, cache, room, started, raced, ghosts>>

\* SETEX; `late` notes that what is written is no longer true.
FillCache(c) ==
    LET a == req[c].actor IN
    /\ At(c, "fill")
    /\ cache' = [cache EXCEPT ![a] = [role |-> req[c].arole, archived |-> req[c].archived,
                                      late |-> req[c].arole # role[a]]]
    /\ Authorised(c, req[c].arole)
    /\ UNCHANGED <<db, room, started, raced, ghosts>>

Expire(u) ==
    /\ cache[u] # None
    /\ cache' = [cache EXCEPT ![u] = None]
    /\ UNCHANGED <<db, room, req, started, raced, ghosts>>

-----------------------------------------------------------------------------
(* updateMemberRole and removeMember *)

\* Mutant: an owner may be removed without counting the owners.
RemovesUncounted(c) == req[c].old = "OWNER" /\ req[c].op = "role" /\ req[c].new # "OWNER"

\* The request takes the role of an owner away.
Unseats(c) == req[c].old = "OWNER" /\ (req[c].op = "remove" \/ req[c].new # "OWNER")

Forbidden(c, old) ==
    LET by == req[c].arole IN
    \/ old = "OWNER" /\ by # "OWNER"
    \/ req[c].op = "role" /\ old = "ADMIN" /\ by # "OWNER"
    \/ req[c].op = "role" /\ ~CanAssign(by, req[c].new)

ReadTarget(c) ==
    LET t == req[c].target IN
    /\ At(c, "target")
    /\ IF role[t] = None \/ Forbidden(c, role[t])
       THEN Done(c)
       ELSE req' = [req EXCEPT ![c].pc = "count", ![c].old = role[t], ![c].id = row[t]]
    /\ UNCHANGED <<db, cache, room, started, raced, ghosts>>

\* assertNotLastOwner, when the target is an owner about to lose that role.
CountOwners(c) ==
    /\ At(c, "count")
    /\ IF Unseats(c) /\ Cardinality(Owners) <= 1 THEN Done(c) ELSE Go(c, "commit")
    /\ UNCHANGED <<db, cache, room, started, raced, ghosts>>

\* The roles are no longer what the request was allowed on.
Outdated(c) == role[req[c].actor] # req[c].arole \/ role[req[c].target] # req[c].old

\* Prisma's P2025: an update or a delete by id found no row.
RowGone(u, id) == role[u] = None \/ row[u] # id

\* The rows the transaction of updateMemberRole writes.
RolesAfter(a, t, n) ==
    IF n = "OWNER" /\ a # t THEN [role EXCEPT ![t] = n, ![a] = "ADMIN"]
                            ELSE [role EXCEPT ![t] = n]

CommitRole(c) ==
    LET a == req[c].actor
        t == req[c].target
        n == req[c].new IN
    /\ At(c, "commit") /\ req[c].op = "role"
    /\ IF RowGone(t, req[c].id) \/ (n = "OWNER" /\ role[a] = None)
       THEN Done(c) /\ UNCHANGED <<role, ownerId, raced>>
       ELSE /\ role' = RolesAfter(a, t, n)
            /\ ownerId' = IF n = "OWNER" THEN t ELSE ownerId
            /\ raced' = (raced \/ Outdated(c))
            /\ Go(c, "del")
    /\ UNCHANGED <<row, shut, invite, cache, room, started, ghosts>>

CommitRemove(c) ==
    LET t == req[c].target IN
    /\ At(c, "commit") /\ req[c].op = "remove"
    /\ IF RowGone(t, req[c].id)
       THEN Done(c) /\ UNCHANGED <<role, raced>>
       ELSE /\ role' = [role EXCEPT ![t] = None]
            /\ raced' = (raced \/ Outdated(c))
            /\ Go(c, "del")
    /\ UNCHANGED <<row, ownerId, shut, invite, cache, room, started, ghosts>>

\* Mutant: the member who handed the ownership over is not invalidated.
HandsOverForgotten(c) == FALSE

HandsOver(c) == req[c].op = "role" /\ req[c].new = "OWNER" /\ req[c].actor # req[c].target

AfterTarget(c) == IF HandsOver(c) THEN Go(c, "delActor")
                  ELSE IF req[c].op = "remove" THEN Go(c, "evict") ELSE Done(c)

\* DEL of the target's entry.
InvalidateTarget(c) ==
    /\ At(c, "del")
    /\ cache' = [cache EXCEPT ![req[c].target] = None]
    /\ AfterTarget(c)
    /\ UNCHANGED <<db, room, started, raced, ghosts>>

InvalidateActor(c) ==
    /\ At(c, "delActor")
    /\ cache' = [cache EXCEPT ![req[c].actor] = None]
    /\ Done(c)
    /\ UNCHANGED <<db, room, started, raced, ghosts>>

Overdue(u, entry) == IF entry = None \/ entry.role = role[u] THEN entry
                     ELSE [entry EXCEPT !.late = TRUE]

\* Redis is down: a DEL fails and is only logged.
InvalidateFails(c) ==
    LET u == IF At(c, "del") THEN req[c].target ELSE req[c].actor IN
    /\ "outage" \in Ops /\ req[c].pc \in {"del", "delActor"}
    /\ cache' = [cache EXCEPT ![u] = Overdue(u, @)]
    /\ IF At(c, "del") THEN AfterTarget(c) ELSE Done(c)
    /\ UNCHANGED <<db, room, started, raced, ghosts>>

\* The sockets u has in the room, in whichever process.
Listening(u) == {s \in room : s[1] = u}

\* WORKSPACE_MEMBER_REMOVED is emitted, within the process, once the calendar
\* feeds are revoked: the gateway of this process takes the user's sockets that
\* it knows out of the room; those of other processes stay.
Evict(c) ==
    LET here == <<req[c].target, req[c].on>> IN
    /\ At(c, "evict")
    /\ room' = room \ {here}
    /\ ghosts' = ghosts \cup (Listening(req[c].target) \ {here})
    /\ Done(c)
    /\ UNCHANGED <<db, cache, started, raced>>

\* The update of the calendar feeds fails: no event.
EvictFails(c) ==
    /\ "outage" \in Ops /\ At(c, "evict")
    /\ ghosts' = ghosts \cup Listening(req[c].target)
    /\ Done(c)
    /\ UNCHANGED <<db, cache, room, started, raced>>

\* What c has still to do once its change of roles is committed: the DEL of u's
\* entry, the event of u's removal.
Invalidates(c, u) ==
    \/ At(c, "del") /\ req[c].target = u
    \/ req[c].pc \in {"del", "delActor"} /\ HandsOver(c) /\ req[c].actor = u

Removes(c, u) == req[c].pc \in {"del", "evict"} /\ req[c].op = "remove" /\ req[c].target = u

\* A process stops: its requests, open transactions and sockets are gone, Redis
\* and the committed rows stay.  A crash uses up one of the MaxRequests.
Crash(p) ==
    /\ "crash" \in Ops /\ started < MaxRequests
    /\ started' = started + 1
    /\ req' = [c \in Clients |-> IF req[c].on = p THEN Idle ELSE req[c]]
    /\ room' = {s \in room : s[2] # p}
    /\ cache' = [u \in Users |-> IF \E c \in Clients : req[c].on = p /\ Invalidates(c, u)
                                 THEN Overdue(u, cache[u]) ELSE cache[u]]
    /\ ghosts' = ghosts \cup {s \in room' : \E c \in Clients : req[c].on = p /\ Removes(c, s[1])}
    /\ UNCHANGED <<db, raced>>

-----------------------------------------------------------------------------
(* workspace:join on the gateway, which reads the database only *)

JoinRead(c) ==
    LET a == req[c].actor IN
    /\ At(c, "auth") /\ req[c].op = "join"
    /\ IF role[a] = None \/ "deleted" \in shut \/ ~Usable(role[a], "archived" \in shut)
       THEN Done(c) ELSE Go(c, "enter")
    /\ UNCHANGED <<db, cache, room, started, raced, ghosts>>

\* client.join; the membership is read again afterwards.
EnterRoom(c) ==
    /\ At(c, "enter")
    /\ room' = room \cup {<<req[c].actor, req[c].on>>}
    /\ Go(c, "recheck")
    /\ UNCHANGED <<db, cache, started, raced, ghosts>>

\* Mutant: the membership is not read again.
RecheckSkipped(c) ==
    /\ At(c, "recheck")
    /\ Done(c)
    /\ UNCHANGED <<db, cache, room, started, raced, ghosts>>

Recheck(c) ==
    LET a == req[c].actor IN
    /\ At(c, "recheck")
    /\ room' = IF role[a] = None THEN room \ {<<a, req[c].on>>} ELSE room
    /\ Done(c)
    /\ UNCHANGED <<db, cache, started, raced, ghosts>>

-----------------------------------------------------------------------------
(* Invitations *)

\* createInvitation: the invited address is no member ...
CheckInvited(c) ==
    /\ At(c, "member")
    /\ IF role[req[c].target] # None THEN Done(c) ELSE Go(c, "active")
    /\ UNCHANGED <<db, cache, room, started, raced, ghosts>>

ActiveFor(u) == {i \in Invites : Pending(i) /\ invite[i].email = u}

\* ... and has no active invitation.
CheckActive(c) ==
    /\ At(c, "active")
    /\ IF ActiveFor(req[c].target) # {} THEN Done(c) ELSE Go(c, "insert")
    /\ UNCHANGED <<db, cache, room, started, raced, ghosts>>

ShuttingNow == shut # {} \/ \E c \in Clients : At(c, "shutting")

\* `late`: what createInvitation checked no longer holds when it inserts.
InsertInvite(c) ==
    LET u == req[c].target IN
    /\ At(c, "insert")
    /\ \E i \in Invites :
        /\ ~invite[i].sent
        /\ invite' = [invite EXCEPT ![i] =
             [sent |-> TRUE, email |-> u, role |-> req[c].new, accepted |-> FALSE,
              revoked |-> FALSE,
              late |-> role[u] # None \/ ActiveFor(u) # {} \/ ShuttingNow]]
    /\ Done(c)
    /\ UNCHANGED <<role, row, ownerId, shut, cache, room, started, raced, ghosts>>

\* revokeInvitation: the invitation is read as pending ...
ReadInvite(c) ==
    /\ At(c, "commit") /\ req[c].op = "revoke"
    /\ IF \E i \in req[c].invs : Pending(i) THEN Go(c, "revoking") ELSE Done(c)
    /\ UNCHANGED <<db, cache, room, started, raced, ghosts>>

Revoked(is) == [i \in Invites |-> IF i \in is THEN [invite[i] EXCEPT !.revoked = TRUE]
                                              ELSE invite[i]]

\* ... and updated by id, accepted meanwhile or not.
RevokeInvite(c) ==
    /\ At(c, "revoking") /\ \A i \in req[c].invs : ~Locked(i)
    /\ invite' = Revoked(req[c].invs)
    /\ Done(c)
    /\ UNCHANGED <<role, row, ownerId, shut, cache, room, started, raced, ghosts>>

\* acceptInvitation: findValidInvitation, the address, the existing membership.
ReadAccept(c) ==
    LET a == req[c].actor IN
    /\ At(c, "auth") /\ req[c].op = "accept"
    /\ IF /\ \A i \in req[c].invs : Pending(i) /\ invite[i].email = a
          /\ shut = {} /\ role[a] = None
       THEN Go(c, "claim") ELSE Done(c)
    /\ UNCHANGED <<db, cache, room, started, raced, ghosts>>

\* The claim waits for the row and looks at it again.
ClaimInvite(c) ==
    /\ At(c, "claim") /\ \A i \in req[c].invs : ~Locked(i)
    /\ IF \A i \in req[c].invs : Pending(i) THEN Go(c, "workspace") ELSE Done(c)
    /\ UNCHANGED <<db, cache, room, started, raced, ghosts>>

CheckWorkspace(c) ==
    /\ At(c, "workspace")
    /\ IF shut = {} THEN Go(c, "admit") ELSE Done(c)
    /\ UNCHANGED <<db, cache, room, started, raced, ghosts>>

\* Mutant: the claim does not mark the invitation as accepted.
AcceptedUnmarked(is) == invite

Accepted(is) == [i \in Invites |-> IF i \in is THEN [invite[i] EXCEPT !.accepted = TRUE]
                                               ELSE invite[i]]

\* The row is inserted (unique per user) and the transaction commits.
AdmitMember(c) ==
    LET a == req[c].actor IN
    /\ At(c, "admit")
    /\ Done(c)
    /\ IF role[a] # None
       THEN UNCHANGED <<role, row, invite>>
       ELSE /\ \E i \in req[c].invs : role' = [role EXCEPT ![a] = invite[i].role]
            /\ row' = [row EXCEPT ![a] = @ + 1]
            /\ invite' = Accepted(req[c].invs)
    /\ UNCHANGED <<ownerId, shut, cache, room, started, raced, ghosts>>

-----------------------------------------------------------------------------
(* archive, remove (of the workspace) and unarchive *)

\* Mutant: archiving leaves the pending invitations alone.
RevocableNone == {}

Revocable == {i \in Invites : Pending(i)}

\* The update of the workspace, then of its pending invitations, which waits
\* for their rows and keeps them; two of these wait for each other's workspace row.
BeginShut(c) ==
    /\ At(c, "commit") /\ req[c].op \in {"archive", "delete"}
    /\ \A d \in Clients : ~At(d, "shutting")
    /\ \A i \in Revocable : ~Locked(i)
    /\ req' = [req EXCEPT ![c].pc = "shutting", ![c].invs = Revocable]
    /\ UNCHANGED <<db, cache, room, started, raced, ghosts>>

CommitShut(c) ==
    /\ At(c, "shutting")
    /\ shut' = shut \cup {IF req[c].op = "archive" THEN "archived" ELSE "deleted"}
    /\ invite' = Revoked(req[c].invs)
    /\ Done(c)
    /\ UNCHANGED <<role, row, ownerId, cache, room, started, raced, ghosts>>

Unarchive(c) ==
    /\ At(c, "commit") /\ req[c].op = "unarchive"
    /\ \A d \in Clients : ~At(d, "shutting")
    /\ shut' = shut \ {"archived"}
    /\ Done(c)
    /\ UNCHANGED <<role, row, ownerId, invite, cache, room, started, raced, ghosts>>

-----------------------------------------------------------------------------
NoInvite == [sent |-> FALSE, email |-> Founder, role |-> "MEMBER", accepted |-> FALSE,
             revoked |-> FALSE, late |-> FALSE]

\* create: the founder owns the workspace and is its first member.
Init ==
    /\ role \in FirstRoles
    /\ row = [u \in Users |-> 0]
    /\ ownerId = Founder
    /\ shut = {}
    /\ invite = [i \in Invites |-> NoInvite]
    /\ cache = [u \in Users |-> None]
    /\ room = {}
    /\ req = [c \in Clients |-> Idle]
    /\ started = 0
    /\ raced = FALSE
    /\ ghosts = {}

Membership(c)  == CacheHit(c) \/ LoadMembership(c) \/ FillCache(c)
ChangeRole(c)  == ReadTarget(c) \/ CountOwners(c) \/ CommitRole(c) \/ CommitRemove(c)
Aftermath(c)   == \/ InvalidateTarget(c) \/ InvalidateActor(c) \/ InvalidateFails(c)
                  \/ Evict(c) \/ EvictFails(c)
JoinRoom(c)    == JoinRead(c) \/ EnterRoom(c) \/ Recheck(c)
Invitation(c)  == \/ CheckInvited(c) \/ CheckActive(c) \/ InsertInvite(c)
                  \/ ReadInvite(c) \/ RevokeInvite(c)
                  \/ ReadAccept(c) \/ ClaimInvite(c) \/ CheckWorkspace(c) \/ AdmitMember(c)
Shut(c)        == BeginShut(c) \/ CommitShut(c) \/ Unarchive(c)

Next ==
    \/ \E c \in Clients : \/ StartRequest(c) \/ Membership(c) \/ ChangeRole(c)
                          \/ Aftermath(c) \/ JoinRoom(c) \/ Invitation(c) \/ Shut(c)
    \/ \E u \in Users : Expire(u)
    \/ \E p \in Processes : Crash(p)

Spec == Init /\ [][Next]_vars

-----------------------------------------------------------------------------
(* Properties *)

CacheEntry == [role : Roles, archived : BOOLEAN, late : BOOLEAN]
InviteRow  == [sent : BOOLEAN, email : Users, role : Roles \ {"OWNER"},
               accepted : BOOLEAN, revoked : BOOLEAN, late : BOOLEAN]

\* Every variable has its type.
TypeOK ==
    /\ role \in [Users -> Roles \cup {None}]
    /\ row \in [Users -> Nat]
    /\ ownerId \in Users
    /\ shut \subseteq {"archived", "deleted"}
    /\ invite \in [Invites -> InviteRow]
    /\ cache \in [Users -> CacheEntry \cup {None}]
    /\ room \subseteq Users \X Processes
    /\ req \in [Clients -> Request]
    /\ started \in Nat
    /\ raced \in BOOLEAN
    /\ ghosts \subseteq Users \X Processes

\* The user named in Workspace.ownerId is the one and only owner, unless some
\* request changed a role after the actor's or the target's role had changed
\* under it: without such a race no sequence of transfers, demotions, removals
\* and invitations leaves a workspace with no owner or with two.
SoleOwner == ~raced => Owners = {ownerId}

\* What assertNotLastOwner tells its callers: at least one owner remains.
HasOwner == Owners # {}

\* The DEL of u's entry is still to come.
WillInvalidate(u) == \E c \in Clients : Invalidates(c, u)

\* A cached role is the stored one, unless the request that changed it has not
\* come to its DEL yet, or the entry was written by a load that had read the
\* row before the change (or that DEL failed): every operation that changes a
\* role or a membership invalidates everyone whose role it changed.
CacheFresh == \A u \in Users :
    cache[u] # None /\ cache[u].role # role[u] => cache[u].late \/ WillInvalidate(u)

\* c is about to take u's socket on p out of the room: a removal on its way to
\* its event, or a join that will look at the membership again.
ShowsOut(c, u, p) ==
    Removes(c, u) \/ (At(c, "recheck") /\ req[c].actor = u /\ req[c].on = p)

\* Whoever listens in the room is a member, with one exception: a socket that
\* was in the room already when its user's removal ended without reaching it,
\* because the removal broke off or ran in another process.  A removal and a
\* join may overlap in any order and in any two processes.
RoomOfMembers == \A s \in room :
    role[s[1]] # None \/ s \in ghosts \/ \E c \in Clients : ShowsOut(c, s[1], s[2])

\* An address has at most one active invitation, and none while its owner is a
\* member, unless one of its invitations was inserted after its checks had
\* become outdated: who is removed cannot come back on an old invitation.
OneActiveInvitation == \A u \in Users :
    \/ \E i \in Invites : invite[i].email = u /\ invite[i].late
    \/ Cardinality(ActiveFor(u)) <= IF role[u] = None THEN 1 ELSE 0

\* This step accepts an open invitation of u, and the workspace is open, too.
Accepts(u) == \E i \in Invites : /\ invite[i].email = u /\ Pending(i)
                                 /\ invite'[i].accepted
                                 /\ shut = {} \/ invite[i].late

\* Nobody becomes a member of an archived or deleted workspace, nor on an
\* invitation that was revoked or used before, whatever overlaps the
\* acceptance; an invitation inserted while the archiving ran is the exception.
JoinsByOpenInvitation ==
    [][\A u \in Users : role[u] = None /\ role'[u] # None => Accepts(u)]_vars
=============================================================================
