---------------------------- MODULE RefreshSessions ----------------------------
(***************************************************************************)
(* The refresh sessions of one account: rotation and reuse detection,      *)
(* logout on one device and on all of them, password reset, and the        *)
(* cookie jars of the account's browsers, whose answers may be lost.       *)
(*                                                                         *)
(*   identity/identity.service.ts   login, refresh, logout, logoutAll,     *)
(*                                  requestPasswordReset, resetPassword    *)
(*   frontend shared/api/client.ts  a request given up after a timeout     *)
(*                                                                         *)
(* One action per awaited statement; the transaction of resetPassword      *)
(* claims its link first and is one action.  The family of a session is    *)
(* named by the first token of the family.  Access tokens are left out:    *)
(* they are checked against Redis, not against these rows.                 *)
(***************************************************************************)
EXTENDS Naturals, FiniteSets

CONSTANTS
    Tokens,       \* refresh tokens, one session row each
    Links,        \* password reset tokens
    Devices,      \* browsers, each with one cookie jar for all its tabs
    Clients,      \* concurrently running requests
    None,         \* "no token, no link, no device"
    MaxRequests,  \* how many requests are ever started (bounds an instance)
    Ops           \* the operations clients may start (bounds an instance)

Operations == {"login", "refresh", "logout", "logoutAll", "forgot", "reset",
               "expire", "lose", "fail"}

ASSUME SessionsConstants ==
    /\ IsFiniteSet(Tokens) /\ IsFiniteSet(Clients)
    /\ None \notin Tokens \cup Links \cup Devices
    /\ MaxRequests \in Nat
    /\ Ops \subseteq Operations

VARIABLES
    session,   \* refresh_sessions
    link,      \* password_reset_tokens
    cookie,    \* the refresh cookie of each device
    req,       \* the state of each client's request
    started,   \* how many requests were started
    resets,    \* history: how often the password was reset
    era,       \* history: how often all sessions were revoked
    burnt,     \* history: families revoked because of a reuse
    closed,    \* history: families ended by a logout or a password reset
    sent       \* history: how often each token was presented (counted up to 2)

rows    == <<session, link>>
history == <<resets, era, burnt, closed, sent>>
vars    == <<rows, cookie, req, started, history>>

-----------------------------------------------------------------------------
(* Sessions and requests *)

\* `stray`: created by a request that was under way when its account or its
\* family was revoked, or rotated from such a session.
SessionRow == [status : {"none", "live", "expired", "revoked"},
               family : Tokens \cup {None}, era : Nat, stray : BOOLEAN]
LinkRow    == [status : {"none", "usable", "used"}, born : Nat]

NoSession == [status |-> "none", family |-> None, era |-> 0, stray |-> FALSE]

\* revokedAt is null.
Standing(t) == session[t].status \in {"live", "expired"}
Family(f)   == {t \in Tokens : session[t].status # "none" /\ session[t].family = f}

\* updateMany ... where revokedAt is null, set revokedAt.
Revoke(ts) == [t \in Tokens |-> IF t \in ts /\ Standing(t)
                                THEN [session[t] EXCEPT !.status = "revoked"] ELSE session[t]]

Stages  == {"idle", "read", "claim", "burn", "issue", "answer", "logout", "mint",
            "mail", "unlink", "resetting"}
Request == [pc : Stages, device : Devices \cup {None}, token : Tokens \cup {None},
            family : Tokens \cup {None}, era : Nat, stray : BOOLEAN,
            link : Links \cup {None}]

Idle == [pc |-> "idle", device |-> None, token |-> None, family |-> None,
         era |-> 0, stray |-> FALSE, link |-> None]

At(c, pc)  == req[c].pc = pc
Go(c, pc)  == req' = [req EXCEPT ![c].pc = pc]
Done(c)    == req' = [req EXCEPT ![c] = Idle]

\* Requests about to create a session escape a revocation that runs now.
Escaping(f) == {c \in Clients : At(c, "issue") /\ (f = None \/ req[c].family = f)}
Strays(cs)  == [c \in Clients |-> IF c \in cs THEN [req[c] EXCEPT !.stray = TRUE] ELSE req[c]]

Start(c, op, r) ==
    /\ At(c, "idle") /\ op \in Ops /\ started < MaxRequests
    /\ started' = started + 1
    /\ req' = [req EXCEPT ![c] = r]

-----------------------------------------------------------------------------
(* login and refresh *)

\* login: the user is read and the password verified.
Login(c) == \E d \in Devices :
    /\ Start(c, "login", [Idle EXCEPT !.pc = "issue", !.device = d, !.era = era])
    /\ UNCHANGED <<rows, cookie, history>>

\* refresh: the request carries the cookie its device has now.
Refresh(c) == \E d \in Devices :
    /\ cookie[d] # None
    /\ Start(c, "refresh", [Idle EXCEPT !.pc = "read", !.device = d, !.token = cookie[d]])
    /\ sent' = [sent EXCEPT ![cookie[d]] = IF @ = 2 THEN 2 ELSE @ + 1]
    /\ UNCHANGED <<rows, cookie, resets, era, burnt, closed>>

\* Mutant: an expired token is taken for a reused one.
AfterReadStrict(s) == IF s = "live" THEN "claim" ELSE "burn"

AfterRead(s) == CASE s = "live" -> "claim" [] s = "revoked" -> "burn" [] OTHER -> "idle"

ReadSession(c) ==
    LET s == session[req[c].token] IN
    /\ At(c, "read")
    /\ IF AfterRead(s.status) = "idle"
       THEN Done(c)
       ELSE req' = [req EXCEPT ![c].pc = AfterRead(s.status), ![c].family = s.family,
                               ![c].era = s.era, ![c].stray = s.stray]
    /\ UNCHANGED <<rows, cookie, started, history>>

\* Mutant: the count of claimed rows is ignored.
ClaimedAnyway(t) == TRUE

Claimed(t) == Standing(t)

\* The old token is revoked where it is not yet; none revoked is a reuse.
ClaimSession(c) ==
    LET t == req[c].token IN
    /\ At(c, "claim")
    /\ session' = Revoke({t})
    /\ Go(c, IF Claimed(t) THEN "issue" ELSE "burn")
    /\ UNCHANGED <<link, cookie, started, history>>

\* revokeRefreshFamily, and the request is refused; its cookie stays.
BurnFamily(c) ==
    LET f == req[c].family IN
    /\ At(c, "burn")
    /\ session' = Revoke(Family(f))
    /\ burnt' = burnt \cup {f}
    /\ req' = [Strays(Escaping(f)) EXCEPT ![c] = Idle]
    /\ UNCHANGED <<link, cookie, started, resets, era, closed, sent>>

\* Mutant: a login opens no family.
FamilyUnset(c, t) == req[c].family

\* familyId ?? the family the new session opens.
FamilyOf(c, t) == IF req[c].family = None THEN t ELSE req[c].family

\* issueTokens: the new row, in the family of the token it replaces.
IssueTokens(c) ==
    /\ At(c, "issue")
    /\ \E t \in Tokens :
        /\ session[t].status = "none"
        /\ session' = [session EXCEPT ![t] =
             [status |-> "live", family |-> FamilyOf(c, t), era |-> req[c].era,
              stray |-> req[c].stray]]
        /\ req' = [req EXCEPT ![c].pc = "answer", ![c].token = t]
    /\ UNCHANGED <<link, cookie, started, history>>

\* The answer sets or clears the cookie of the device, ...
Answer(c) ==
    /\ At(c, "answer")
    /\ cookie' = [cookie EXCEPT ![req[c].device] = req[c].token]
    /\ Done(c)
    /\ UNCHANGED <<rows, started, history>>

\* ... unless the browser gave up on it.
LoseAnswer(c) ==
    /\ "lose" \in Ops /\ At(c, "answer")
    /\ Done(c)
    /\ UNCHANGED <<rows, cookie, started, history>>

Expire(t) ==
    /\ "expire" \in Ops /\ session[t].status = "live"
    /\ session' = [session EXCEPT ![t].status = "expired"]
    /\ UNCHANGED <<link, cookie, req, started, history>>

\* The process or the database fails between two statements.
Fail(c) ==
    /\ "fail" \in Ops /\ req[c].pc \notin {"idle", "answer"}
    /\ Done(c)
    /\ UNCHANGED <<rows, cookie, started, history>>

-----------------------------------------------------------------------------
(* logout and logoutAll *)

Logout(c) == \E d \in Devices :
    /\ Start(c, "logout", [Idle EXCEPT !.pc = "logout", !.device = d, !.token = cookie[d]])
    /\ UNCHANGED <<rows, cookie, history>>

\* The presented session is revoked if it stands, and the cookies cleared.
EndSession(c) ==
    LET t == req[c].token IN
    /\ At(c, "logout")
    /\ session' = Revoke({t})
    /\ closed' = IF t # None /\ Standing(t) THEN closed \cup {session[t].family} ELSE closed
    /\ req' = [req EXCEPT ![c].pc = "answer", ![c].token = None]
    /\ UNCHANGED <<link, cookie, started, resets, era, burnt, sent>>

Opened == {session[t].family : t \in {u \in Tokens : session[u].status # "none"}}

\* Mutant: logging out everywhere revokes the sessions of one family only.
RevokeOne == IF \E t \in Tokens : Standing(t)
             THEN Revoke(Family(session[CHOOSE t \in Tokens : Standing(t)].family)) ELSE session

RevokeAll == Revoke(Tokens)

\* One updateMany over the account; access tokens and sockets follow.
LogoutAll(c) == \E d \in Devices :
    /\ At(c, "idle") /\ "logoutAll" \in Ops /\ started < MaxRequests
    /\ started' = started + 1
    /\ session' = RevokeAll
    /\ era' = era + 1
    /\ closed' = closed \cup Opened
    /\ req' = [Strays(Escaping(None)) EXCEPT
                 ![c] = [Idle EXCEPT !.pc = "answer", !.device = d]]
    /\ UNCHANGED <<link, cookie, resets, burnt, sent>>

-----------------------------------------------------------------------------
(* requestPasswordReset and resetPassword *)

\* Every usable link of the account is marked used (the claimed one too).
LinksUsed(l) == [k \in Links |-> IF link[k].status = "usable"
                                 THEN [link[k] EXCEPT !.status = "used"] ELSE link[k]]

\* The links sent before are invalidated first ...
Forgot(c) ==
    /\ Start(c, "forgot", [Idle EXCEPT !.pc = "mint"])
    /\ link' = LinksUsed(None)
    /\ UNCHANGED <<session, cookie, history>>

\* ... and the new one is created by a statement of its own.
MintLink(c) ==
    /\ At(c, "mint")
    /\ \E l \in Links : /\ link[l].status = "none"
                        /\ link' = [link EXCEPT ![l] = [status |-> "usable", born |-> resets]]
    /\ Go(c, "mail")
    /\ UNCHANGED <<session, cookie, started, history>>

Mail(c) ==
    /\ At(c, "mail")
    /\ Done(c) \/ Go(c, "unlink")
    /\ UNCHANGED <<rows, cookie, started, history>>

\* The mail could not be sent.
Unlink(c) ==
    /\ At(c, "unlink")
    /\ link' = LinksUsed(None)
    /\ Done(c)
    /\ UNCHANGED <<session, cookie, started, history>>

\* resetPassword reads the link ...
Reset(c) == \E l \in Links :
    /\ link[l].status = "usable"
    /\ Start(c, "reset", [Idle EXCEPT !.pc = "resetting", !.link = l])
    /\ UNCHANGED <<rows, cookie, history>>

\* Mutant: the link is not claimed, it was looked at before.
LinkClaimedAnyway(l) == TRUE

LinkClaimed(l) == link[l].status = "usable"

\* ... and claims it: password, other links and sessions in one transaction.
ResetPassword(c) ==
    LET l == req[c].link IN
    /\ At(c, "resetting")
    /\ IF LinkClaimed(l)
       THEN /\ link' = LinksUsed(l)
            /\ session' = RevokeAll
            /\ resets' = resets + 1
            /\ era' = era + 1
            /\ closed' = closed \cup Opened
            /\ req' = [Strays(Escaping(None)) EXCEPT ![c] = Idle]
       ELSE Done(c) /\ UNCHANGED <<rows, resets, era, closed>>
    /\ UNCHANGED <<cookie, started, burnt, sent>>

-----------------------------------------------------------------------------
Init ==
    /\ session = [t \in Tokens |-> NoSession]
    /\ link = [l \in Links |-> [status |-> "none", born |-> 0]]
    /\ cookie = [d \in Devices |-> None]
    /\ req = [c \in Clients |-> Idle]
    /\ started = 0 /\ resets = 0 /\ era = 0
    /\ burnt = {} /\ closed = {}
    /\ sent = [t \in Tokens |-> 0]

Rotation(c) == \/ Refresh(c) \/ ReadSession(c) \/ ClaimSession(c) \/ BurnFamily(c)
               \/ IssueTokens(c) \/ Answer(c) \/ LoseAnswer(c)
Leaving(c)  == Logout(c) \/ EndSession(c) \/ LogoutAll(c)
Recovery(c) == \/ Forgot(c) \/ MintLink(c) \/ Mail(c) \/ Unlink(c)
               \/ Reset(c) \/ ResetPassword(c)

Next == \/ \E c \in Clients : Login(c) \/ Rotation(c) \/ Leaving(c) \/ Recovery(c) \/ Fail(c)
        \/ \E t \in Tokens : Expire(t)

Spec == Init /\ [][Next]_vars

-----------------------------------------------------------------------------
(* Properties *)

\* Every variable has its type.
TypeOK ==
    /\ session \in [Tokens -> SessionRow]
    /\ link \in [Links -> LinkRow]
    /\ cookie \in [Devices -> Tokens \cup {None}]
    /\ req \in [Clients -> Request]
    /\ started \in Nat /\ resets \in Nat /\ era \in Nat
    /\ burnt \subseteq Tokens /\ closed \subseteq Tokens
    /\ sent \in [Tokens -> 0 .. 2]

\* c is about to create a session of family f.
Coming(c, f) == At(c, "issue") /\ f # None /\ req[c].family = f

\* A family is handed on, never copied: it has at most one session that is not
\* revoked, counting the one a rotation under way is about to create, however
\* many tabs, retries and lost answers present its tokens.
HandedOn == \A f \in Tokens :
    /\ \A t, u \in Family(f) : Standing(t) /\ Standing(u) => t = u
    /\ \A t \in Family(f), c \in Clients : Standing(t) => ~Coming(c, f)
    /\ \A c, d \in Clients : Coming(c, f) /\ Coming(d, f) => c = d

\* A logout, a logout everywhere, a password reset or a detected reuse ends the
\* sessions it is about for good: what stands afterwards was opened later, or
\* comes from a request that was between its claim (or its password check) and
\* its insert at that moment.
OnlyInFlightEscapes == \A t \in Tokens :
    Standing(t) => \/ session[t].stray
                   \/ session[t].era = era /\ session[t].family \notin closed \cup burnt

\* A family is revoked for reuse only if one of its tokens was presented twice,
\* or after one of its sessions had been ended by its owner.
NoFalseAlarm == \A f \in burnt : \E t \in Family(f) : sent[t] = 2 \/ f \in closed

\* The password is reset only with a link requested since the last reset: no
\* link works twice, and none sent before a reset works after it, whatever
\* overlaps.
ResetByFreshLink ==
    [][resets' # resets =>
         \E c \in Clients : At(c, "resetting") /\ req'[c] = Idle
                            /\ link[req[c].link].born = resets]_vars
=============================================================================
