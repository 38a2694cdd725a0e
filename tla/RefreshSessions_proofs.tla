------------------------ MODULE RefreshSessions_proofs ------------------------
(* What holds of the sessions of one account for any number of devices, tabs, *)
(* tokens and overlapping requests.                                           *)
EXTENDS RefreshSessions, TLAPS

-----------------------------------------------------------------------------
(* Types *)

\* What a request carries at each stage.
Carries(r) == /\ r.pc \in {"read", "claim", "burn"} => r.token \in Tokens
              /\ r.pc \in {"claim", "burn"} => r.family \in Tokens
              /\ r.pc = "resetting" => r.link \in Links

\* A session there ever was belongs to a family.
Rooted(s) == s.status # "none" => s.family \in Tokens

TypeInv == /\ TypeOK
           /\ \A c \in Clients : Carries(req[c])
           /\ \A t \in Tokens : Rooted(session[t])

\* The idle request.
LEMMA IdleRequest == Idle \in Request /\ Carries(Idle)
BY DEF Idle, Request, Carries, Stages

\* Requests stay well formed when one of them is replaced.
LEMMA Replaced ==
    ASSUME TypeInv, NEW c \in Clients, NEW r \in Request, Carries(r),
           req' = [req EXCEPT ![c] = r]
    PROVE  req' \in [Clients -> Request] /\ \A d \in Clients : Carries(req'[d])
BY DEF TypeInv, TypeOK

\* The request of c ends.
LEMMA ReqDone ==
    ASSUME TypeInv, NEW c \in Clients, Done(c)
    PROVE  req' \in [Clients -> Request] /\ \A d \in Clients : Carries(req'[d])
BY IdleRequest, Replaced DEF Done

\* The request of c goes on to a stage where it needs no token and no link.
LEMMA ReqGoes ==
    ASSUME TypeInv, NEW c \in Clients, NEW p \in Stages, Go(c, p),
           p \in {"read", "claim", "burn"} => req[c].token \in Tokens,
           p \in {"claim", "burn"} => req[c].family \in Tokens,
           p # "resetting"
    PROVE  req' \in [Clients -> Request] /\ \A d \in Clients : Carries(req'[d])
<1>1. req' = [req EXCEPT ![c] = [req[c] EXCEPT !.pc = p]]
  BY DEF Go, TypeInv, TypeOK
<1>2. [req[c] EXCEPT !.pc = p] \in Request
  BY DEF TypeInv, TypeOK, Request
<1>3. Carries([req[c] EXCEPT !.pc = p])
  BY DEF Carries, TypeInv, TypeOK, Request
<1>4. QED
  BY <1>1, <1>2, <1>3, Replaced

\* Requests noted as escaping are requests still; one of them then ends.
LEMMA ReqStrays ==
    ASSUME TypeInv, NEW c \in Clients, NEW cs \in SUBSET Clients, NEW r \in Request,
           Carries(r), req' = [Strays(cs) EXCEPT ![c] = r]
    PROVE  req' \in [Clients -> Request] /\ \A d \in Clients : Carries(req'[d])
<1>1. \A d \in Clients : [req[d] EXCEPT !.stray = TRUE] \in Request
                         /\ Carries([req[d] EXCEPT !.stray = TRUE])
  BY DEF TypeInv, TypeOK, Request, Carries
<1>2. Strays(cs) \in [Clients -> Request] /\ \A d \in Clients : Carries(Strays(cs)[d])
  BY <1>1 DEF Strays, TypeInv, TypeOK
<1>3. QED
  BY <1>2

\* Revoking keeps the table of sessions a table of sessions.
LEMMA RevokeTypes ==
    ASSUME TypeInv, NEW ts
    PROVE  Revoke(ts) \in [Tokens -> SessionRow] /\ \A t \in Tokens : Rooted(Revoke(ts)[t])
<1>1. \A t \in Tokens :
        Standing(t) => /\ [session[t] EXCEPT !.status = "revoked"] \in SessionRow
                       /\ Rooted([session[t] EXCEPT !.status = "revoked"])
  BY DEF TypeInv, TypeOK, SessionRow, Rooted, Standing
<1>2. \A t \in Tokens : session[t] \in SessionRow /\ Rooted(session[t])
  BY DEF TypeInv, TypeOK
<1>3. QED
  BY <1>1, <1>2 DEF Revoke

\* The families ever opened.
LEMMA OpenedTypes ==
    ASSUME TypeInv
    PROVE  Opened \subseteq Tokens
BY DEF Opened, TypeInv, Rooted

\* Likewise the table of links.
LEMMA LinksUsedTypes ==
    ASSUME TypeInv, NEW l
    PROVE  LinksUsed(l) \in [Links -> LinkRow]
<1>1. \A k \in Links : [link[k] EXCEPT !.status = "used"] \in LinkRow
  BY DEF TypeInv, TypeOK, LinkRow
<1>2. QED
  BY <1>1 DEF LinksUsed, TypeInv, TypeOK

\* A request that starts.
LEMMA Started ==
    ASSUME TypeInv, NEW c \in Clients, NEW op, NEW r \in Request, Carries(r), Start(c, op, r)
    PROVE  /\ req' \in [Clients -> Request] /\ \A d \in Clients : Carries(req'[d])
           /\ started' \in Nat
BY Replaced DEF Start, TypeInv, TypeOK

\* Logins, refreshes, their answers and failures keep the types.
LEMMA RotationTypes ==
    ASSUME TypeInv, NEW c \in Clients, Login(c) \/ Rotation(c) \/ Fail(c)
    PROVE  TypeInv'
<1>1. CASE Login(c)
  <2>1. PICK d \in Devices :
          Start(c, "login", [Idle EXCEPT !.pc = "issue", !.device = d, !.era = era])
    BY <1>1 DEF Login
  <2>2. [Idle EXCEPT !.pc = "issue", !.device = d, !.era = era] \in Request
        /\ Carries([Idle EXCEPT !.pc = "issue", !.device = d, !.era = era])
    BY DEF Idle, Request, Carries, Stages, TypeInv, TypeOK
  <2>3. QED
    BY <1>1, <2>1, <2>2, Started DEF Login, TypeInv, TypeOK, rows, history
<1>2. CASE Refresh(c)
  <2>1. PICK d \in Devices :
          /\ cookie[d] # None
          /\ Start(c, "refresh", [Idle EXCEPT !.pc = "read", !.device = d, !.token = cookie[d]])
          /\ sent' = [sent EXCEPT ![cookie[d]] = IF @ = 2 THEN 2 ELSE @ + 1]
    BY <1>2 DEF Refresh
  <2>2. cookie[d] \in Tokens
    BY <2>1 DEF TypeInv, TypeOK
  <2>3. [Idle EXCEPT !.pc = "read", !.device = d, !.token = cookie[d]] \in Request
        /\ Carries([Idle EXCEPT !.pc = "read", !.device = d, !.token = cookie[d]])
    BY <2>2 DEF Idle, Request, Carries, Stages
  <2>4. sent' \in [Tokens -> 0 .. 2]
    BY <2>1, <2>2 DEF TypeInv, TypeOK
  <2>5. QED
    BY <1>2, <2>1, <2>3, <2>4, Started DEF Refresh, TypeInv, TypeOK, rows
<1>3. CASE ReadSession(c)
  <2> DEFINE s == session[req[c].token]
             r == [req[c] EXCEPT !.pc = AfterRead(s.status), !.family = s.family,
                                 !.era = s.era, !.stray = s.stray]
  <2>1. req[c].token \in Tokens /\ s \in SessionRow
    BY <1>3 DEF ReadSession, At, TypeInv, TypeOK, Carries
  <2>2. CASE AfterRead(s.status) = "idle"
    BY <1>3, <2>2, ReqDone DEF ReadSession, TypeInv, TypeOK, rows, history
  <2>3. CASE AfterRead(s.status) # "idle"
    <3>1. PICK p \in {"claim", "burn"} : AfterRead(s.status) = p
      BY <2>3 DEF AfterRead
    <3>2. s.family \in Tokens
      BY <2>1, <2>3 DEF AfterRead, TypeInv, Rooted
    <3>3. req[c] \in Request
      BY DEF TypeInv, TypeOK
    <3>4. r \in Request
      BY <2>1, <3>1, <3>3 DEF Request, SessionRow, Stages
    <3>5. Carries(r)
      BY <2>1, <3>1, <3>2, <3>3 DEF Request, Carries
    <3>6. req' = [req EXCEPT ![c] = r]
      BY <1>3, <2>3 DEF ReadSession, TypeInv, TypeOK
    <3>7. QED
      BY <1>3, <3>4, <3>5, <3>6, Replaced DEF ReadSession, TypeInv, TypeOK, rows, history
  <2>4. QED
    BY <2>2, <2>3
<1>4. CASE ClaimSession(c)
  <2>1. req[c].token \in Tokens /\ req[c].family \in Tokens
    BY <1>4 DEF ClaimSession, At, TypeInv, Carries
  <2>2. req' \in [Clients -> Request] /\ \A d \in Clients : Carries(req'[d])
    BY <1>4, <2>1, ReqGoes DEF ClaimSession, Stages
  <2>3. QED
    BY <1>4, <2>2, RevokeTypes DEF ClaimSession, TypeInv, TypeOK, history
<1>5. CASE BurnFamily(c)
  <2>1. req[c].family \in Tokens
    BY <1>5 DEF BurnFamily, At, TypeInv, Carries
  <2>2. Escaping(req[c].family) \in SUBSET Clients
    BY DEF Escaping
  <2>3. req' \in [Clients -> Request] /\ \A d \in Clients : Carries(req'[d])
    BY <1>5, <2>2, IdleRequest, ReqStrays DEF BurnFamily
  <2>4. QED
    BY <1>5, <2>1, <2>3, RevokeTypes DEF BurnFamily, TypeInv, TypeOK
<1>6. CASE IssueTokens(c)
  <2>1. PICK t \in Tokens :
          /\ session' = [session EXCEPT ![t] = [status |-> "live", family |-> FamilyOf(c, t),
                           era |-> req[c].era, stray |-> req[c].stray]]
          /\ req' = [req EXCEPT ![c].pc = "answer", ![c].token = t]
    BY <1>6 DEF IssueTokens
  <2>2. FamilyOf(c, t) \in Tokens
    BY DEF FamilyOf, TypeInv, TypeOK, Request
  <2>3. session' \in [Tokens -> SessionRow] /\ \A u \in Tokens : Rooted(session'[u])
    BY <2>1, <2>2 DEF TypeInv, TypeOK, Request, SessionRow, Rooted
  <2>4. req' = [req EXCEPT ![c] = [req[c] EXCEPT !.pc = "answer", !.token = t]]
    BY <2>1 DEF TypeInv, TypeOK
  <2>5. [req[c] EXCEPT !.pc = "answer", !.token = t] \in Request
        /\ Carries([req[c] EXCEPT !.pc = "answer", !.token = t])
    BY DEF TypeInv, TypeOK, Request, Carries, Stages
  <2>6. QED
    BY <1>6, <2>3, <2>4, <2>5, Replaced DEF IssueTokens, TypeInv, TypeOK, history
<1>7. CASE Answer(c)
  <2>1. cookie' \in [Devices -> Tokens \cup {None}]
    BY <1>7 DEF Answer, TypeInv, TypeOK, Request
  <2>2. QED
    BY <1>7, <2>1, ReqDone DEF Answer, TypeInv, TypeOK, rows, history
<1>8. CASE LoseAnswer(c)
  BY <1>8, ReqDone DEF LoseAnswer, TypeInv, TypeOK, rows, history
<1>9. CASE Fail(c)
  BY <1>9, ReqDone DEF Fail, TypeInv, TypeOK, rows, history
<1>10. QED
  BY <1>1, <1>2, <1>3, <1>4, <1>5, <1>6, <1>7, <1>8, <1>9 DEF Rotation

\* Logouts, on one device and on all, keep the types.
LEMMA LeavingTypes ==
    ASSUME TypeInv, NEW c \in Clients, Leaving(c)
    PROVE  TypeInv'
<1>1. CASE Logout(c)
  <2>1. PICK d \in Devices :
          Start(c, "logout", [Idle EXCEPT !.pc = "logout", !.device = d, !.token = cookie[d]])
    BY <1>1 DEF Logout
  <2>2. [Idle EXCEPT !.pc = "logout", !.device = d, !.token = cookie[d]] \in Request
        /\ Carries([Idle EXCEPT !.pc = "logout", !.device = d, !.token = cookie[d]])
    BY DEF Idle, Request, Carries, Stages, TypeInv, TypeOK
  <2>3. QED
    BY <1>1, <2>1, <2>2, Started DEF Logout, TypeInv, TypeOK, rows, history
<1>2. CASE EndSession(c)
  <2> DEFINE r == [req[c] EXCEPT !.pc = "answer", !.token = None]
  <2>1. r \in Request /\ Carries(r)
    BY ZenonT(60) DEF TypeInv, TypeOK, Request, Carries, Stages
  <2>2. req' = [req EXCEPT ![c] = r]
    BY <1>2 DEF EndSession, TypeInv, TypeOK
  <2>3. closed' \subseteq Tokens
    <3> DEFINE t == req[c].token
    <3>1. CASE t # None /\ Standing(t)
      <4>1. t \in Tokens
        BY <3>1 DEF TypeInv, TypeOK, Request
      <4>2. session[t].family \in Tokens
        BY <3>1, <4>1 DEF TypeInv, Rooted, Standing
      <4>3. QED
        BY <1>2, <3>1, <4>2 DEF EndSession, TypeInv, TypeOK
    <3>2. CASE ~(t # None /\ Standing(t))
      BY <1>2, <3>2 DEF EndSession, TypeInv, TypeOK
    <3>3. QED
      BY <3>1, <3>2
  <2>4. QED
    BY <1>2, <2>1, <2>2, <2>3, Replaced, RevokeTypes DEF EndSession, TypeInv, TypeOK
<1>3. CASE LogoutAll(c)
  <2>1. PICK d \in Devices :
          req' = [Strays(Escaping(None)) EXCEPT ![c] = [Idle EXCEPT !.pc = "answer", !.device = d]]
    BY <1>3 DEF LogoutAll
  <2>2. Carries([Idle EXCEPT !.pc = "answer", !.device = d])
        /\ [Idle EXCEPT !.pc = "answer", !.device = d] \in Request
    BY DEF Idle, Request, Carries, Stages
  <2>3. Escaping(None) \in SUBSET Clients
    BY DEF Escaping
  <2>4. req' \in [Clients -> Request] /\ \A e \in Clients : Carries(req'[e])
    BY <2>1, <2>2, <2>3, ReqStrays
  <2>5. QED
    BY <1>3, <2>4, OpenedTypes, RevokeTypes DEF LogoutAll, RevokeAll, TypeInv, TypeOK
<1>4. QED
  BY <1>1, <1>2, <1>3 DEF Leaving

\* Requesting a link and resetting the password keep the types.
LEMMA RecoveryTypes ==
    ASSUME TypeInv, NEW c \in Clients, Recovery(c)
    PROVE  TypeInv'
<1>1. CASE Forgot(c)
  <2>1. [Idle EXCEPT !.pc = "mint"] \in Request /\ Carries([Idle EXCEPT !.pc = "mint"])
    BY DEF Idle, Request, Carries, Stages
  <2>2. QED
    BY <1>1, <2>1, Started, LinksUsedTypes DEF Forgot, TypeInv, TypeOK, history
<1>2. CASE MintLink(c)
  <2>1. req' \in [Clients -> Request] /\ \A d \in Clients : Carries(req'[d])
    BY <1>2, ReqGoes DEF MintLink, Stages
  <2>2. link' \in [Links -> LinkRow]
    BY <1>2 DEF MintLink, TypeInv, TypeOK, LinkRow
  <2>3. QED
    BY <1>2, <2>1, <2>2 DEF MintLink, TypeInv, TypeOK, history
<1>3. CASE Mail(c)
  <2>1. req' \in [Clients -> Request] /\ \A d \in Clients : Carries(req'[d])
    BY <1>3, ReqDone, ReqGoes DEF Mail, Stages
  <2>2. QED
    BY <1>3, <2>1 DEF Mail, TypeInv, TypeOK, rows, history
<1>4. CASE Unlink(c)
  BY <1>4, ReqDone, LinksUsedTypes DEF Unlink, TypeInv, TypeOK, history
<1>5. CASE Reset(c)
  <2>1. PICK l \in Links : Start(c, "reset", [Idle EXCEPT !.pc = "resetting", !.link = l])
    BY <1>5 DEF Reset
  <2>2. [Idle EXCEPT !.pc = "resetting", !.link = l] \in Request
        /\ Carries([Idle EXCEPT !.pc = "resetting", !.link = l])
    BY DEF Idle, Request, Carries, Stages
  <2>3. QED
    BY <1>5, <2>1, <2>2, Started DEF Reset, TypeInv, TypeOK, rows, history
<1>6. CASE ResetPassword(c)
  <2>1. CASE LinkClaimed(req[c].link)
    <3>1. Escaping(None) \in SUBSET Clients
      BY DEF Escaping
    <3>2. req' \in [Clients -> Request] /\ \A e \in Clients : Carries(req'[e])
      BY <1>6, <2>1, <3>1, IdleRequest, ReqStrays DEF ResetPassword
    <3>3. QED
      BY <1>6, <2>1, <3>2, OpenedTypes, RevokeTypes, LinksUsedTypes
         DEF ResetPassword, RevokeAll, TypeInv, TypeOK
  <2>2. CASE ~LinkClaimed(req[c].link)
    BY <1>6, <2>2, ReqDone DEF ResetPassword, TypeInv, TypeOK, rows
  <2>3. QED
    BY <2>1, <2>2
<1>7. QED
  BY <1>1, <1>2, <1>3, <1>4, <1>5, <1>6 DEF Recovery

\* Every step keeps the types.
LEMMA StepTypes ==
    ASSUME TypeInv, [Next]_vars
    PROVE  TypeInv'
<1>1. ASSUME NEW c \in Clients, Login(c) \/ Rotation(c) \/ Fail(c)
      PROVE  TypeInv'
  BY <1>1, RotationTypes
<1>2. ASSUME NEW c \in Clients, Leaving(c)
      PROVE  TypeInv'
  BY <1>2, LeavingTypes
<1>3. ASSUME NEW c \in Clients, Recovery(c)
      PROVE  TypeInv'
  BY <1>3, RecoveryTypes
<1>4. ASSUME NEW t \in Tokens, Expire(t)
      PROVE  TypeInv'
  <2>1. session' \in [Tokens -> SessionRow] /\ \A u \in Tokens : Rooted(session'[u])
    BY <1>4 DEF Expire, TypeInv, TypeOK, SessionRow, Rooted
  <2>2. QED
    BY <1>4, <2>1 DEF Expire, TypeInv, TypeOK, history
<1>5. CASE UNCHANGED vars
  BY <1>5 DEF vars, rows, history, TypeInv, TypeOK
<1>6. QED
  BY <1>1, <1>2, <1>3, <1>4, <1>5 DEF Next

\* The first state has the types.
LEMMA InitTypes ==
    ASSUME Init
    PROVE  TypeInv
<1>1. NoSession \in SessionRow /\ Rooted(NoSession)
  BY DEF NoSession, SessionRow, Rooted
<1>2. QED
  BY <1>1, IdleRequest DEF Init, TypeInv, TypeOK, LinkRow

\* Every variable keeps its type, every session belongs to a family and every
\* request carries what its next step needs (identity.service.ts).
THEOREM SessionsTypeCorrect == Spec => []TypeOK
<1>1. Init => TypeInv
  BY InitTypes
<1>2. TypeInv /\ [Next]_vars => TypeInv'
  BY StepTypes
<1>3. TypeInv => TypeOK
  BY DEF TypeInv
<1>4. QED
  BY <1>1, <1>2, <1>3, PTL DEF Spec

-----------------------------------------------------------------------------
(* Families: what relates sessions, requests under way and the history *)

\* A request between its read (or its lost claim) and the session it read.
Mirrors(c) == LET s == session[req[c].token] IN
    /\ s.status # "none"
    /\ req[c].family = s.family /\ req[c].era = s.era /\ req[c].stray = s.stray

\* Families are named by a session there is; requests know the family they act on.
Lineage ==
    /\ \A t \in Tokens : session[t].status # "none" => session[session[t].family].status # "none"
    /\ \A f \in closed \cup burnt : session[f].status # "none"
    /\ \A c \in Clients : At(c, "claim") \/ At(c, "burn") => Mirrors(c)
    /\ \A c \in Clients : At(c, "issue") /\ req[c].family # None =>
         session[req[c].family].status # "none"

\* Every session keeps its place; standing ends and never comes back.
Kept == \A t \in Tokens :
    /\ session'[t].family = session[t].family
    /\ session'[t].era = session[t].era
    /\ session'[t].stray = session[t].stray
    /\ session'[t].status = "none" <=> session[t].status = "none"
    /\ Standing(t)' => Standing(t)

\* The other requests stay where they are, but may be noted as escaping.
Bystanders(c) == \A d \in Clients : d # c =>
    /\ req'[d].pc = req[d].pc /\ req'[d].token = req[d].token
    /\ req'[d].family = req[d].family /\ req'[d].era = req[d].era
    /\ req[d].stray => req'[d].stray
    /\ ~At(d, "issue") => req'[d].stray = req[d].stray

\* Revoking keeps every session in its place.
LEMMA RevokeKeeps ==
    ASSUME TypeInv, NEW ts, session' = Revoke(ts)
    PROVE  /\ Kept
           /\ \A t \in Tokens : Standing(t)' => t \notin ts
           /\ \A t \in Tokens : session'[t].status = "revoked" =>
                session[t].status = "revoked" \/ (t \in ts /\ Standing(t))
<1>1. \A t \in Tokens : session'[t] = IF t \in ts /\ Standing(t)
                          THEN [session[t] EXCEPT !.status = "revoked"] ELSE session[t]
  BY DEF Revoke
<1>2. \A t \in Tokens : session[t] \in SessionRow
  BY DEF TypeInv, TypeOK
<1>3. QED
  BY <1>1, <1>2 DEF Kept, Standing, SessionRow

\* Replacing the request of c leaves the others alone.
LEMMA OthersStay ==
    ASSUME TypeInv, NEW c \in Clients, NEW r, req' = [req EXCEPT ![c] = r]
    PROVE  Bystanders(c) /\ req'[c] = r
BY DEF TypeInv, TypeOK, Bystanders

\* So does noting some of them as escaping.
LEMMA OthersStray ==
    ASSUME TypeInv, NEW c \in Clients, NEW f, NEW r,
           req' = [Strays(Escaping(f)) EXCEPT ![c] = r]
    PROVE  /\ Bystanders(c) /\ req'[c] = r
           /\ \A d \in Escaping(f) : d # c => req'[d].stray
<1>1. \A d \in Clients : d # c =>
        req'[d] = IF d \in Escaping(f) THEN [req[d] EXCEPT !.stray = TRUE] ELSE req[d]
  BY DEF Strays
<1>2. \A d \in Clients : req[d] \in Request
  BY DEF TypeInv, TypeOK
<1>3. req'[c] = r
  BY DEF Strays
<1>4. Escaping(f) \subseteq Clients /\ \A d \in Escaping(f) : At(d, "issue")
  BY DEF Escaping
<1>5. \A d \in Clients : d # c =>
        /\ req'[d].pc = req[d].pc /\ req'[d].token = req[d].token
        /\ req'[d].family = req[d].family /\ req'[d].era = req[d].era
        /\ d \in Escaping(f) => req'[d].stray
        /\ d \notin Escaping(f) => req'[d] = req[d]
  <2>1. \A q \in Request : LET r1 == [q EXCEPT !.stray = TRUE] IN
          /\ r1.pc = q.pc /\ r1.token = q.token /\ r1.family = q.family /\ r1.era = q.era
          /\ r1.stray
    BY DEF Request
  <2>2. ASSUME NEW d \in Clients, d # c
        PROVE  /\ req'[d].pc = req[d].pc /\ req'[d].token = req[d].token
               /\ req'[d].family = req[d].family /\ req'[d].era = req[d].era
               /\ d \in Escaping(f) => req'[d].stray
               /\ d \notin Escaping(f) => req'[d] = req[d]
    <3>1. CASE d \in Escaping(f)
      <4>1. req'[d] = [req[d] EXCEPT !.stray = TRUE] /\ req[d] \in Request
        BY <1>1, <1>2, <2>2, <3>1
      <4>2. QED
        BY <2>1, <3>1, <4>1
    <3>2. CASE d \notin Escaping(f)
      <4>1. req'[d] = req[d]
        BY <1>1, <2>2, <3>2
      <4>2. QED
        BY <3>2, <4>1
    <3>3. QED
      BY <3>1, <3>2
  <2>3. QED
    BY <2>2
<1>6. \A d \in Clients : d # c => /\ req[d].stray => req'[d].stray
                                  /\ ~At(d, "issue") => req'[d].stray = req[d].stray
  BY <1>4, <1>5
<1>7. QED
  BY <1>3, <1>4, <1>5, <1>6 DEF Bystanders

\* Lineage survives a step that keeps the sessions, if the request that moved
\* still mirrors its session and families are only noted that exist.
LEMMA LineageKept ==
    ASSUME TypeInv, TypeInv', Lineage, Kept, NEW c \in Clients, Bystanders(c),
           \A f \in closed' \cup burnt' : session[f].status # "none",
           (At(c, "claim") \/ At(c, "burn"))' => Mirrors(c)',
           At(c, "issue")' /\ req'[c].family # None => session[req'[c].family].status # "none"
    PROVE  Lineage'
<1>1. \A t \in Tokens : session'[t].status # "none" => session'[session'[t].family].status # "none"
  BY DEF Lineage, Kept, TypeInv, Rooted
<1>2. \A f \in closed' \cup burnt' : session'[f].status # "none"
  BY DEF Kept, TypeInv, TypeOK
<1>3. \A d \in Clients : (At(d, "claim") \/ At(d, "burn"))' => Mirrors(d)'
  <2>1. TAKE d \in Clients
  <2>2. HAVE (At(d, "claim") \/ At(d, "burn"))'
  <2>3. CASE d # c
    <3>1. (At(d, "claim") \/ At(d, "burn")) /\ ~At(d, "issue")
      BY <2>2, <2>3 DEF Bystanders, At
    <3>2. req[d].token \in Tokens /\ Mirrors(d)
      BY <3>1 DEF Lineage, TypeInv, Carries, At
    <3>3. QED
      BY <2>3, <3>1, <3>2 DEF Bystanders, Kept, Mirrors
  <2>4. QED
    BY <2>2, <2>3
<1>4. \A d \in Clients : At(d, "issue")' /\ req'[d].family # None =>
        session'[req'[d].family].status # "none"
  <2>1. \A d \in Clients : At(d, "issue")' /\ req'[d].family # None =>
          req'[d].family \in Tokens /\ session[req'[d].family].status # "none"
    BY DEF Lineage, Bystanders, At, TypeInv, TypeOK, Request
  <2>2. QED
    BY <2>1 DEF Kept
<1>5. QED
  BY <1>1, <1>2, <1>3, <1>4 DEF Lineage

\* A family stays handed on, never copied, where nothing new is to come.
LEMMA HandedOnKept ==
    ASSUME TypeInv, TypeInv', HandedOn, Kept, NEW c \in Clients, Bystanders(c),
           \A f \in Tokens : Coming(c, f)' => Coming(c, f)
    PROVE  HandedOn'
<1>1. \A d \in Clients, f \in Tokens : Coming(d, f)' => Coming(d, f)
  BY DEF Bystanders, Coming, At
<1>2. \A t \in Tokens, f \in Tokens : (t \in Family(f))' => t \in Family(f)
  BY DEF Kept, Family
<1>3. \A t \in Tokens : Standing(t)' => Standing(t)
  BY DEF Kept
<1>4. \A f \in Tokens : Family(f)' \subseteq Tokens
  BY DEF Family
<1>5. QED
  BY <1>1, <1>2, <1>3, <1>4 DEF HandedOn

\* Sessions about to be created are strays, or owe nothing to what was ended.
InFlight ==
    /\ OnlyInFlightEscapes
    /\ \A c \in Clients : At(c, "issue") =>
         \/ req[c].stray
         \/ req[c].era = era /\ req[c].family \notin closed \cup burnt

Presents(c) == At(c, "read") \/ At(c, "claim")
Excused(t)  == session[t].family \in closed \cup burnt

\* A token that is revoked and not excused was presented, and whoever still
\* presents it does so a second time.
Alarms ==
    /\ NoFalseAlarm
    /\ \A c \in Clients : Presents(c) => sent[req[c].token] # 0
    /\ \A c, d \in Clients : c # d /\ Presents(c) /\ Presents(d) /\ req[c].token = req[d].token
         => sent[req[c].token] = 2
    /\ \A c \in Clients : At(c, "burn") => sent[req[c].token] = 2 \/ Excused(req[c].token)
    /\ \A t \in Tokens : session[t].status = "revoked" /\ ~Excused(t) =>
         /\ sent[t] # 0
         /\ \A c \in Clients : Presents(c) /\ req[c].token = t => sent[t] = 2

\* InFlight survives where nothing is ended.
LEMMA InFlightKept ==
    ASSUME TypeInv, InFlight, Kept, NEW c \in Clients, Bystanders(c),
           era' = era, closed' = closed, burnt' = burnt,
           At(c, "issue")' => \/ req'[c].stray
                              \/ req'[c].era = era /\ req'[c].family \notin closed \cup burnt
    PROVE  InFlight'
<1>1. OnlyInFlightEscapes'
  BY DEF InFlight, OnlyInFlightEscapes, Kept
<1>2. \A d \in Clients : At(d, "issue")' =>
         \/ req'[d].stray
         \/ req'[d].era = era /\ req'[d].family \notin closed \cup burnt
  BY DEF InFlight, Bystanders, At
<1>3. QED
  BY <1>1, <1>2 DEF InFlight

\* Alarms survives where no token is presented and none is burnt.
LEMMA AlarmsKept ==
    ASSUME TypeInv, TypeInv', Alarms, Kept, NEW c \in Clients, Bystanders(c),
           sent' = sent, burnt' = burnt, closed \subseteq closed',
           Presents(c)' => Presents(c) /\ req'[c].token = req[c].token,
           At(c, "burn")' => sent[req'[c].token] = 2 \/ Excused(req[c].token)',
           \A t \in Tokens : session'[t].status = "revoked" =>
             \/ session[t].status = "revoked"
             \/ Excused(t)'
             \/ /\ sent[t] # 0
                /\ \A d \in Clients : Presents(d)' /\ req'[d].token = t => sent[t] = 2
    PROVE  Alarms'
<1>1. \A d \in Clients : Presents(d)' => Presents(d) /\ req'[d].token = req[d].token
  BY DEF Bystanders, Presents, At
<1>2. \A t \in Tokens : Excused(t) => Excused(t)'
  BY DEF Excused, Kept
<1>3. NoFalseAlarm'
  <2>1. \A f \in Tokens : Family(f) \subseteq Family(f)'
    BY DEF Family, Kept
  <2>2. QED
    BY <2>1 DEF Alarms, NoFalseAlarm, TypeInv, TypeOK
<1>4. \A d \in Clients : Presents(d)' => sent'[req'[d].token] # 0
  BY <1>1 DEF Alarms
<1>5. \A d, e \in Clients : d # e /\ Presents(d)' /\ Presents(e)' /\ req'[d].token = req'[e].token
        => sent'[req'[d].token] = 2
  BY <1>1 DEF Alarms
<1>6. \A d \in Clients : At(d, "burn")' => sent'[req'[d].token] = 2 \/ Excused(req[d].token)'
  <2>1. ASSUME NEW d \in Clients, d # c, At(d, "burn")'
        PROVE  At(d, "burn") /\ req'[d].token = req[d].token /\ req[d].token \in Tokens
    BY <2>1 DEF Bystanders, At, TypeInv, Carries
  <2>2. QED
    BY <1>2, <2>1 DEF Alarms, Excused
<1>7. \A t \in Tokens : session'[t].status = "revoked" /\ ~Excused(t)' =>
         /\ sent'[t] # 0
         /\ \A d \in Clients : Presents(d)' /\ req'[d].token = t => sent'[t] = 2
  BY <1>1, <1>2 DEF Alarms, Excused
<1>8. QED
  BY <1>3, <1>4, <1>5, <1>6, <1>7 DEF Alarms

SessionInv == TypeInv /\ Lineage /\ HandedOn /\ InFlight /\ Alarms

Active == {"read", "claim", "burn", "issue"}

\* Nothing changes when a request moves that presents and creates nothing.
LEMMA Passive ==
    ASSUME SessionInv, TypeInv', NEW c \in Clients, Bystanders(c), req'[c].pc \notin Active,
           session' = session, UNCHANGED <<era, closed, burnt, sent>>
    PROVE  SessionInv'
<1>1. Kept
  BY DEF Kept, Standing
<1>2. ~At(c, "read")' /\ ~At(c, "claim")' /\ ~At(c, "burn")' /\ ~At(c, "issue")'
  BY DEF Active, At
<1>3. Lineage'
  BY <1>1, <1>2, LineageKept DEF SessionInv, Lineage
<1>4. HandedOn'
  BY <1>1, <1>2, HandedOnKept DEF SessionInv, Coming
<1>5. InFlight'
  BY <1>1, <1>2, InFlightKept DEF SessionInv
<1>6. Alarms'
  BY <1>1, <1>2, AlarmsKept DEF SessionInv, Presents
<1>7. QED
  BY <1>3, <1>4, <1>5, <1>6 DEF SessionInv

\* A login starts: a session to come, outside every family there is.
LEMMA LoginKeeps ==
    ASSUME SessionInv, TypeInv', NEW c \in Clients, Login(c)
    PROVE  SessionInv'
<1>1. PICK d \in Devices :
        req' = [req EXCEPT ![c] = [Idle EXCEPT !.pc = "issue", !.device = d, !.era = era]]
  BY DEF Login, Start
<1>2. /\ Bystanders(c)
      /\ req'[c].pc = "issue" /\ req'[c].family = None /\ req'[c].era = era
  <2> DEFINE r == [Idle EXCEPT !.pc = "issue", !.device = d, !.era = era]
  <2>1. Bystanders(c) /\ req'[c] = r
    BY <1>1, OthersStay DEF SessionInv
  <2>2. r.pc = "issue" /\ r.family = None /\ r.era = era
    BY DEF Idle
  <2>3. QED
    BY <2>1, <2>2
<1>3. session' = session /\ UNCHANGED <<era, closed, burnt, sent>>
  BY DEF Login, rows, history
<1>4. Kept
  BY <1>3 DEF Kept, Standing
<1>5. None \notin Tokens
  BY SessionsConstants
<1>6. Lineage'
  BY <1>2, <1>3, <1>4, LineageKept DEF SessionInv, Lineage, At
<1>7. HandedOn'
  BY <1>2, <1>4, <1>5, HandedOnKept DEF SessionInv, Coming
<1>8. InFlight'
  BY <1>2, <1>3, <1>4, <1>5, InFlightKept DEF SessionInv, TypeInv, TypeOK
<1>9. Alarms'
  BY <1>2, <1>3, <1>4, AlarmsKept DEF SessionInv, Presents, At
<1>10. QED
  BY <1>6, <1>7, <1>8, <1>9 DEF SessionInv

\* A refresh starts: its token is presented once more.
LEMMA RefreshKeeps ==
    ASSUME SessionInv, TypeInv', NEW c \in Clients, Refresh(c)
    PROVE  SessionInv'
<1>1. PICK d \in Devices :
        /\ cookie[d] # None /\ At(c, "idle")
        /\ req' = [req EXCEPT ![c] =
                     [Idle EXCEPT !.pc = "read", !.device = d, !.token = cookie[d]]]
        /\ sent' = [sent EXCEPT ![cookie[d]] = IF @ = 2 THEN 2 ELSE @ + 1]
  BY DEF Refresh, Start
<1> DEFINE t == cookie[d]
<1>2. t \in Tokens
  BY <1>1 DEF SessionInv, TypeInv, TypeOK
<1>3. Bystanders(c) /\ req'[c].pc = "read" /\ req'[c].token = t
  <2> DEFINE r == [Idle EXCEPT !.pc = "read", !.device = d, !.token = t]
  <2>1. Bystanders(c) /\ req'[c] = r
    BY <1>1, OthersStay DEF SessionInv
  <2>2. r.pc = "read" /\ r.token = t
    BY DEF Idle
  <2>3. QED
    BY <2>1, <2>2
<1>4. session' = session /\ UNCHANGED <<era, closed, burnt>>
  BY DEF Refresh, rows
<1>5. Kept
  BY <1>4 DEF Kept, Standing
<1>6. Lineage'
  BY <1>3, <1>4, <1>5, LineageKept DEF SessionInv, Lineage, At
<1>7. HandedOn'
  BY <1>3, <1>5, HandedOnKept DEF SessionInv, Coming, At
<1>8. InFlight'
  BY <1>3, <1>4, <1>5, InFlightKept DEF SessionInv, At
<1>9. Alarms'
  <2>1. sent \in [Tokens -> 0 .. 2] /\ \A u \in Tokens : u # t => sent'[u] = sent[u]
    BY <1>1, <1>2 DEF SessionInv, TypeInv, TypeOK
  <2>2. sent'[t] # 0 /\ (sent[t] # 0 => sent'[t] = 2)
    BY <1>1, <1>2, <2>1
  <2>3. \A e \in Clients : e # c => /\ req'[e].pc = req[e].pc /\ req'[e].token = req[e].token
                                    /\ (Presents(e) \/ At(e, "burn") => req[e].token \in Tokens)
    BY <1>3 DEF Bystanders, SessionInv, TypeInv, Carries, Presents, At
  <2>4. NoFalseAlarm'
    <3>1. \A u \in Tokens : sent[u] = 2 => sent'[u] = 2
      BY <2>1, <2>2
    <3>2. \A f \in Tokens : Family(f)' = Family(f) /\ Family(f) \subseteq Tokens
      BY <1>4 DEF Family
    <3>3. QED
      BY <1>4, <3>1, <3>2 DEF SessionInv, Alarms, NoFalseAlarm, TypeInv, TypeOK
  <2>5. \A e \in Clients : Presents(e)' => sent'[req'[e].token] # 0
    BY <1>3, <2>1, <2>2, <2>3 DEF SessionInv, Alarms, Presents, At
  <2>6. \A e, g \in Clients :
          e # g /\ Presents(e)' /\ Presents(g)' /\ req'[e].token = req'[g].token
          => sent'[req'[e].token] = 2
    BY <1>3, <2>1, <2>2, <2>3 DEF SessionInv, Alarms, Presents, At
  <2>7. \A e \in Clients : At(e, "burn")' => sent'[req'[e].token] = 2 \/ Excused(req[e].token)'
    BY <1>3, <1>4, <2>1, <2>2, <2>3 DEF SessionInv, Alarms, Excused, At
  <2>8. \A u \in Tokens : session'[u].status = "revoked" /\ ~Excused(u)' =>
          /\ sent'[u] # 0
          /\ \A e \in Clients : Presents(e)' /\ req'[e].token = u => sent'[u] = 2
    BY <1>3, <1>4, <2>1, <2>2, <2>3 DEF SessionInv, Alarms, Excused, Presents, At
  <2>9. QED
    BY <2>4, <2>5, <2>6, <2>7, <2>8 DEF Alarms
<1>10. QED
  BY <1>6, <1>7, <1>8, <1>9 DEF SessionInv

\* The session is read: it mirrors the row, and an alarm has its reason.
LEMMA ReadKeeps ==
    ASSUME SessionInv, TypeInv', NEW c \in Clients, ReadSession(c)
    PROVE  SessionInv'
<1> DEFINE s == session[req[c].token]
<1>1. session' = session /\ UNCHANGED <<era, closed, burnt, sent>>
  BY DEF ReadSession, rows, history
<1>2. CASE AfterRead(s.status) = "idle"
  BY <1>1, <1>2, OthersStay, Passive DEF ReadSession, Done, SessionInv, Idle, Active
<1>3. CASE AfterRead(s.status) # "idle"
  <2>1. PICK p \in {"claim", "burn"} :
          /\ AfterRead(s.status) = p
          /\ s.status = IF p = "claim" THEN "live" ELSE "revoked"
    BY <1>3 DEF AfterRead
  <2> DEFINE r == [req[c] EXCEPT !.pc = p, !.family = s.family, !.era = s.era, !.stray = s.stray]
  <2>2. req' = [req EXCEPT ![c] = r]
    BY <1>3, <2>1 DEF ReadSession, SessionInv, TypeInv, TypeOK
  <2>3. /\ r.pc = p /\ r.token = req[c].token /\ r.family = s.family /\ r.era = s.era
        /\ r.stray = s.stray
    BY DEF SessionInv, TypeInv, TypeOK, Request
  <2>4. Bystanders(c) /\ req'[c] = r
    BY <2>2, OthersStay DEF SessionInv
  <2>5. Kept
    BY <1>1 DEF Kept, Standing
  <2>6. At(c, "read") /\ Presents(c) /\ req[c].token \in Tokens
    BY DEF ReadSession, Presents, At, SessionInv, TypeInv, Carries
  <2>7. Mirrors(c)'
    BY <1>1, <2>1, <2>3, <2>4 DEF Mirrors
  <2>8. ~At(c, "issue")'
    BY <2>3, <2>4 DEF At
  <2>9. Lineage'
    BY <1>1, <2>4, <2>5, <2>7, <2>8, LineageKept DEF SessionInv, Lineage
  <2>10. HandedOn'
    BY <2>4, <2>5, <2>8, HandedOnKept DEF SessionInv, Coming
  <2>11. InFlight'
    BY <1>1, <2>4, <2>5, <2>8, InFlightKept DEF SessionInv
  <2>12. At(c, "burn")' => sent[req'[c].token] = 2 \/ Excused(req[c].token)'
    BY <1>1, <2>1, <2>3, <2>4, <2>6 DEF SessionInv, Alarms, Excused, At
  <2>13. Alarms'
    BY <1>1, <2>3, <2>4, <2>5, <2>6, <2>12, AlarmsKept DEF SessionInv
  <2>14. QED
    BY <2>9, <2>10, <2>11, <2>13 DEF SessionInv
<1>4. QED
  BY <1>2, <1>3

\* The claim: the token stops standing as its successor is about to come, or it
\* had stopped before, which is a reuse.
LEMMA ClaimKeeps ==
    ASSUME SessionInv, TypeInv', NEW c \in Clients, ClaimSession(c)
    PROVE  SessionInv'
<1> DEFINE t == req[c].token
           p == IF Claimed(t) THEN "issue" ELSE "burn"
           r == [req[c] EXCEPT !.pc = p]
<1>1. /\ session' = Revoke({t}) /\ UNCHANGED <<era, closed, burnt, sent>>
      /\ req' = [req EXCEPT ![c] = r]
  BY DEF ClaimSession, Go, history, SessionInv, TypeInv, TypeOK
<1>2. Bystanders(c) /\ req'[c] = r
  BY <1>1, OthersStay DEF SessionInv
<1>3. /\ r.pc = p /\ r.token = t /\ r.family = req[c].family /\ r.era = req[c].era
      /\ r.stray = req[c].stray
  BY DEF SessionInv, TypeInv, TypeOK, Request
<1>4. At(c, "claim") /\ Presents(c) /\ t \in Tokens /\ Mirrors(c)
  BY DEF ClaimSession, At, Presents, SessionInv, TypeInv, Carries, Lineage
<1>5. /\ Kept
      /\ \A u \in Tokens : Standing(u)' => u # t
      /\ \A u \in Tokens : session'[u].status = "revoked" =>
           session[u].status = "revoked" \/ (u = t /\ Standing(t))
  BY <1>1, RevokeKeeps DEF SessionInv
<1>6. Mirrors(c)'
  BY <1>2, <1>3, <1>4, <1>5 DEF Mirrors, Kept
<1>7. req[c].family \in Tokens /\ session[req[c].family].status # "none"
  BY <1>4 DEF Mirrors, SessionInv, Lineage, TypeInv, Rooted
<1>8. Lineage'
  BY <1>1, <1>2, <1>3, <1>5, <1>6, <1>7, LineageKept DEF SessionInv, Lineage
<1>9. CASE Claimed(t)
  <2>1. p = "issue" /\ Standing(t) /\ req'[c].pc = "issue" /\ req'[c].family = session[t].family
    BY <1>2, <1>3, <1>4, <1>9 DEF Claimed, Mirrors
  <2>2. HandedOn'
    <3>1. \A u \in Tokens, f \in Tokens : (u \in Family(f))' => u \in Family(f)
      BY <1>5 DEF Kept, Family
    <3>2. \A u \in Tokens : Standing(u)' => Standing(u) /\ u # t
      BY <1>5 DEF Kept
    <3>3. \A d \in Clients, f \in Tokens : d # c /\ Coming(d, f)' => Coming(d, f)
      BY <1>2 DEF Bystanders, Coming, At
    <3>4. \A f \in Tokens : Coming(c, f)' => f = session[t].family /\ t \in Family(f)
      BY <1>4, <2>1 DEF Coming, Family, Mirrors
    <3>5. \A f \in Tokens : Family(f) \subseteq Tokens /\ Family(f)' \subseteq Tokens
      BY DEF Family
    <3>6. QED
      BY <1>4, <2>1, <3>1, <3>2, <3>3, <3>4, <3>5 DEF HandedOn, SessionInv
  <2>3. InFlight'
    <3>1. \/ req'[c].stray
          \/ req'[c].era = era /\ req'[c].family \notin closed \cup burnt
      BY <1>2, <1>3, <1>4, <2>1 DEF SessionInv, InFlight, OnlyInFlightEscapes, Mirrors
    <3>2. QED
      BY <1>1, <1>2, <1>5, <3>1, InFlightKept DEF SessionInv
  <2>4. Alarms'
    <3>1. ~Presents(c)' /\ ~At(c, "burn")'
      BY <2>1 DEF Presents, At
    <3>2. \A d \in Clients : Presents(d)' => d # c /\ Presents(d) /\ req'[d].token = req[d].token
      BY <1>2, <3>1 DEF Bystanders, Presents, At
    <3>3. sent[t] # 0 /\ \A d \in Clients : Presents(d)' /\ req'[d].token = t => sent[t] = 2
      BY <1>4, <3>2 DEF SessionInv, Alarms
    <3>4. QED
      BY <1>1, <1>2, <1>5, <3>1, <3>3, AlarmsKept DEF SessionInv
  <2>5. QED
    BY <1>8, <2>2, <2>3, <2>4 DEF SessionInv
<1>10. CASE ~Claimed(t)
  <2>1. p = "burn" /\ ~Standing(t) /\ req'[c].pc = "burn" /\ req'[c].token = t
    BY <1>2, <1>3, <1>10 DEF Claimed
  <2>2. session[t].status = "revoked"
    BY <1>4, <2>1 DEF Mirrors, Standing, SessionInv, TypeInv, TypeOK, SessionRow
  <2>3. ~At(c, "issue")' /\ ~Presents(c)'
    BY <2>1 DEF At, Presents
  <2>4. HandedOn'
    BY <1>2, <1>5, <2>3, HandedOnKept DEF SessionInv, Coming
  <2>5. InFlight'
    BY <1>1, <1>2, <1>5, <2>3, InFlightKept DEF SessionInv
  <2>6. sent[t] = 2 \/ Excused(t)
    BY <1>4, <2>2 DEF SessionInv, Alarms
  <2>7. sent[req'[c].token] = 2 \/ Excused(req[c].token)'
    BY <1>1, <1>4, <1>5, <2>1, <2>6 DEF Excused, Kept
  <2>8. Alarms'
    BY <1>1, <1>2, <1>5, <2>1, <2>3, <2>7, AlarmsKept DEF SessionInv
  <2>9. QED
    BY <1>8, <2>4, <2>5, <2>8 DEF SessionInv
<1>11. QED
  BY <1>9, <1>10

\* A token runs out.
LEMMA ExpireKeeps ==
    ASSUME SessionInv, TypeInv', NEW c \in Clients, NEW t \in Tokens, Expire(t)
    PROVE  SessionInv'
<1>1. req' = req /\ UNCHANGED <<era, closed, burnt, sent>>
  BY DEF Expire, history
<1>2. Bystanders(c)
  BY <1>1 DEF Bystanders
<1>3. Kept /\ \A u \in Tokens : session'[u].status = "revoked" => session[u].status = "revoked"
  <2>1. \A u \in Tokens : session[u] \in SessionRow
    BY DEF SessionInv, TypeInv, TypeOK
  <2>2. /\ \A u \in Tokens : u # t => session'[u] = session[u]
        /\ session'[t] = [session[t] EXCEPT !.status = "expired"] /\ session[t].status = "live"
    BY DEF Expire, SessionInv, TypeInv, TypeOK
  <2>3. QED
    BY <2>1, <2>2 DEF Kept, Standing, SessionRow
<1>4. Lineage'
  <2>1. (At(c, "claim") \/ At(c, "burn"))' => Mirrors(c)'
    <3>1. (At(c, "claim") \/ At(c, "burn"))' => Mirrors(c) /\ req[c].token \in Tokens
      BY <1>1 DEF SessionInv, Lineage, At, TypeInv, Carries
    <3>2. QED
      BY <1>1, <1>3, <3>1 DEF Mirrors, Kept
  <2>2. QED
    BY <1>1, <1>2, <1>3, <2>1, LineageKept DEF SessionInv, Lineage, At
<1>5. HandedOn'
  BY <1>1, <1>2, <1>3, HandedOnKept DEF SessionInv, Coming, At
<1>6. InFlight'
  BY <1>1, <1>2, <1>3, InFlightKept DEF SessionInv, InFlight, At
<1>7. Alarms'
  <2>1. At(c, "burn")' => sent[req'[c].token] = 2 \/ Excused(req[c].token)'
    BY <1>1, <1>3 DEF SessionInv, Alarms, Excused, Kept, At, TypeInv, Carries
  <2>2. QED
    BY <1>1, <1>2, <1>3, <2>1, AlarmsKept DEF SessionInv, Presents, At
<1>8. QED
  BY <1>4, <1>5, <1>6, <1>7 DEF SessionInv

\* Reuse is detected: the family is revoked, and who is to extend it is a stray.
LEMMA BurnKeeps ==
    ASSUME SessionInv, TypeInv', NEW c \in Clients, BurnFamily(c)
    PROVE  SessionInv'
<1> DEFINE t == req[c].token
           f == req[c].family
<1>1. /\ At(c, "burn") /\ session' = Revoke(Family(f)) /\ burnt' = burnt \cup {f}
      /\ req' = [Strays(Escaping(f)) EXCEPT ![c] = Idle]
      /\ UNCHANGED <<era, closed, sent>>
  BY DEF BurnFamily
<1>2. /\ Bystanders(c) /\ req'[c] = Idle
      /\ \A d \in Escaping(f) : d # c => req'[d].stray
  BY <1>1, OthersStray DEF SessionInv
<1>3. req'[c].pc = "idle"
  BY <1>2 DEF Idle
<1>4. t \in Tokens /\ f \in Tokens /\ Mirrors(c) /\ t \in Family(f)
  BY <1>1 DEF At, SessionInv, TypeInv, Carries, Lineage, Mirrors, Family
<1>5. /\ Kept
      /\ \A u \in Tokens : Standing(u)' => u \notin Family(f)
      /\ \A u \in Tokens : session'[u].status = "revoked" =>
           session[u].status = "revoked" \/ u \in Family(f)
  BY <1>1, RevokeKeeps DEF SessionInv
<1>6. ~At(c, "issue")' /\ ~At(c, "claim")' /\ ~At(c, "burn")' /\ ~Presents(c)'
  BY <1>3 DEF At, Presents
<1>7. Lineage'
  <2>1. session[f].status # "none"
    BY <1>4 DEF SessionInv, Lineage, Mirrors
  <2>2. QED
    BY <1>1, <1>2, <1>5, <1>6, <2>1, LineageKept DEF SessionInv, Lineage
<1>8. HandedOn'
  BY <1>2, <1>5, <1>6, HandedOnKept DEF SessionInv, Coming
<1>9. InFlight'
  <2>1. OnlyInFlightEscapes'
    <3>1. \A u \in Tokens : Standing(u)' =>
            /\ Standing(u) /\ session'[u].stray = session[u].stray
            /\ session'[u].era = session[u].era /\ session'[u].family = session[u].family
            /\ session[u].family # f
      BY <1>5 DEF Kept, Family, Standing
    <3>2. QED
      BY <1>1, <3>1 DEF SessionInv, InFlight, OnlyInFlightEscapes
  <2>2. \A d \in Clients : At(d, "issue")' =>
          req'[d].stray \/ (req'[d].era = era' /\ req'[d].family \notin closed' \cup burnt')
    <3>1. TAKE d \in Clients
    <3>2. HAVE At(d, "issue")'
    <3>3. d # c /\ At(d, "issue")
      BY <1>2, <1>6, <3>2 DEF Bystanders, At
    <3>4. CASE req[d].family = f
      BY <1>2, <3>3, <3>4 DEF Escaping
    <3>5. CASE req[d].family # f
      BY <1>1, <1>2, <3>3, <3>5 DEF SessionInv, InFlight, Bystanders
    <3>6. QED
      BY <3>4, <3>5
  <2>3. QED
    BY <2>1, <2>2 DEF InFlight
<1>10. Alarms'
  <2>1. \A d \in Clients : Presents(d)' => Presents(d) /\ req'[d].token = req[d].token
    BY <1>2, <1>6 DEF Bystanders, Presents, At
  <2>2. \A u \in Tokens : Excused(u) \/ u \in Family(f) => session'[u].family \in closed' \cup burnt'
    BY <1>1, <1>5 DEF Excused, Kept, Family
  <2>3. NoFalseAlarm'
    <3>1. \A g \in Tokens : Family(g) \subseteq Family(g)'
      BY <1>5 DEF Family, Kept
    <3>2. \E u \in Family(f) : sent[u] = 2 \/ f \in closed
      <4>1. sent[t] = 2 \/ f \in closed \cup burnt
        BY <1>1, <1>4 DEF SessionInv, Alarms, Excused, Mirrors
      <4>2. QED
        BY <1>4, <4>1 DEF SessionInv, Alarms, NoFalseAlarm
    <3>3. QED
      BY <1>1, <1>4, <3>1, <3>2 DEF SessionInv, Alarms, NoFalseAlarm, TypeInv, TypeOK
  <2>4. \A d \in Clients : At(d, "burn")' => sent'[req'[d].token] = 2 \/ Excused(req[d].token)'
    <3>1. \A d \in Clients : At(d, "burn")' =>
            At(d, "burn") /\ req'[d].token = req[d].token /\ req[d].token \in Tokens
      BY <1>2, <1>6 DEF Bystanders, At, SessionInv, TypeInv, Carries
    <3>2. QED
      BY <1>1, <2>2, <3>1 DEF SessionInv, Alarms, Excused
  <2>5. \A u \in Tokens : session'[u].status = "revoked" /\ ~Excused(u)' =>
          /\ sent'[u] # 0
          /\ \A d \in Clients : Presents(d)' /\ req'[d].token = u => sent'[u] = 2
    BY <1>1, <1>5, <2>1, <2>2 DEF SessionInv, Alarms, Excused
  <2>6. QED
    BY <1>1, <2>1, <2>3, <2>4, <2>5 DEF SessionInv, Alarms
<1>11. QED
  BY <1>7, <1>8, <1>9, <1>10 DEF SessionInv

\* A logout on one device ends its family.
LEMMA EndKeeps ==
    ASSUME SessionInv, TypeInv', NEW c \in Clients, EndSession(c)
    PROVE  SessionInv'
<1> DEFINE t == req[c].token
           r == [req[c] EXCEPT !.pc = "answer", !.token = None]
<1>1. /\ session' = Revoke({t}) /\ UNCHANGED <<era, burnt, sent>>
      /\ closed' = IF t # None /\ Standing(t) THEN closed \cup {session[t].family} ELSE closed
      /\ req' = [req EXCEPT ![c] = r]
  BY DEF EndSession, SessionInv, TypeInv, TypeOK
<1>2. Bystanders(c) /\ req'[c] = r
  BY <1>1, OthersStay DEF SessionInv
<1>3. req'[c].pc = "answer"
  BY <1>2 DEF SessionInv, TypeInv, TypeOK, Request
<1>4. ~At(c, "issue")' /\ ~At(c, "claim")' /\ ~At(c, "burn")' /\ ~Presents(c)'
  BY <1>3 DEF At, Presents
<1>5. /\ Kept
      /\ \A u \in Tokens : Standing(u)' => u # t
      /\ \A u \in Tokens : session'[u].status = "revoked" =>
           session[u].status = "revoked" \/ (u = t /\ Standing(t))
  BY <1>1, RevokeKeeps DEF SessionInv
<1>6. t # None /\ Standing(t) => /\ t \in Tokens /\ session[t].family \in Tokens
                                 /\ session[session[t].family].status # "none"
                                 /\ t \in Family(session[t].family)
  BY DEF SessionInv, Lineage, TypeInv, TypeOK, Request, Standing, Rooted, Family
<1>7. Lineage'
  BY <1>1, <1>2, <1>4, <1>5, <1>6, LineageKept DEF SessionInv, Lineage
<1>8. HandedOn'
  BY <1>2, <1>4, <1>5, HandedOnKept DEF SessionInv, Coming
<1>9. InFlight'
  <2>1. CASE t # None /\ Standing(t)
    <3> DEFINE f == session[t].family
    <3>1. closed' = closed \cup {f} /\ t \in Family(f) /\ f \in Tokens /\ f # None
      BY <1>1, <1>6, <2>1, SessionsConstants
    <3>2. OnlyInFlightEscapes'
      <4>1. ASSUME NEW u \in Tokens, Standing(u)'
            PROVE  /\ Standing(u) /\ session'[u].stray = session[u].stray
                   /\ session'[u].era = session[u].era /\ session'[u].family = session[u].family
                   /\ session[u].family # f
        <5>1. Standing(u) /\ u # t
          BY <1>5, <4>1 DEF Kept
        <5>2. u \notin Family(f)
          BY <2>1, <3>1, <5>1 DEF SessionInv, HandedOn
        <5>3. QED
          BY <1>5, <5>1, <5>2 DEF Kept, Family, Standing
      <4>2. QED
        BY <1>1, <3>1, <4>1 DEF SessionInv, InFlight, OnlyInFlightEscapes
    <3>3. \A d \in Clients : At(d, "issue")' => /\ At(d, "issue") /\ req[d].family # f
                                                /\ req'[d].family = req[d].family
                                                /\ req'[d].era = req[d].era
                                                /\ req[d].stray => req'[d].stray
      BY <1>2, <1>4, <2>1, <3>1 DEF SessionInv, HandedOn, Coming, Bystanders, At
    <3>4. QED
      BY <1>1, <3>1, <3>2, <3>3 DEF SessionInv, InFlight
  <2>2. CASE ~(t # None /\ Standing(t))
    BY <1>1, <1>2, <1>4, <1>5, <2>2, InFlightKept DEF SessionInv
  <2>3. QED
    BY <2>1, <2>2
<1>10. Alarms'
  <2>1. \A u \in Tokens : u = t /\ Standing(t) => Excused(u)'
    <3>1. \A u \in Tokens : u # None
      BY SessionsConstants
    <3>2. QED
      BY <1>1, <1>5, <3>1 DEF Excused, Kept
  <2>2. \A u \in Tokens : session'[u].status = "revoked" =>
             \/ session[u].status = "revoked"
             \/ Excused(u)'
    BY <1>5, <2>1
  <2>3. QED
    BY <1>1, <1>2, <1>4, <1>5, <2>2, AlarmsKept DEF SessionInv
<1>11. QED
  BY <1>7, <1>8, <1>9, <1>10 DEF SessionInv

\* Everything is revoked: no session stands, every one to come is a stray.
LEMMA AllRevoked ==
    ASSUME SessionInv, TypeInv', NEW c \in Clients, NEW r, r.pc \notin Active,
           session' = RevokeAll, era' = era + 1, closed' = closed \cup Opened,
           UNCHANGED <<burnt, sent>>, req' = [Strays(Escaping(None)) EXCEPT ![c] = r]
    PROVE  SessionInv'
<1>1. /\ Kept
      /\ \A u \in Tokens : Standing(u)' => u \notin Tokens
      /\ \A u \in Tokens : session'[u].status = "revoked" =>
           session[u].status = "revoked" \/ Standing(u)
  BY RevokeKeeps DEF SessionInv, RevokeAll
<1>2. /\ Bystanders(c) /\ req'[c] = r
      /\ \A d \in Escaping(None) : d # c => req'[d].stray
  BY OthersStray DEF SessionInv
<1>3. ~At(c, "issue")' /\ ~At(c, "claim")' /\ ~At(c, "burn")' /\ ~Presents(c)'
  BY <1>2 DEF At, Presents, Active
<1>4. \A u \in Tokens : session[u].status # "none" => session[u].family \in Opened
  BY DEF Opened
<1>5. Lineage'
  <2>1. \A f \in Opened : session[f].status # "none"
    BY DEF SessionInv, Lineage, Opened
  <2>2. QED
    BY <1>1, <1>2, <1>3, <2>1, LineageKept DEF SessionInv, Lineage
<1>6. HandedOn'
  BY <1>1, <1>2, <1>3, HandedOnKept DEF SessionInv, Coming
<1>7. InFlight'
  <2>1. OnlyInFlightEscapes'
    BY <1>1 DEF OnlyInFlightEscapes
  <2>2. \A d \in Clients : At(d, "issue")' => d # c /\ d \in Escaping(None)
    BY <1>2, <1>3 DEF Bystanders, At, Escaping
  <2>3. QED
    BY <1>2, <2>1, <2>2 DEF InFlight
<1>8. Alarms'
  <2>1. \A u \in Tokens : session'[u].status = "revoked" =>
             \/ session[u].status = "revoked"
             \/ Excused(u)'
    BY <1>1, <1>4 DEF Excused, Kept, Standing
  <2>2. QED
    BY <1>1, <1>2, <1>3, <2>1, AlarmsKept DEF SessionInv
<1>9. QED
  BY <1>5, <1>6, <1>7, <1>8 DEF SessionInv

\* The new session takes over its family, or opens one.
LEMMA IssueKeeps ==
    ASSUME SessionInv, TypeInv', NEW c \in Clients, IssueTokens(c)
    PROVE  SessionInv'
<1>1. PICK t \in Tokens :
        /\ At(c, "issue") /\ session[t].status = "none"
        /\ session' = [session EXCEPT ![t] =
             [status |-> "live", family |-> FamilyOf(c, t), era |-> req[c].era,
              stray |-> req[c].stray]]
        /\ req' = [req EXCEPT ![c].pc = "answer", ![c].token = t]
  BY DEF IssueTokens
<1> DEFINE g == FamilyOf(c, t)
           r == [req[c] EXCEPT !.pc = "answer", !.token = t]
<1>2. UNCHANGED <<era, closed, burnt, sent>>
  BY DEF IssueTokens, history
<1>3. Bystanders(c) /\ req'[c] = r
  <2>1. req' = [req EXCEPT ![c] = r]
    BY <1>1 DEF SessionInv, TypeInv, TypeOK
  <2>2. QED
    BY <2>1, OthersStay DEF SessionInv
<1>4. ~At(c, "issue")' /\ ~At(c, "claim")' /\ ~At(c, "burn")' /\ ~Presents(c)'
  <2>1. r.pc = "answer"
    BY DEF SessionInv, TypeInv, TypeOK, Request
  <2>2. QED
    BY <1>3, <2>1 DEF At, Presents
<1>5. /\ \A u \in Tokens : u # t => session'[u] = session[u] /\ Standing(u)' = Standing(u)
      /\ session'[t].status = "live" /\ session'[t].family = g
      /\ session'[t].era = req[c].era /\ session'[t].stray = req[c].stray
  BY <1>1 DEF SessionInv, TypeInv, TypeOK, Standing
<1>6. /\ g \in Tokens
      /\ g = t \/ (Coming(c, g) /\ session[g].status # "none" /\ req[c].family = g)
      /\ g = t => req[c].family = None
  <2>1. CASE req[c].family = None
    BY <2>1 DEF FamilyOf
  <2>2. CASE req[c].family # None
    BY <1>1, <2>2 DEF FamilyOf, Coming, SessionInv, Lineage, TypeInv, TypeOK, Request
  <2>3. QED
    BY <2>1, <2>2
<1>7. \A u \in Tokens : session[u].status # "none" => session[u].family # t /\ u # t
  BY <1>1 DEF SessionInv, Lineage
<1>8. t \notin closed \cup burnt
  BY <1>1 DEF SessionInv, Lineage
<1>9. Lineage'
  <2>1. \A u \in Tokens : session'[u].status # "none" => session'[session'[u].family].status # "none"
    BY <1>5, <1>6, <1>7 DEF SessionInv, Lineage, TypeInv, Rooted
  <2>2. \A f \in closed' \cup burnt' : session'[f].status # "none"
    BY <1>2, <1>5, <1>8 DEF SessionInv, Lineage, TypeInv, TypeOK
  <2>3. \A d \in Clients : (At(d, "claim") \/ At(d, "burn"))' => Mirrors(d)'
    <3>1. TAKE d \in Clients
    <3>2. HAVE (At(d, "claim") \/ At(d, "burn"))'
    <3>3. d # c /\ (At(d, "claim") \/ At(d, "burn")) /\ ~At(d, "issue")
      BY <1>3, <1>4, <3>2 DEF Bystanders, At
    <3>4. Mirrors(d) /\ req[d].token \in Tokens /\ req[d].token # t
      BY <1>1, <3>3 DEF SessionInv, Lineage, Mirrors, TypeInv, Carries, At
    <3>5. QED
      BY <1>3, <1>5, <3>3, <3>4 DEF Bystanders, Mirrors
  <2>4. \A d \in Clients : At(d, "issue")' /\ req'[d].family # None =>
          session'[req'[d].family].status # "none"
    <3>1. \A d \in Clients : At(d, "issue")' =>
            At(d, "issue") /\ req'[d].family = req[d].family
      BY <1>3, <1>4 DEF Bystanders, At
    <3>2. \A d \in Clients : req[d].family \in Tokens \cup {None}
      BY DEF SessionInv, TypeInv, TypeOK, Request
    <3>3. \A d \in Clients : At(d, "issue")' /\ req'[d].family # None =>
            req'[d].family \in Tokens /\ session[req'[d].family].status # "none"
      BY <3>1, <3>2 DEF SessionInv, Lineage
    <3>4. QED
      BY <1>5, <3>3
  <2>5. QED
    BY <2>1, <2>2, <2>3, <2>4 DEF Lineage
<1>10. HandedOn'
  <2>1. \A d \in Clients, f \in Tokens : Coming(d, f)' => d # c /\ Coming(d, f) /\ f # t
    <3>1. \A d \in Clients, f \in Tokens : Coming(d, f)' => d # c /\ Coming(d, f)
      BY <1>3, <1>4 DEF Bystanders, Coming, At
    <3>2. \A d \in Clients, f \in Tokens : Coming(d, f) => f # t
      BY <1>1 DEF Coming, SessionInv, Lineage
    <3>3. QED
      BY <3>1, <3>2
  <2>2. \A u \in Tokens, f \in Tokens : (u \in Family(f))' =>
          (u = t /\ f = g) \/ (u # t /\ f # t /\ u \in Family(f))
    BY <1>5, <1>7 DEF Family
  <2>3. \A u \in Tokens : u # t /\ Standing(u)' => Standing(u)
    BY <1>5
  <2>4. \A u \in Family(g) : g # t => ~Standing(u)
    BY <1>6 DEF SessionInv, HandedOn
  <2>5. \A d \in Clients : d # c => ~Coming(d, g)
    <3>1. g = t => \A d \in Clients : ~Coming(d, g)
      BY <1>1 DEF Coming, SessionInv, Lineage
    <3>2. QED
      BY <1>6, <3>1 DEF SessionInv, HandedOn
  <2>6. \A f \in Tokens : Family(f)' \subseteq Tokens
    BY DEF Family
  <2>7. ASSUME NEW f \in Tokens, NEW u \in Family(f)', NEW v \in Family(f)', Standing(u)', Standing(v)'
        PROVE  u = v
    BY <2>2, <2>3, <2>4, <2>6, <2>7 DEF SessionInv, HandedOn
  <2>8. ASSUME NEW f \in Tokens, NEW u \in Family(f)', NEW d \in Clients, Standing(u)', Coming(d, f)'
        PROVE  FALSE
    BY <2>1, <2>2, <2>3, <2>5, <2>6, <2>8 DEF SessionInv, HandedOn
  <2>9. \A f \in Tokens, d, e \in Clients : Coming(d, f)' /\ Coming(e, f)' => d = e
    BY <2>1 DEF SessionInv, HandedOn
  <2>10. QED
    BY <2>7, <2>8, <2>9 DEF HandedOn
<1>11. InFlight'
  <2>1. req[c].stray \/ (req[c].era = era /\ g \notin closed \cup burnt)
    BY <1>1, <1>6, <1>8 DEF SessionInv, InFlight
  <2>2. OnlyInFlightEscapes'
    BY <1>2, <1>5, <2>1 DEF SessionInv, InFlight, OnlyInFlightEscapes
  <2>3. \A d \in Clients : At(d, "issue")' =>
           \/ req'[d].stray
           \/ req'[d].era = era /\ req'[d].family \notin closed \cup burnt
    BY <1>3, <1>4 DEF SessionInv, InFlight, Bystanders, At
  <2>4. QED
    BY <1>2, <2>2, <2>3 DEF InFlight
<1>12. Alarms'
  <2>1. \A d \in Clients : Presents(d)' => Presents(d) /\ req'[d].token = req[d].token
    BY <1>3, <1>4 DEF Bystanders, Presents, At
  <2>2. NoFalseAlarm'
    <3>1. \A f \in burnt : Family(f) \subseteq Family(f)'
      BY <1>1, <1>5 DEF Family
    <3>2. QED
      BY <1>2, <3>1 DEF SessionInv, Alarms, NoFalseAlarm
  <2>3. \A d \in Clients : At(d, "burn")' => sent'[req'[d].token] = 2 \/ Excused(req[d].token)'
    <3>1. \A d \in Clients : At(d, "burn")' =>
            /\ At(d, "burn") /\ req'[d].token = req[d].token
            /\ req[d].token \in Tokens /\ req[d].token # t
      BY <1>1, <1>3, <1>4, ZenonT(60) DEF Bystanders, At, SessionInv, Lineage, Mirrors, TypeInv, Carries
    <3>2. QED
      BY <1>2, <1>5, <3>1 DEF SessionInv, Alarms, Excused
  <2>4. \A u \in Tokens : session'[u].status = "revoked" /\ ~Excused(u)' =>
          /\ sent'[u] # 0
          /\ \A d \in Clients : Presents(d)' /\ req'[d].token = u => sent'[u] = 2
    <3>1. \A u \in Tokens : session'[u].status = "revoked" => session'[u] = session[u]
      BY <1>5
    <3>2. QED
      BY <1>2, <2>1, <3>1 DEF SessionInv, Alarms, Excused
  <2>5. QED
    BY <1>2, <2>1, <2>2, <2>3, <2>4 DEF SessionInv, Alarms
<1>13. QED
  BY <1>9, <1>10, <1>11, <1>12 DEF SessionInv

\* A request that only moves on, presenting and creating nothing.
LEMMA PassivePasses ==
    ASSUME SessionInv, TypeInv', NEW c \in Clients, NEW r, r.pc \notin Active,
           req' = [req EXCEPT ![c] = r],
           session' = session, UNCHANGED <<era, closed, burnt, sent>>
    PROVE  SessionInv'
BY OthersStay, Passive DEF SessionInv

\* A request that ends.
LEMMA IdlePasses ==
    ASSUME SessionInv, TypeInv', NEW c \in Clients, req' = [req EXCEPT ![c] = Idle],
           session' = session, UNCHANGED <<era, closed, burnt, sent>>
    PROVE  SessionInv'
<1>1. Idle.pc \notin Active
  BY DEF Idle, Active
<1>2. QED
  BY <1>1, PassivePasses

\* Requesting a link and resetting the password.
LEMMA RecoveryKeeps ==
    ASSUME SessionInv, TypeInv', NEW c \in Clients, Recovery(c)
    PROVE  SessionInv'
<1>1. \A p \in {"mail", "unlink"} : Go(c, p) => req' = [req EXCEPT ![c] = [req[c] EXCEPT !.pc = p]]
                                                /\ [req[c] EXCEPT !.pc = p].pc \notin Active
  BY DEF Go, Active, SessionInv, TypeInv, TypeOK, Request
<1>2. CASE Forgot(c) \/ MintLink(c) \/ Mail(c) \/ Unlink(c) \/ Reset(c)
  <2>1. session' = session /\ UNCHANGED <<era, closed, burnt, sent>>
    BY <1>2 DEF Forgot, MintLink, Mail, Unlink, Reset, rows, history
  <2>2. \E r : req' = [req EXCEPT ![c] = r] /\ r.pc \notin Active
    <3>1. CASE Forgot(c)
      <4>1. [Idle EXCEPT !.pc = "mint"].pc \notin Active
        BY DEF Idle, Active
      <4>2. QED
        BY <3>1, <4>1 DEF Forgot, Start
    <3>2. CASE MintLink(c)
      BY <1>1, <3>2 DEF MintLink
    <3>3. CASE Mail(c) \/ Unlink(c)
      <4>1. Idle.pc \notin Active
        BY DEF Idle, Active
      <4>2. Done(c) \/ Go(c, "unlink")
        BY <3>3 DEF Mail, Unlink
      <4>3. QED
        BY <1>1, <4>1, <4>2 DEF Done
    <3>4. CASE Reset(c)
      <4>1. PICK l \in Links : req' = [req EXCEPT ![c] = [Idle EXCEPT !.pc = "resetting", !.link = l]]
        BY <3>4 DEF Reset, Start
      <4>2. [Idle EXCEPT !.pc = "resetting", !.link = l].pc \notin Active
        BY DEF Idle, Active
      <4>3. QED
        BY <4>1, <4>2
    <3>5. QED
      BY <1>2, <3>1, <3>2, <3>3, <3>4
  <2>3. QED
    BY <2>1, <2>2, PassivePasses
<1>3. CASE ResetPassword(c)
  <2>1. CASE LinkClaimed(req[c].link)
    <3>1. Idle.pc \notin Active
      BY DEF Idle, Active
    <3>2. QED
      BY <1>3, <2>1, <3>1, AllRevoked DEF ResetPassword
  <2>2. CASE ~LinkClaimed(req[c].link)
    BY <1>3, <2>2, IdlePasses DEF ResetPassword, Done, rows
  <2>3. QED
    BY <2>1, <2>2
<1>4. QED
  BY <1>2, <1>3 DEF Recovery

\* Without a client only tokens run out.
LEMMA NoClients ==
    ASSUME SessionInv, TypeInv', Clients = {}, NEW t \in Tokens, Expire(t)
    PROVE  SessionInv'
<1>1. UNCHANGED <<era, closed, burnt, sent>>
  BY DEF Expire, history
<1>2. /\ \A u \in Tokens : u # t => session'[u] = session[u]
      /\ session'[t].family = session[t].family /\ session'[t].era = session[t].era
      /\ session'[t].stray = session[t].stray
      /\ session'[t].status = "expired" /\ session[t].status = "live"
  BY DEF Expire, SessionInv, TypeInv, TypeOK, SessionRow
<1>3. \A u \in Tokens : Standing(u)' = Standing(u) /\ Excused(u)' = Excused(u)
  BY <1>1, <1>2 DEF Standing, Excused
<1>4. \A f \in Tokens : Family(f)' = Family(f)
  BY <1>2 DEF Family
<1>5. Lineage'
  BY <1>1, <1>2 DEF SessionInv, Lineage, TypeInv, TypeOK, Rooted
<1>6. HandedOn'
  BY <1>3, <1>4 DEF SessionInv, HandedOn, Family
<1>7. InFlight'
  BY <1>1, <1>2, <1>3 DEF SessionInv, InFlight, OnlyInFlightEscapes
<1>8. Alarms'
  BY <1>1, <1>2, <1>3, <1>4 DEF SessionInv, Alarms, NoFalseAlarm, TypeInv, TypeOK
<1>9. QED
  BY <1>5, <1>6, <1>7, <1>8 DEF SessionInv

\* Every step keeps the invariant.
LEMMA StepSessions ==
    ASSUME SessionInv, [Next]_vars
    PROVE  SessionInv'
<1>1. TypeInv'
  BY StepTypes DEF SessionInv
<1>2. ASSUME NEW c \in Clients, Login(c) \/ Rotation(c) \/ Fail(c)
      PROVE  SessionInv'
  <2>1. CASE Login(c)
    BY <1>1, <2>1, LoginKeeps
  <2>2. CASE Refresh(c)
    BY <1>1, <2>2, RefreshKeeps
  <2>3. CASE ReadSession(c)
    BY <1>1, <2>3, ReadKeeps
  <2>4. CASE ClaimSession(c)
    BY <1>1, <2>4, ClaimKeeps
  <2>5. CASE BurnFamily(c)
    BY <1>1, <2>5, BurnKeeps
  <2>6. CASE IssueTokens(c)
    BY <1>1, <2>6, IssueKeeps
  <2>7. CASE Answer(c) \/ LoseAnswer(c) \/ Fail(c)
    <3>1. req' = [req EXCEPT ![c] = Idle] /\ session' = session
          /\ UNCHANGED <<era, closed, burnt, sent>>
      BY <2>7 DEF Answer, LoseAnswer, Fail, Done, rows, history
    <3>2. QED
      BY <1>1, <3>1, IdlePasses
  <2>8. QED
    BY <1>2, <2>1, <2>2, <2>3, <2>4, <2>5, <2>6, <2>7 DEF Rotation
<1>3. ASSUME NEW c \in Clients, Leaving(c)
      PROVE  SessionInv'
  <2>1. CASE Logout(c)
    <3>1. PICK d \in Devices :
            Start(c, "logout", [Idle EXCEPT !.pc = "logout", !.device = d, !.token = cookie[d]])
      BY <2>1 DEF Logout
    <3>2. [Idle EXCEPT !.pc = "logout", !.device = d, !.token = cookie[d]].pc \notin Active
      BY DEF Idle, Active
    <3>3. session' = session /\ UNCHANGED <<era, closed, burnt, sent>>
      BY <2>1 DEF Logout, rows, history
    <3>4. QED
      BY <1>1, <3>1, <3>2, <3>3, PassivePasses DEF Start
  <2>2. CASE EndSession(c)
    BY <1>1, <2>2, EndKeeps
  <2>3. CASE LogoutAll(c)
    <3>1. PICK d \in Devices :
            req' = [Strays(Escaping(None)) EXCEPT ![c] = [Idle EXCEPT !.pc = "answer", !.device = d]]
      BY <2>3 DEF LogoutAll
    <3>2. [Idle EXCEPT !.pc = "answer", !.device = d].pc \notin Active
      BY DEF Idle, Active
    <3>3. QED
      BY <1>1, <2>3, <3>1, <3>2, AllRevoked DEF LogoutAll
  <2>4. QED
    BY <1>3, <2>1, <2>2, <2>3 DEF Leaving
<1>4. ASSUME NEW c \in Clients, Recovery(c)
      PROVE  SessionInv'
  BY <1>1, <1>4, RecoveryKeeps
<1>5. ASSUME NEW t \in Tokens, Expire(t)
      PROVE  SessionInv'
  BY <1>1, <1>5, ExpireKeeps, NoClients
<1>6. CASE UNCHANGED vars
  BY <1>1, <1>6 DEF vars, rows, history, SessionInv, Lineage, Mirrors, HandedOn, Family,
     Coming, InFlight, OnlyInFlightEscapes, Alarms, NoFalseAlarm, Presents, Excused, Standing, At
<1>7. QED
  BY <1>2, <1>3, <1>4, <1>5, <1>6 DEF Next

\* The first state: no session, no request.
LEMMA InitSessions ==
    ASSUME Init
    PROVE  SessionInv
<1>1. TypeInv
  BY InitTypes
<1>2. /\ \A t \in Tokens : session[t].status = "none" /\ ~Standing(t)
      /\ \A c \in Clients, p \in Active : ~At(c, p)
      /\ burnt = {} /\ closed = {}
  BY DEF Init, NoSession, Idle, Active, At, Standing
<1>3. \A c \in Clients : ~At(c, "issue") /\ ~At(c, "claim") /\ ~At(c, "burn") /\ ~Presents(c)
  BY <1>2 DEF Active, Presents
<1>4. Lineage
  BY <1>2, <1>3 DEF Lineage
<1>5. HandedOn
  BY <1>2, <1>3 DEF HandedOn, Coming, Family
<1>6. InFlight
  BY <1>2, <1>3 DEF InFlight, OnlyInFlightEscapes
<1>7. Alarms
  BY <1>2, <1>3 DEF Alarms, NoFalseAlarm
<1>8. QED
  BY <1>1, <1>4, <1>5, <1>6, <1>7 DEF SessionInv

\* The inductive invariant of the sessions.
THEOREM SessionsInvariant == Spec => []SessionInv
<1>1. Init => SessionInv
  BY InitSessions
<1>2. SessionInv /\ [Next]_vars => SessionInv'
  BY StepSessions
<1>3. QED
  BY <1>1, <1>2, PTL DEF Spec

\* A family never has two sessions that stand, nor one beside one to come: refresh
\* revokes with a conditional update before it issues (identity.service.ts).
THEOREM FamiliesHandedOn == Spec => []HandedOn
<1>1. SessionInv => HandedOn
  BY DEF SessionInv
<1>2. QED
  BY <1>1, SessionsInvariant, PTL

\* Revocation is final but for requests between their claim and their insert.
THEOREM RevocationIsFinal == Spec => []OnlyInFlightEscapes
<1>1. SessionInv => OnlyInFlightEscapes
  BY DEF SessionInv, InFlight
<1>2. QED
  BY <1>1, SessionsInvariant, PTL

\* Reuse is raised only for a token presented twice, or of a family that ended.
THEOREM AlarmsAreJustified == Spec => []NoFalseAlarm
<1>1. SessionInv => NoFalseAlarm
  BY DEF SessionInv, Alarms
<1>2. QED
  BY <1>1, SessionsInvariant, PTL

-----------------------------------------------------------------------------
(* Password resets *)

\* A link that works was requested since the last reset.
LinksFresh == \A l \in Links : link[l].status = "usable" => link[l].born = resets

\* Links marked used leave none that works.
LEMMA NoneUsable ==
    ASSUME TypeInv, NEW l, link' = LinksUsed(l)
    PROVE  \A k \in Links : link'[k].status # "usable"
BY DEF LinksUsed, TypeInv, TypeOK, LinkRow

\* Every step keeps the links fresh.
LEMMA StepLinks ==
    ASSUME TypeInv, LinksFresh, [Next]_vars
    PROVE  LinksFresh'
<1>1. CASE UNCHANGED <<link, resets>>
  BY <1>1 DEF LinksFresh
<1>2. ASSUME NEW c \in Clients, Forgot(c) \/ Unlink(c) \/ (ResetPassword(c) /\ LinkClaimed(req[c].link))
      PROVE  LinksFresh'
  BY <1>2, NoneUsable DEF Forgot, Unlink, ResetPassword, LinksFresh
<1>3. ASSUME NEW c \in Clients, MintLink(c)
      PROVE  LinksFresh'
  <2>1. PICK l \in Links : link' = [link EXCEPT ![l] = [status |-> "usable", born |-> resets]]
    BY <1>3 DEF MintLink
  <2>2. resets' = resets /\ link \in [Links -> LinkRow]
    BY <1>3 DEF MintLink, history, TypeInv, TypeOK
  <2>3. QED
    BY <2>1, <2>2 DEF LinksFresh
<1>4. ASSUME NEW c \in Clients, Login(c) \/ Rotation(c) \/ Leaving(c) \/ Mail(c) \/ Reset(c) \/ Fail(c)
                                \/ (ResetPassword(c) /\ ~LinkClaimed(req[c].link))
      PROVE  UNCHANGED <<link, resets>>
  BY <1>4 DEF Login, Rotation, Refresh, ReadSession, ClaimSession, BurnFamily, IssueTokens, Answer,
     LoseAnswer, Leaving, Logout, EndSession, LogoutAll, Mail, Reset, Fail, ResetPassword, rows, history
<1>5. ASSUME NEW t \in Tokens, Expire(t)
      PROVE  UNCHANGED <<link, resets>>
  BY <1>5 DEF Expire, history
<1>6. CASE UNCHANGED vars
  BY <1>1, <1>6 DEF vars, rows, history
<1>7. QED
  BY <1>1, <1>2, <1>3, <1>4, <1>5, <1>6 DEF Next, Recovery

\* Only a claimed link resets, and a claimed link is fresh.
LEMMA ResetsAreFresh ==
    ASSUME TypeInv, LinksFresh, Next, resets' # resets
    PROVE  \E c \in Clients : At(c, "resetting") /\ req'[c] = Idle
                              /\ link[req[c].link].born = resets
<1>1. PICK c \in Clients : ResetPassword(c) /\ LinkClaimed(req[c].link)
  <2>1. ASSUME NEW d \in Clients, Login(d) \/ Rotation(d) \/ Leaving(d) \/ Fail(d)
                                  \/ Forgot(d) \/ MintLink(d) \/ Mail(d) \/ Unlink(d) \/ Reset(d)
                                  \/ (ResetPassword(d) /\ ~LinkClaimed(req[d].link))
        PROVE  FALSE
    BY <2>1 DEF Login, Rotation, Refresh, ReadSession, ClaimSession, BurnFamily, IssueTokens, Answer,
       LoseAnswer, Leaving, Logout, EndSession, LogoutAll, Forgot, MintLink, Mail, Unlink, Reset,
       Fail, ResetPassword, rows, history
  <2>2. ASSUME NEW t \in Tokens, Expire(t)
        PROVE  FALSE
    BY <2>2 DEF Expire, history
  <2>3. QED
    BY <2>1, <2>2 DEF Next, Recovery
<1>2. req[c].link \in Links /\ At(c, "resetting")
  BY <1>1 DEF ResetPassword, At, TypeInv, Carries
<1>3. req'[c] = Idle
  BY <1>1 DEF ResetPassword, Strays
<1>4. link[req[c].link].born = resets
  BY <1>1, <1>2 DEF LinkClaimed, LinksFresh
<1>5. QED
  BY <1>2, <1>3, <1>4

\* No link works twice, and none sent before a reset works after it.
THEOREM ResetsTakeFreshLinks == Spec => ResetByFreshLink
<1>1. Init => TypeInv /\ LinksFresh
  BY InitTypes DEF Init, LinksFresh
<1>2. TypeInv /\ LinksFresh /\ [Next]_vars => (TypeInv /\ LinksFresh)'
  BY StepTypes, StepLinks
<1>3. TypeInv /\ LinksFresh /\ [Next]_vars =>
        [resets' # resets =>
           \E c \in Clients : At(c, "resetting") /\ req'[c] = Idle
                              /\ link[req[c].link].born = resets]_vars
  BY ResetsAreFresh
<1>4. QED
  BY <1>1, <1>2, <1>3, PTL DEF Spec, ResetByFreshLink
=============================================================================
