----------------------- MODULE TaskDependencies_proofs ----------------------
(* Type correctness of TaskDependencies, the shape of the relation rows, the *)
(* refinement of the acyclic DependencyGraph by the relation handlers, and    *)
(* the gate in front of the completion of a task.                             *)
EXTENDS TaskDependencies, FiniteSetTheorems, TLAPS

-----------------------------------------------------------------------------
(* Types *)

\* An order of a set of tasks is a sequence of tasks.
LEMMA OrderingsType ==
    ASSUME NEW S \in SUBSET Tasks, NEW q \in Orderings(S)
    PROVE  q \in Seq(Tasks)
<1>1. IsFiniteSet(S)
  BY FS_Subset, ConstantsOK
<1>2. Cardinality(S) \in Nat
  BY <1>1, FS_CardinalityType
<1>3. q \in [1 .. Cardinality(S) -> S]
  BY DEF Orderings
<1>4. q \in Seq(S)
  BY <1>2, <1>3
<1>5. QED
  BY <1>4

\* A request inside TaskRelationsService.create is a relation request.
RelationRequests ==
    [pc : RelationPC, src : Tasks, dst : Tasks, kind : {"BLOCKS", "RELATES_TO"}]
MoveRequests ==
    [pc : {"moving"}, bulk : BOOLEAN, seen : UNION {[S -> Columns] : S \in SUBSET Tasks},
     seenDone : SUBSET Columns, to : Columns, stamp : SUBSET Tasks, gate : Seq(Tasks)]

\* Which record a request is follows from where it stands.
LEMMA RequestKinds ==
    ASSUME NEW r \in Requests
    PROVE  /\ r.pc \in RelationPC => r \in RelationRequests
           /\ r.pc = "moving" => r \in MoveRequests
           /\ r.pc = "landed" => r \in [pc : {"landed"}, due : SUBSET Tasks]
           /\ r.pc = "purging" => r \in [pc : {"purging"}, task : Tasks]
           /\ r.pc = "idle" => r = Idle
           /\ r.pc \in RelationPC \cup {"idle", "moving", "landed", "purging"}
BY DEF Requests, RelationPC, Idle, RelationRequests, MoveRequests

\* The records the handlers build are requests.
LEMMA RequestsHold ==
    /\ Idle \in Requests
    /\ RelationRequests \subseteq Requests
    /\ MoveRequests \subseteq Requests
    /\ [pc : {"landed"}, due : SUBSET Tasks] \subseteq Requests
    /\ [pc : {"purging"}, task : Tasks] \subseteq Requests
BY DEF Requests, RelationRequests, MoveRequests

dbTypes ==
    /\ status \in [Tasks -> {"absent", "live", "trashed", "purged"}]
    /\ col \in [Tasks -> Columns]
    /\ completedAt \in [Tasks -> BOOLEAN]
    /\ dod \in [Tasks -> {"none", "met", "pending"}]
    /\ doneCols \in SUBSET Columns
    /\ blocks \in SUBSET (Tasks \X Tasks)
    /\ relates \in SUBSET (SUBSET Tasks)

ctlTypes ==
    /\ advisory \in Clients \cup {NoOne}
    /\ rowLock \in [Tasks -> Clients \cup {NoOne}]
    /\ req \in [Clients -> Requests]

\* A rollback keeps the types.
LEMMA FailTypes ==
    ASSUME TypeOK, NEW c \in Clients, Fail(c)
    PROVE  dbTypes' /\ ctlTypes'
<1>1. dbTypes'
  BY DEF Fail, TypeOK, dbTypes, db
<1>2. req' \in [Clients -> Requests]
  BY RequestsHold DEF Fail, Go, TypeOK
<1>3. advisory' \in Clients \cup {NoOne} /\ rowLock' \in [Tasks -> Clients \cup {NoOne}]
  BY DEF Fail, Release, TypeOK
<1>4. QED
  BY <1>1, <1>2, <1>3 DEF ctlTypes

\* So does a step that only advances the request.
LEMMA GotoTypes ==
    ASSUME TypeOK, NEW c \in Clients, req[c].pc \in RelationPC,
           NEW p \in RelationPC, Goto(c, p)
    PROVE  /\ req' \in [Clients -> Requests]
           /\ req'[c] = [req[c] EXCEPT !.pc = p]
           /\ \A d \in Clients : d # c => req'[d] = req[d]
<1>1. req[c] \in RelationRequests
  BY RequestKinds DEF TypeOK
<1>2. [req[c] EXCEPT !.pc = p] \in RelationRequests
  BY <1>1 DEF RelationRequests
<1>3. [req[c] EXCEPT !.pc = p] \in Requests
  BY <1>2, RequestsHold
<1>4. QED
  BY <1>3 DEF Goto, TypeOK

\* Type correctness of the steps of TaskRelationsService.create ...
LEMMA RelationStepTypes ==
    ASSUME TypeOK, NEW c \in Clients,
           StartRelate(c) \/ TakeAdvisory(c) \/ LockTarget(c) \/ CheckCycle(c)
    PROVE  dbTypes' /\ ctlTypes'
<1>1. CASE StartRelate(c)
  <2>1. PICK s \in Tasks, d \in Tasks, k \in {"BLOCKS", "RELATES_TO"} :
           Go(c, [pc |-> "read", src |-> s, dst |-> d, kind |-> k])
    BY <1>1 DEF StartRelate
  <2>2. [pc |-> "read", src |-> s, dst |-> d, kind |-> k] \in RelationRequests
    BY DEF RelationRequests, RelationPC
  <2>3. req' \in [Clients -> Requests]
    BY <2>1, <2>2, RequestsHold DEF Go, TypeOK
  <2>4. QED
    BY <1>1, <2>3 DEF StartRelate, TypeOK, dbTypes, ctlTypes, db
<1>2. CASE TakeAdvisory(c)
  <2>1. CASE Fail(c)
    BY <2>1, FailTypes
  <2>2. CASE ~Fail(c)
    <3>1. Goto(c, "advisory") /\ advisory' = c /\ UNCHANGED <<db, rowLock>> /\ req[c].pc = "read"
      BY <1>2, <2>2 DEF TakeAdvisory, At
    <3>2. req' \in [Clients -> Requests]
      BY <3>1, GotoTypes DEF RelationPC
    <3>3. QED
      BY <3>1, <3>2 DEF TypeOK, dbTypes, ctlTypes, db
  <2>3. QED
    BY <2>1, <2>2
<1>3. CASE LockTarget(c)
  <2>1. CASE Fail(c)
    BY <2>1, FailTypes
  <2>2. CASE ~Fail(c)
    <3>1. Goto(c, "target") /\ rowLock' = [rowLock EXCEPT ![req[c].dst] = c]
          /\ UNCHANGED <<db, advisory>> /\ req[c].pc = "advisory"
      BY <1>3, <2>2 DEF LockTarget, At
    <3>2. req' \in [Clients -> Requests]
      BY <3>1, GotoTypes DEF RelationPC
    <3>3. QED
      BY <3>1, <3>2 DEF TypeOK, dbTypes, ctlTypes, db
  <2>3. QED
    BY <2>1, <2>2
<1>4. CASE CheckCycle(c)
  <2>1. CASE Fail(c)
    BY <2>1, FailTypes
  <2>2. CASE ~Fail(c)
    <3>1. Goto(c, "acyclic") /\ UNCHANGED <<db, advisory, rowLock>> /\ req[c].pc = "target"
      BY <1>4, <2>2 DEF CheckCycle, At
    <3>2. req' \in [Clients -> Requests]
      BY <3>1, GotoTypes DEF RelationPC
    <3>3. QED
      BY <3>1, <3>2 DEF TypeOK, dbTypes, ctlTypes, db
  <2>3. QED
    BY <2>1, <2>2
<1>5. QED
  BY <1>1, <1>2, <1>3, <1>4

\* ... of its insertion ...
LEMMA InsertTypes ==
    ASSUME TypeOK, NEW c \in Clients, InsertRelation(c)
    PROVE  dbTypes' /\ ctlTypes'
<1>1. CASE Fail(c)
  BY <1>1, FailTypes
<1>2. CASE ~Fail(c)
  <2>1. req[c] \in RelationRequests
    BY RequestKinds DEF InsertRelation, ReadyToInsert, At, TypeOK, RelationPC
  <2>2. req[c].src \in Tasks /\ req[c].dst \in Tasks
    BY <2>1 DEF RelationRequests
  <2>3. Go(c, Idle) /\ Release(c) /\ UNCHANGED <<status, col, completedAt, dod, doneCols>>
    BY <1>2 DEF InsertRelation
  <2>4. \/ blocks' = blocks \cup {<<req[c].src, req[c].dst>>} /\ UNCHANGED relates
        \/ relates' = relates \cup {{req[c].src, req[c].dst}} /\ UNCHANGED blocks
    BY <1>2 DEF InsertRelation
  <2>5. req' \in [Clients -> Requests]
    BY <2>3, RequestsHold DEF Go, TypeOK
  <2>6. advisory' \in Clients \cup {NoOne} /\ rowLock' \in [Tasks -> Clients \cup {NoOne}]
    BY <2>3 DEF Release, TypeOK
  <2>7. QED
    BY <2>2, <2>3, <2>4, <2>5, <2>6 DEF TypeOK, dbTypes, ctlTypes
<1>3. QED
  BY <1>1, <1>2

\* ... of move, bulkUpdate and the recurrence that follows ...
LEMMA MoveStepTypes ==
    ASSUME TypeOK, NEW c \in Clients,
           StartMove(c) \/ GateTask(c) \/ CommitMove(c) \/ Recur(c)
    PROVE  dbTypes' /\ ctlTypes'
<1>1. CASE StartMove(c)
  <2>1. UNCHANGED <<db, advisory, rowLock>>
    BY <1>1 DEF StartMove
  <2>2. PICK ids \in SUBSET {t \in Tasks : Live(t)}, to \in Columns, bulk \in BOOLEAN :
           LET r == [pc |-> "moving", bulk |-> bulk, seen |-> [t \in ids |-> col[t]],
                     seenDone |-> doneCols, to |-> to, stamp |-> Stamped(ids, to, bulk), gate |-> <<>>] IN
             \E q \in Orderings({t \in ids : NeedsGate(r, t)}) : Go(c, [r EXCEPT !.gate = q])
    BY <1>1 DEF StartMove
  <2> DEFINE r == [pc |-> "moving", bulk |-> bulk, seen |-> [t \in ids |-> col[t]],
                   seenDone |-> doneCols, to |-> to, stamp |-> Stamped(ids, to, bulk), gate |-> <<>>]
  <2>3. PICK q \in Orderings({t \in ids : NeedsGate(r, t)}) : Go(c, [r EXCEPT !.gate = q])
    BY <2>2
  <2>4. q \in Seq(Tasks)
    <3>1. {t \in ids : NeedsGate(r, t)} \in SUBSET Tasks
      OBVIOUS
    <3> HIDE DEF r
    <3>2. QED
      BY <2>3, <3>1, OrderingsType
  <2>5. [t \in ids |-> col[t]] \in UNION {[S -> Columns] : S \in SUBSET Tasks}
    <3>1. [t \in ids |-> col[t]] \in [ids -> Columns] /\ ids \in SUBSET Tasks
      BY DEF TypeOK
    <3>2. QED
      BY <3>1
  <2>6. Stamped(ids, to, bulk) \in SUBSET Tasks
    BY DEF Stamped
  <2>7. [r EXCEPT !.gate = q] \in MoveRequests
    BY <2>4, <2>5, <2>6 DEF MoveRequests, TypeOK
  <2>8. req' \in [Clients -> Requests]
    BY <2>3, <2>7, RequestsHold DEF Go, TypeOK
  <2>9. QED
    BY <2>1, <2>8 DEF TypeOK, dbTypes, ctlTypes, db
<1>2. CASE GateTask(c)
  <2>1. CASE Fail(c)
    BY <2>1, FailTypes
  <2>2. CASE ~Fail(c)
    <3>1. req' = [req EXCEPT ![c].gate = Tail(@)] /\ req[c].pc = "moving" /\ req[c].gate # <<>>
          /\ rowLock' = [rowLock EXCEPT ![Head(req[c].gate)] = c] /\ UNCHANGED <<db, advisory>>
      BY <1>2, <2>2 DEF GateTask, At
    <3>2. req[c] \in MoveRequests
      BY <3>1, RequestKinds DEF TypeOK
    <3>3. Head(req[c].gate) \in Tasks /\ Tail(req[c].gate) \in Seq(Tasks)
      BY <3>1, <3>2 DEF MoveRequests
    <3>4. [req[c] EXCEPT !.gate = Tail(@)] \in MoveRequests
      BY <3>2, <3>3 DEF MoveRequests
    <3>5. req' = [req EXCEPT ![c] = [req[c] EXCEPT !.gate = Tail(@)]]
      BY <3>1 DEF TypeOK
    <3>6. req' \in [Clients -> Requests]
      BY <3>4, <3>5, RequestsHold DEF TypeOK
    <3>7. QED
      BY <3>1, <3>6 DEF TypeOK, dbTypes, ctlTypes, db
  <2>3. QED
    BY <2>1, <2>2
<1>3. CASE CommitMove(c)
  <2>1. CASE Fail(c)
    BY <2>1, FailTypes
  <2>2. CASE ~Fail(c)
    <3>1. req[c] \in MoveRequests
      BY <1>3, RequestKinds DEF CommitMove, At, TypeOK
    <3>2. req[c].to \in Columns
      BY <3>1 DEF MoveRequests
    <3>3. /\ col' = [t \in Tasks |-> IF MovedTo(req[c], t) THEN req[c].to ELSE col[t]]
          /\ UNCHANGED <<status, dod, doneCols, blocks, relates>>
          /\ Release(c)
          /\ Go(c, IF DueAfter(req[c]) = {} THEN Idle ELSE [pc |-> "landed", due |-> DueAfter(req[c])])
      BY <1>3, <2>2 DEF CommitMove
    <3>4. completedAt' \in [Tasks -> BOOLEAN]
      BY <1>3, <2>2 DEF CommitMove, TypeOK
    <3>5. DueAfter(req[c]) \in SUBSET Tasks
      BY ConstantsOK DEF DueAfter
    <3>6. [pc |-> "landed", due |-> DueAfter(req[c])] \in [pc : {"landed"}, due : SUBSET Tasks]
      BY <3>5
    <3>7. req' \in [Clients -> Requests]
      BY <3>3, <3>6, RequestsHold DEF Go, TypeOK
    <3>8. advisory' \in Clients \cup {NoOne} /\ rowLock' \in [Tasks -> Clients \cup {NoOne}]
      BY <3>3 DEF Release, TypeOK
    <3>9. col' \in [Tasks -> Columns]
      BY <3>2, <3>3 DEF TypeOK
    <3>10. QED
      BY <3>3, <3>4, <3>7, <3>8, <3>9 DEF TypeOK, dbTypes, ctlTypes
  <2>3. QED
    BY <2>1, <2>2
<1>4. CASE Recur(c)
  <2>1. CASE Fail(c)
    BY <2>1, FailTypes
  <2>2. CASE ~Fail(c)
    <3>1. req[c].pc = "landed"
      BY <1>4 DEF Recur, At
    <3>2. req[c] \in [pc : {"landed"}, due : SUBSET Tasks]
      BY <3>1, RequestKinds DEF TypeOK
    <3>3. PICK t \in req[c].due :
             /\ col' = [col EXCEPT ![t] = Origin]
             /\ completedAt' = [completedAt EXCEPT ![t] = FALSE]
             /\ Go(c, IF req[c].due = {t} THEN Idle ELSE [req[c] EXCEPT !.due = @ \ {t}])
             /\ UNCHANGED <<status, dod, doneCols, blocks, relates, advisory, rowLock>>
      BY <1>4, <2>2 DEF Recur
    <3>4. [req[c] EXCEPT !.due = @ \ {t}] \in [pc : {"landed"}, due : SUBSET Tasks]
      BY <3>2
    <3>5. req' \in [Clients -> Requests]
      BY <3>3, <3>4, RequestsHold DEF Go, TypeOK
    <3>6. QED
      BY <3>3, <3>5, ConstantsOK DEF TypeOK, dbTypes, ctlTypes
  <2>3. QED
    BY <2>1, <2>2
<1>5. QED
  BY <1>1, <1>2, <1>3, <1>4

\* ... of the handlers of one statement ...
LEMMA ShortStepTypes ==
    ASSUME TypeOK, NEW c \in Clients,
           \/ RemoveRelation(c) \/ CreateTask(c) \/ TrashTask(c) \/ RestoreTask(c)
           \/ AddChecklistItem(c) \/ ChangeChecklistItem(c) \/ ReshapeBoard(c)
    PROVE  dbTypes' /\ ctlTypes'
<1>1. CASE RemoveRelation(c)
  BY <1>1 DEF RemoveRelation, TypeOK, dbTypes, ctlTypes
<1>2. CASE CreateTask(c)
  BY <1>2 DEF CreateTask, TypeOK, dbTypes, ctlTypes
<1>3. CASE TrashTask(c)
  BY <1>3 DEF TrashTask, TypeOK, dbTypes, ctlTypes
<1>4. CASE RestoreTask(c)
  BY <1>4 DEF RestoreTask, TypeOK, dbTypes, ctlTypes
<1>5. CASE AddChecklistItem(c)
  BY <1>5 DEF AddChecklistItem, TypeOK, dbTypes, ctlTypes
<1>6. CASE ChangeChecklistItem(c)
  BY <1>6 DEF ChangeChecklistItem, TypeOK, dbTypes, ctlTypes
<1>7. CASE ReshapeBoard(c)
  BY <1>7, ConstantsOK DEF ReshapeBoard, TypeOK, dbTypes, ctlTypes
<1>8. QED
  BY <1>1, <1>2, <1>3, <1>4, <1>5, <1>6, <1>7

\* ... of the purge ...
LEMMA PurgeTypes ==
    ASSUME TypeOK, NEW c \in Clients, StartPurge(c) \/ PurgeTask(c)
    PROVE  dbTypes' /\ ctlTypes'
<1>1. CASE StartPurge(c)
  <2>1. PICK t \in Tasks : Go(c, [pc |-> "purging", task |-> t])
    BY <1>1 DEF StartPurge
  <2>2. [pc |-> "purging", task |-> t] \in [pc : {"purging"}, task : Tasks]
    OBVIOUS
  <2>3. req' \in [Clients -> Requests]
    BY <2>1, <2>2, RequestsHold DEF Go, TypeOK
  <2>4. QED
    BY <1>1, <2>3 DEF StartPurge, TypeOK, dbTypes, ctlTypes, db
<1>2. CASE PurgeTask(c)
  <2>1. CASE Fail(c)
    BY <2>1, FailTypes
  <2>2. CASE ~Fail(c)
    <3>1. req' \in [Clients -> Requests]
      BY <1>2, <2>2, RequestsHold DEF PurgeTask, Go, TypeOK
    <3>2. QED
      BY <1>2, <2>2, <3>1 DEF PurgeTask, TypeOK, dbTypes, ctlTypes
  <2>3. QED
    BY <2>1, <2>2
<1>3. QED
  BY <1>1, <1>2

\* ... and so of every step of a client.
LEMMA StepTypes ==
    ASSUME TypeOK, NEW c \in Clients, Step(c), Record
    PROVE  TypeOK'
<1>1. dbTypes' /\ ctlTypes'
  <2>1. CASE Arrive(c)
    BY <2>1, RelationStepTypes, MoveStepTypes, ShortStepTypes, PurgeTypes DEF Arrive
  <2>2. CASE Continue(c)
    BY <2>2, RelationStepTypes, InsertTypes, MoveStepTypes, PurgeTypes DEF Continue
  <2>3. CASE Abort(c) \/ DeadlockVictim(c)
    BY <2>3, FailTypes DEF Abort, DeadlockVictim
  <2>4. QED
    BY <2>1, <2>2, <2>3 DEF Step
<1>2. restored' \in SUBSET Tasks /\ waived' \in SUBSET (Tasks \X {"blockers", "dod"})
  BY DEF Record, TypeOK
<1>3. QED
  BY <1>1, <1>2 DEF TypeOK, dbTypes, ctlTypes

\* Every variable keeps its type, for any number of tasks, clients and columns.
THEOREM TypeCorrect == Spec => []TypeOK
<1>1. Init => TypeOK
  <2> SUFFICES ASSUME Init PROVE TypeOK
    OBVIOUS
  <2>1. req \in [Clients -> Requests]
    BY RequestsHold DEF Init
  <2>2. QED
    BY <2>1, ConstantsOK DEF Init, TypeOK
<1>2. TypeOK /\ [Next]_vars => TypeOK'
  <2>1. ASSUME TypeOK, Next PROVE TypeOK'
    BY <2>1, StepTypes DEF Next
  <2>2. ASSUME TypeOK, UNCHANGED vars PROVE TypeOK'
    BY <2>2 DEF TypeOK, vars, db, history
  <2>3. QED
    BY <2>1, <2>2
<1>3. QED
  BY <1>1, <1>2, PTL DEF Spec

-----------------------------------------------------------------------------
(* The relation rows.  A request that holds the advisory lock knows that its *)
(* pair is unrelated, because rows are only inserted under that lock; past   *)
(* the cycle check it knows moreover that its target does not lead to its    *)
(* source, because the settled edges only shrink while it holds the lock.    *)

UnderAdvisory == {"advisory", "target", "acyclic"}

AdvisoryHeld ==
    \A c \in Clients : req[c].pc \in UnderAdvisory =>
        advisory = c /\ ~Related(req[c].src, req[c].dst)

Checked ==
    \A c \in Clients : req[c].pc = "acyclic" =>
        req[c].src \notin Reach(Tasks, SettledEdges, req[c].dst)

RelationInv == TypeOK /\ NoDanglingRelation /\ OneRelationPerPair /\ AdvisoryHeld /\ Checked

\* Fewer edges reach no more nodes.
LEMMA ReachMonotone ==
    ASSUME NEW N, NEW E, NEW F, E \subseteq F, NEW x
    PROVE  Reach(N, E, x) \subseteq Reach(N, F, x)
BY DEF Reach, Closed

\* No step adds a settled edge but the insertion of its row: a task that comes
\* back from the trash is restored, one that is created has no rows yet.
LEMMA SettledEdgesShrink ==
    ASSUME TypeOK, NoDanglingRelation, Record, blocks' \subseteq blocks
    PROVE  SettledEdges' \subseteq SettledEdges
<1>1. SUFFICES ASSUME NEW e \in SettledEdges' PROVE e \in SettledEdges
  OBVIOUS
<1>2. /\ e \in blocks /\ e[1] \in Tasks /\ e[2] \in Tasks
      /\ status'[e[1]] = "live" /\ status'[e[2]] = "live"
      /\ e[1] \notin restored' /\ e[2] \notin restored'
  BY <1>1 DEF SettledEdges, LiveEdges, Live, TypeOK
<1>3. status[e[1]] \in {"live", "trashed"} /\ status[e[2]] \in {"live", "trashed"}
  BY <1>2 DEF NoDanglingRelation, Exists
<1>4. status[e[1]] = "live" /\ status[e[2]] = "live" /\ e[1] \notin restored /\ e[2] \notin restored
  BY <1>2, <1>3 DEF Record
<1>5. QED
  BY <1>2, <1>4 DEF SettledEdges, LiveEdges, Live

\* A step of c that inserts no row and does not take the request of c further
\* under the advisory lock.
Withdraws(c) ==
    /\ blocks' \subseteq blocks /\ relates' \subseteq relates
    /\ \A d \in Clients : d # c => req'[d] = req[d]
    /\ req'[c].pc \notin UnderAdvisory \/ (req'[c] = req[c] /\ advisory' = advisory)
    /\ advisory' = advisory \/ advisory = c

\* A step that only takes requests, rows or settled tasks away keeps RelationInv.
LEMMA WithdrawKeepsRelationInv ==
    ASSUME RelationInv, NEW c \in Clients, Withdraws(c), Record, NoDanglingRelation', TypeOK'
    PROVE  RelationInv'
<1>1. SettledEdges' \subseteq SettledEdges
  BY SettledEdgesShrink DEF RelationInv, Withdraws
<1>2. OneRelationPerPair'
  BY DEF RelationInv, OneRelationPerPair, Withdraws
<1>3. ASSUME NEW d \in Clients, req'[d].pc \in UnderAdvisory
      PROVE  /\ req'[d] = req[d] /\ advisory' = d
             /\ ~Related(req[d].src, req[d].dst)'
  <2>1. req'[d] = req[d] /\ advisory = d
    BY <1>3 DEF Withdraws, RelationInv, AdvisoryHeld
  <2>2. advisory' = d
    BY <1>3, <2>1 DEF Withdraws
  <2>3. ~Related(req[d].src, req[d].dst)
    BY <1>3, <2>1 DEF RelationInv, AdvisoryHeld
  <2>4. ~Related(req[d].src, req[d].dst)'
    BY <2>1, <2>3 DEF Related, Withdraws
  <2>5. QED
    BY <2>1, <2>2, <2>4
<1>4. AdvisoryHeld'
  BY <1>3 DEF AdvisoryHeld, Related
<1>5. ASSUME NEW d \in Clients, req'[d].pc = "acyclic"
      PROVE  req'[d].src \notin Reach(Tasks, SettledEdges', req'[d].dst)
  <2>1. req'[d] = req[d]
    BY <1>3, <1>5 DEF UnderAdvisory
  <2>2. req[d].src \notin Reach(Tasks, SettledEdges, req[d].dst)
    BY <1>5, <2>1 DEF RelationInv, Checked
  <2>3. Reach(Tasks, SettledEdges', req[d].dst) \subseteq Reach(Tasks, SettledEdges, req[d].dst)
    BY <1>1, ReachMonotone
  <2>4. QED
    BY <2>1, <2>2, <2>3
<1>6. Checked'
  BY <1>5 DEF Checked
<1>7. QED
  BY <1>2, <1>4, <1>6 DEF RelationInv

\* A rollback only takes away.
LEMMA FailWithdraws ==
    ASSUME TypeOK, NoDanglingRelation, NEW c \in Clients, Fail(c)
    PROVE  Withdraws(c) /\ NoDanglingRelation'
<1>1. UNCHANGED db /\ req' = [req EXCEPT ![c] = Idle]
  BY DEF Fail, Go
<1>2. req'[c].pc \notin UnderAdvisory /\ \A d \in Clients : d # c => req'[d] = req[d]
  BY <1>1 DEF TypeOK, Idle, UnderAdvisory
<1>3. advisory' = advisory \/ advisory = c
  BY DEF Fail, Release
<1>4. QED
  BY <1>1, <1>2, <1>3 DEF Withdraws, NoDanglingRelation, Exists, db

\* Steps that leave relation rows and task states alone.
LEMMA BystanderWithdraws ==
    ASSUME TypeOK, NoDanglingRelation, NEW c \in Clients,
           \/ StartRelate(c) \/ StartMove(c) \/ GateTask(c) \/ CommitMove(c) \/ Recur(c)
           \/ StartPurge(c) \/ AddChecklistItem(c) \/ ChangeChecklistItem(c) \/ ReshapeBoard(c)
    PROVE  Withdraws(c) /\ NoDanglingRelation'
<1>1. CASE Fail(c)
  BY <1>1, FailWithdraws
<1>2. CASE ~Fail(c)
  <2>1. UNCHANGED <<status, blocks, relates>>
    BY <1>2 DEF StartRelate, StartMove, GateTask, CommitMove, Recur, StartPurge,
                AddChecklistItem, ChangeChecklistItem, ReshapeBoard, db
  <2>2. NoDanglingRelation'
    BY <2>1 DEF NoDanglingRelation, Exists
  <2>3. advisory' = advisory \/ advisory = c
    BY <1>2 DEF StartRelate, StartMove, GateTask, CommitMove, Recur, StartPurge,
                AddChecklistItem, ChangeChecklistItem, ReshapeBoard, Release
  <2>4. /\ \A d \in Clients : d # c => req'[d] = req[d]
        /\ req'[c].pc \notin UnderAdvisory
    <3>1. CASE StartRelate(c)
      BY <3>1 DEF StartRelate, Go, TypeOK, UnderAdvisory
    <3>2. CASE StartMove(c)
      <4>1. PICK ids \in SUBSET {t \in Tasks : Live(t)}, to \in Columns, bulk \in BOOLEAN :
              \E q : Go(c, [[pc |-> "moving", bulk |-> bulk, seen |-> [t \in ids |-> col[t]],
                             seenDone |-> doneCols, to |-> to, stamp |-> Stamped(ids, to, bulk), gate |-> <<>>] EXCEPT !.gate = q])
        BY <3>2 DEF StartMove
      <4>2. PICK q : Go(c, [[pc |-> "moving", bulk |-> bulk, seen |-> [t \in ids |-> col[t]],
                             seenDone |-> doneCols, to |-> to, stamp |-> Stamped(ids, to, bulk), gate |-> <<>>] EXCEPT !.gate = q])
        BY <4>1
      <4>3. QED
        BY <4>2 DEF Go, TypeOK, UnderAdvisory
    <3>3. CASE GateTask(c)
      <4>1. req' = [req EXCEPT ![c].gate = Tail(@)] /\ req[c].pc = "moving"
        BY <3>3, <1>2 DEF GateTask, At
      <4>2. req[c] \in MoveRequests
        BY <4>1, RequestKinds DEF TypeOK
      <4>3. req'[c] = [req[c] EXCEPT !.gate = Tail(@)]
        BY <4>1 DEF TypeOK
      <4>4. req'[c].pc = "moving"
        BY <4>2, <4>3 DEF MoveRequests
      <4>5. QED
        BY <4>1, <4>4 DEF TypeOK, UnderAdvisory
    <3>4. CASE CommitMove(c)
      <4>1. Go(c, IF DueAfter(req[c]) = {} THEN Idle ELSE [pc |-> "landed", due |-> DueAfter(req[c])])
        BY <3>4, <1>2 DEF CommitMove
      <4>2. QED
        BY <4>1 DEF Go, TypeOK, Idle, UnderAdvisory
    <3>5. CASE Recur(c)
      <4>1. PICK t \in req[c].due :
               Go(c, IF req[c].due = {t} THEN Idle ELSE [req[c] EXCEPT !.due = @ \ {t}])
        BY <3>5, <1>2 DEF Recur
      <4>2. req[c] \in [pc : {"landed"}, due : SUBSET Tasks]
        BY <3>5, RequestKinds DEF Recur, At, TypeOK
      <4>3. [req[c] EXCEPT !.due = @ \ {t}].pc = "landed"
        BY <4>2
      <4>4. QED
        BY <4>1, <4>3 DEF Go, TypeOK, Idle, UnderAdvisory
    <3>6. CASE StartPurge(c)
      BY <3>6 DEF StartPurge, Go, TypeOK, UnderAdvisory
    <3>7. CASE AddChecklistItem(c) \/ ChangeChecklistItem(c) \/ ReshapeBoard(c)
      BY <3>7 DEF AddChecklistItem, ChangeChecklistItem, ReshapeBoard, At, UnderAdvisory
    <3>8. QED
      BY <3>1, <3>2, <3>3, <3>4, <3>5, <3>6, <3>7
  <2>5. QED
    BY <2>1, <2>2, <2>3, <2>4 DEF Withdraws
<1>3. QED
  BY <1>1, <1>2

\* Steps that remove rows or move tasks in and out of the trash: rows still
\* refer to existing tasks, because a purge takes its rows along.
LEMMA TrashWithdraws ==
    ASSUME TypeOK, NoDanglingRelation, NEW c \in Clients,
           \/ RemoveRelation(c) \/ CreateTask(c) \/ TrashTask(c) \/ RestoreTask(c) \/ PurgeTask(c)
    PROVE  Withdraws(c) /\ NoDanglingRelation'
<1>1. CASE RemoveRelation(c)
  BY <1>1 DEF RemoveRelation, Withdraws, NoDanglingRelation, Exists, At, UnderAdvisory
<1>2. CASE CreateTask(c)
  <2>1. PICK t \in Tasks : status[t] = "absent" /\ status' = [status EXCEPT ![t] = "live"]
    BY <1>2 DEF CreateTask
  <2>2. NoDanglingRelation'
    BY <1>2, <2>1 DEF CreateTask, NoDanglingRelation, Exists, TypeOK
  <2>3. QED
    BY <1>2, <2>2 DEF CreateTask, Withdraws, At, UnderAdvisory
<1>3. CASE TrashTask(c)
  <2>1. NoDanglingRelation'
    BY <1>3 DEF TrashTask, NoDanglingRelation, Exists, TypeOK, Live
  <2>2. QED
    BY <1>3, <2>1 DEF TrashTask, Withdraws, At, UnderAdvisory
<1>4. CASE RestoreTask(c)
  <2>1. NoDanglingRelation'
    BY <1>4 DEF RestoreTask, NoDanglingRelation, Exists, TypeOK
  <2>2. QED
    BY <1>4, <2>1 DEF RestoreTask, Withdraws, At, UnderAdvisory
<1>5. CASE PurgeTask(c)
  <2>1. CASE Fail(c)
    BY <2>1, FailWithdraws
  <2>2. CASE ~Fail(c)
    <3>1. /\ status' = [status EXCEPT ![req[c].task] = "purged"]
          /\ blocks' = {e \in blocks : req[c].task \notin {e[1], e[2]}}
          /\ relates' = {p \in relates : req[c].task \notin p}
          /\ Go(c, Idle) /\ advisory' = advisory
      BY <1>5, <2>2 DEF PurgeTask
    <3>2. NoDanglingRelation'
      BY <3>1 DEF NoDanglingRelation, Exists, TypeOK
    <3>3. QED
      BY <3>1, <3>2 DEF Withdraws, Go, Idle, TypeOK, UnderAdvisory
  <2>3. QED
    BY <2>1, <2>2
<1>6. QED
  BY <1>1, <1>2, <1>3, <1>4, <1>5

\* The three steps that carry a request from the advisory lock to its insertion.
LEMMA CreationAdvances ==
    ASSUME RelationInv, NEW c \in Clients, Record, TypeOK',
           TakeAdvisory(c) \/ LockTarget(c) \/ CheckCycle(c)
    PROVE  RelationInv'
<1>1. CASE Fail(c)
  BY <1>1, FailWithdraws, WithdrawKeepsRelationInv DEF RelationInv
<1>2. CASE ~Fail(c)
  <2>1. PICK p \in UnderAdvisory : Goto(c, p) /\ (p = "acyclic" => CheckCycle(c))
    BY <1>2 DEF TakeAdvisory, LockTarget, CheckCycle, UnderAdvisory
  <2>2. UNCHANGED db
    BY <1>2 DEF TakeAdvisory, LockTarget, CheckCycle
  <2>3. req[c].pc \in RelationPC
    BY DEF TakeAdvisory, LockTarget, CheckCycle, At, RelationPC
  <2>4. /\ req'[c] = [req[c] EXCEPT !.pc = p]
        /\ \A d \in Clients : d # c => req'[d] = req[d]
    BY <2>1, <2>3, GotoTypes DEF RelationInv, UnderAdvisory, RelationPC
  <2>5. req[c] \in RelationRequests
    BY <2>3, RequestKinds DEF RelationInv, TypeOK
  <2>6. req'[c].src = req[c].src /\ req'[c].dst = req[c].dst /\ req'[c].pc = p
    BY <2>4, <2>5 DEF RelationRequests
  <2>7. NoDanglingRelation' /\ OneRelationPerPair'
    BY <2>2 DEF RelationInv, NoDanglingRelation, OneRelationPerPair, Exists, db
  <2>8. SettledEdges' \subseteq SettledEdges
    BY <2>2, SettledEdgesShrink DEF RelationInv, db
  <2>9. advisory' = c /\ ~Related(req[c].src, req[c].dst)
    BY <1>2 DEF TakeAdvisory, LockTarget, CheckCycle, At, RelationInv, AdvisoryHeld, UnderAdvisory
  <2>10. \A d \in Clients : d # c => req[d].pc \notin UnderAdvisory
    <3>1. advisory \in {c, NoOne}
      BY <1>2 DEF TakeAdvisory, LockTarget, CheckCycle, At, RelationInv, AdvisoryHeld, UnderAdvisory
    <3>2. QED
      BY <3>1, ConstantsOK DEF RelationInv, AdvisoryHeld
  <2>11. AdvisoryHeld'
    <3>1. ~Related(req[c].src, req[c].dst)'
      BY <2>2, <2>6, <2>9 DEF Related, db
    <3>2. QED
      BY <2>4, <2>6, <2>9, <2>10, <3>1 DEF AdvisoryHeld, Related
  <2>12. Checked'
    <3>1. ASSUME p = "acyclic" PROVE req[c].src \notin Reach(Tasks, SettledEdges, req[c].dst)
      <4>1. req[c].src \notin Reach(Tasks, LiveEdges, req[c].dst)
        BY <1>2, <2>1, <3>1 DEF CheckCycle
      <4>2. SettledEdges \subseteq LiveEdges
        BY DEF SettledEdges
      <4>3. QED
        BY <4>1, <4>2, ReachMonotone
    <3>2. Reach(Tasks, SettledEdges', req[c].dst) \subseteq Reach(Tasks, SettledEdges, req[c].dst)
      BY <2>8, ReachMonotone
    <3>3. QED
      BY <2>4, <2>6, <2>10, <3>1, <3>2 DEF Checked, UnderAdvisory
  <2>13. QED
    BY <2>7, <2>11, <2>12 DEF RelationInv
<1>3. QED
  BY <1>1, <1>2

\* The insertion: its pair is unrelated, and it releases the advisory lock, so
\* that no request is left whose checks the new row could make stale.
LEMMA InsertKeepsRelationInv ==
    ASSUME RelationInv, NEW c \in Clients, Record, TypeOK', InsertRelation(c)
    PROVE  RelationInv'
<1>1. CASE Fail(c)
  BY <1>1, FailWithdraws, WithdrawKeepsRelationInv DEF RelationInv
<1>2. CASE ~Fail(c)
  <2> DEFINE s == req[c].src
             d == req[c].dst
  <2>1. /\ Exists(s) /\ Exists(d) /\ UNCHANGED status
        /\ Go(c, Idle)
        /\ \/ blocks' = blocks \cup {<<s, d>>} /\ UNCHANGED relates
           \/ relates' = relates \cup {{s, d}} /\ UNCHANGED blocks
    BY <1>2 DEF InsertRelation
  <2>2. req[c].pc \in UnderAdvisory
    BY DEF InsertRelation, ReadyToInsert, At, UnderAdvisory
  <2>3. advisory = c /\ ~Related(s, d)
    BY <2>2 DEF RelationInv, AdvisoryHeld
  <2>4. \A x \in Clients : req'[x].pc \notin UnderAdvisory
    <3>1. \A x \in Clients : x # c => req'[x] = req[x] /\ req[x].pc \notin UnderAdvisory
      BY <2>1, <2>3 DEF Go, RelationInv, TypeOK, AdvisoryHeld
    <3>2. req'[c].pc = "idle"
      BY <2>1 DEF Go, RelationInv, TypeOK, Idle
    <3>3. QED
      BY <3>1, <3>2 DEF UnderAdvisory
  <2>5. AdvisoryHeld' /\ Checked'
    BY <2>4 DEF AdvisoryHeld, Checked, UnderAdvisory
  <2>6. NoDanglingRelation'
    BY <2>1 DEF RelationInv, NoDanglingRelation, Exists
  <2>7. OneRelationPerPair'
    <3>1. SUFFICES ASSUME NEW a \in Tasks, NEW b \in Tasks, a # b
                   PROVE  /\ ~(<<a, b>> \in blocks' /\ <<b, a>> \in blocks')
                          /\ {a, b} \in relates' => <<a, b>> \notin blocks'
      BY DEF OneRelationPerPair
    <3>2. /\ ~(<<a, b>> \in blocks /\ <<b, a>> \in blocks)
          /\ {a, b} \in relates => <<a, b>> \notin blocks
      BY <3>1 DEF RelationInv, OneRelationPerPair
    <3>3. <<s, d>> \notin blocks /\ <<d, s>> \notin blocks /\ {s, d} \notin relates
      BY <2>3 DEF Related
    <3>4. CASE blocks' = blocks \cup {<<s, d>>} /\ UNCHANGED relates
      <4>1. <<a, b>> = <<s, d>> => {a, b} = {s, d} /\ <<b, a>> = <<d, s>>
        OBVIOUS
      <4>2. <<b, a>> = <<s, d>> => <<a, b>> = <<d, s>>
        OBVIOUS
      <4> HIDE DEF s, d
      <4>3. QED
        BY <3>1, <3>2, <3>3, <3>4, <4>1, <4>2
    <3>5. CASE relates' = relates \cup {{s, d}} /\ UNCHANGED blocks
      <4>1. {a, b} = {s, d} => (a = s /\ b = d) \/ (a = d /\ b = s)
        BY <3>1
      <4> HIDE DEF s, d
      <4>2. QED
        BY <3>2, <3>3, <3>5, <4>1
    <3>6. QED
      BY <2>1, <3>4, <3>5
  <2>8. QED
    BY <2>5, <2>6, <2>7 DEF RelationInv
<1>3. QED
  BY <1>1, <1>2

\* RelationInv is kept by every step of every client.
LEMMA RelationInvInductive ==
    ASSUME RelationInv, NEW c \in Clients, Step(c), Record
    PROVE  RelationInv'
<1>1. TypeOK'
  BY StepTypes DEF RelationInv
<1>2. CASE Abort(c) \/ DeadlockVictim(c)
  BY <1>1, <1>2, FailWithdraws, WithdrawKeepsRelationInv DEF Abort, DeadlockVictim, RelationInv
<1>3. CASE Arrive(c)
  BY <1>1, <1>3, BystanderWithdraws, TrashWithdraws, WithdrawKeepsRelationInv DEF Arrive, RelationInv
<1>4. CASE Continue(c)
  <2>1. CASE TakeAdvisory(c) \/ LockTarget(c) \/ CheckCycle(c)
    BY <1>1, <2>1, CreationAdvances
  <2>2. CASE InsertRelation(c)
    BY <1>1, <2>2, InsertKeepsRelationInv
  <2>3. CASE GateTask(c) \/ CommitMove(c) \/ Recur(c)
    BY <1>1, <2>3, BystanderWithdraws, WithdrawKeepsRelationInv DEF RelationInv
  <2>4. CASE PurgeTask(c)
    BY <1>1, <2>4, TrashWithdraws, WithdrawKeepsRelationInv DEF RelationInv
  <2>5. QED
    BY <1>4, <2>1, <2>2, <2>3, <2>4 DEF Continue
<1>5. QED
  BY <1>2, <1>3, <1>4 DEF Step

\* It holds when nothing is related and nobody holds the lock.
LEMMA InitRelationInv == Init => RelationInv
<1> SUFFICES ASSUME Init PROVE RelationInv
  OBVIOUS
<1>1. req \in [Clients -> Requests]
  BY RequestsHold DEF Init
<1>2. TypeOK
  BY <1>1, ConstantsOK DEF Init, TypeOK
<1>3. \A c \in Clients : req[c].pc \notin UnderAdvisory
  BY DEF Init, Idle, UnderAdvisory
<1>4. AdvisoryHeld /\ Checked
  BY <1>3 DEF AdvisoryHeld, Checked, UnderAdvisory
<1>5. NoDanglingRelation /\ OneRelationPerPair
  BY DEF Init, NoDanglingRelation, OneRelationPerPair
<1>6. QED
  BY <1>2, <1>4, <1>5 DEF RelationInv

\* It does not depend on anything but the variables.
LEMMA StutterRelationInv ==
    ASSUME RelationInv, UNCHANGED vars
    PROVE  RelationInv'
<1>1. TypeOK'
  BY DEF RelationInv, TypeOK, vars, db, history
<1>2. NoDanglingRelation' /\ OneRelationPerPair'
  BY DEF RelationInv, NoDanglingRelation, OneRelationPerPair, Exists, vars, db
<1>3. AdvisoryHeld'
  BY DEF RelationInv, AdvisoryHeld, Related, vars, db
<1>4. SettledEdges' = SettledEdges
  BY DEF SettledEdges, LiveEdges, Live, vars, db, history
<1>5. Checked'
  BY <1>4 DEF RelationInv, Checked, vars
<1>6. QED
  BY <1>1, <1>2, <1>3, <1>5 DEF RelationInv

\* The argument behind every result on relations: RelationInv always holds.
THEOREM RelationInvariant == Spec => []RelationInv
<1>1. RelationInv /\ [Next]_vars => RelationInv'
  BY RelationInvInductive, StutterRelationInv DEF Next
<1>2. QED
  BY <1>1, InitRelationInv, PTL DEF Spec

\* Two tasks never carry two relations, whatever requests race to link them.
THEOREM PairsAreUnique == Spec => []OneRelationPerPair
<1>1. RelationInv => OneRelationPerPair
  BY DEF RelationInv
<1>2. QED
  BY <1>1, RelationInvariant, PTL

\* No relation row outlives a purged task.
THEOREM RelationsAreAttached == Spec => []NoDanglingRelation
<1>1. RelationInv => NoDanglingRelation
  BY DEF RelationInv
<1>2. QED
  BY <1>1, RelationInvariant, PTL

-----------------------------------------------------------------------------
(* The refinement: an insertion whose ends were never restored is a Link of *)
(* the abstract graph, every other step an Unlink.                          *)

\* Every step adds one settled edge that its target does not lead back to, or none.
LEMMA SettledEdgesStep ==
    ASSUME RelationInv, NEW c \in Clients, Step(c), Record
    PROVE  \/ SettledEdges' \subseteq SettledEdges
           \/ \E s, d \in Tasks : /\ s \notin Reach(Tasks, SettledEdges, d)
                                  /\ SettledEdges' = SettledEdges \cup {<<s, d>>}
<1>1. CASE blocks' \subseteq blocks
  BY <1>1, SettledEdgesShrink DEF RelationInv
<1>2. CASE ~(blocks' \subseteq blocks)
  <2>1. InsertRelation(c) /\ ~Fail(c)
    BY <1>2 DEF Step, Arrive, Continue, Abort, DeadlockVictim, StartRelate, RemoveRelation,
                StartMove, CreateTask, TrashTask, RestoreTask, StartPurge, AddChecklistItem,
                ChangeChecklistItem, ReshapeBoard, TakeAdvisory, LockTarget, CheckCycle,
                GateTask, CommitMove, Recur, PurgeTask, Fail, db
  <2> DEFINE s == req[c].src
             d == req[c].dst
  <2>2. /\ req[c].kind = "BLOCKS" /\ blocks' = blocks \cup {<<s, d>>}
        /\ UNCHANGED status
    BY <1>2, <2>1 DEF InsertRelation
  <2>3. req[c] \in RelationRequests
    BY <2>1, RequestKinds DEF InsertRelation, ReadyToInsert, At, RelationInv, TypeOK, RelationPC
  <2>4. s \in Tasks /\ d \in Tasks
    BY <2>3 DEF RelationRequests
  <2>5. req[c].pc = "acyclic"
    BY <2>1, <2>2 DEF InsertRelation, ReadyToInsert, At
  <2>6. s \notin Reach(Tasks, SettledEdges, d)
    BY <2>5 DEF RelationInv, Checked
  <2>7. restored' = restored
    BY <2>2 DEF Record
  <2>8. SettledEdges' \in {SettledEdges, SettledEdges \cup {<<s, d>>}}
    <3>1. \A e \in blocks' : e \in SettledEdges' <=>
            /\ status[e[1]] = "live" /\ status[e[2]] = "live"
            /\ e[1] \notin restored /\ e[2] \notin restored
      BY <2>2, <2>7 DEF SettledEdges, LiveEdges, Live
    <3>2. \A e \in blocks : e \in SettledEdges <=>
            /\ status[e[1]] = "live" /\ status[e[2]] = "live"
            /\ e[1] \notin restored /\ e[2] \notin restored
      BY DEF SettledEdges, LiveEdges, Live
    <3>3. SettledEdges \subseteq blocks /\ SettledEdges' \subseteq blocks'
      BY DEF SettledEdges, LiveEdges
    <3> HIDE DEF s, d
    <3>4. CASE <<s, d>> \in SettledEdges'
      BY <2>2, <3>1, <3>2, <3>3, <3>4
    <3>5. CASE <<s, d>> \notin SettledEdges'
      BY <2>2, <3>1, <3>2, <3>3, <3>5
    <3>6. QED
      BY <3>4, <3>5
  <2>9. QED
    BY <2>4, <2>6, <2>8
<1>3. QED
  BY <1>1, <1>2

\* The relation handlers, raced against each other and against the trash,
\* implement the graph that never closes a cycle.
THEOREM Refinement == Spec => ImplementsGraph
<1>1. Init => Graph!Init
  BY DEF Init, Graph!Init, SettledEdges, LiveEdges
<1>2. RelationInv /\ [Next]_vars => [Graph!Next]_SettledEdges
  <2>1. ASSUME RelationInv, Next PROVE [Graph!Next]_SettledEdges
    <3>1. PICK c \in Clients : Step(c) /\ Record
      BY <2>1 DEF Next
    <3>2. \/ SettledEdges' \subseteq SettledEdges
          \/ \E s, d \in Tasks : /\ s \notin Reach(Tasks, SettledEdges, d)
                                 /\ SettledEdges' = SettledEdges \cup {<<s, d>>}
      BY <2>1, <3>1, SettledEdgesStep
    <3>3. CASE SettledEdges' \subseteq SettledEdges
      BY <3>3 DEF Graph!Next, Graph!Unlink
    <3>4. CASE \E s, d \in Tasks : /\ s \notin Reach(Tasks, SettledEdges, d)
                                   /\ SettledEdges' = SettledEdges \cup {<<s, d>>}
      BY <3>4 DEF Graph!Next, Graph!Link, Graph!Reach, Graph!Closed, Reach, Closed
    <3>5. QED
      BY <3>2, <3>3, <3>4
  <2>2. ASSUME UNCHANGED vars PROVE UNCHANGED SettledEdges
    BY <2>2 DEF vars, db, history, SettledEdges, LiveEdges, Live
  <2>3. QED
    BY <2>1, <2>2
<1>3. QED
  BY <1>1, <1>2, RelationInvariant, PTL DEF Spec, ImplementsGraph, Graph!Spec

GraphProofs == INSTANCE DependencyGraph_proofs WITH edges <- SettledEdges

\* Hence no cycle ever closes among tasks that were never restored.
THEOREM SettledAcyclic == Spec => []SettledGraphAcyclic
<1>1. ImplementsGraph => GraphProofs!Spec
  BY DEF ImplementsGraph, Graph!Spec, GraphProofs!Spec, Graph!Init, GraphProofs!Init,
         Graph!Next, GraphProofs!Next, Graph!Link, GraphProofs!Link, Graph!Unlink,
         GraphProofs!Unlink, Graph!Reach, GraphProofs!Reach, Graph!Closed, GraphProofs!Closed
<1>2. GraphProofs!Spec => []GraphProofs!NoCycle
  BY GraphProofs!GraphAcyclic
<1>3. GraphProofs!NoCycle => SettledGraphAcyclic
  BY DEF GraphProofs!NoCycle, GraphProofs!Acyclic, GraphProofs!Reach, GraphProofs!Closed,
         SettledGraphAcyclic, Acyclic, Reach, Closed
<1>4. QED
  BY <1>1, <1>2, <1>3, Refinement, PTL

-----------------------------------------------------------------------------
(* The completion gate: no task is completed with an open required item of   *)
(* its checklist or an open blocker, but in the ways waived records.  The     *)
(* argument is about the time between the gate of a task and the commit that  *)
(* completes it, in which only the task's row is locked.                      *)

\* What the gate promises: the checklist always, the blockers as long as one
\* read of GateTake rows sees them all.
Promised == IF Cardinality(Tasks) <= GateTake THEN {"blockers", "dod"} ELSE {"dod"}

\* A recurring task never goes back to a done column.
OriginStaysOpen == Recurring = {} \/ \A l \in Layouts : Origin \notin l

Clear(t, why) ==
    IF why = "dod" THEN dod[t] # "pending" ELSE \A b \in Blockers(t) : ~Open(b)

\* The request has been through the gate with t and has not committed yet.
Passed(c, t) ==
    /\ At(c, "moving") /\ t \in DOMAIN req[c].seen /\ NeedsGate(req[c], t)
    /\ \A i \in DOMAIN req[c].gate : req[c].gate[i] # t

CompletedClear ==
    \A t \in Tasks, why \in Promised :
        Completed(t) /\ <<t, why>> \notin waived => Clear(t, why)

\* Until it commits it holds the row, and what the gate saw stays as it was.
PassedHold ==
    \A c \in Clients, t \in Tasks : Passed(c, t) =>
        /\ rowLock[t] = c
        /\ \A why \in Promised : <<t, why>> \notin waived => Clear(t, why)

\* A request about to insert a blocking relation holds its target, which is not
\* completed unless the layout did that.
TargetsHold ==
    \A c \in Clients, t \in Tasks : req[c].pc \in {"target", "acyclic"} /\ req[c].dst = t =>
        /\ status[t] # "absent" /\ rowLock[t] = c
        /\ Completed(t) => <<t, "blockers">> \in waived

\* completedAt is set for the reason the gate looked at.
StampJustified(r) ==
    \A t \in r.stamp : IF r.bulk THEN r.to \in r.seenDone ELSE r.to \in AutoCols

MovesJustified ==
    \A c \in Clients : At(c, "moving") =>
        /\ \A t \in DOMAIN req[c].seen : status[t] # "absent"
        /\ StampJustified(req[c])

AbsentBlank == \A t \in Tasks : status[t] = "absent" => dod[t] = "none"

RecurrencesDue == \A c \in Clients : At(c, "landed") => req[c].due \subseteq Recurring

GateInv ==
    /\ RelationInv /\ CompletedClear /\ PassedHold /\ TargetsHold /\ MovesJustified
    /\ AbsentBlank /\ RecurrencesDue /\ doneCols \in Layouts

-----------------------------------------------------------------------------
(* What one step can do *)

\* The steps of a request that is over at once.
ShortStep(c) ==
    \/ RemoveRelation(c) \/ CreateTask(c) \/ TrashTask(c) \/ RestoreTask(c)
    \/ AddChecklistItem(c) \/ ChangeChecklistItem(c) \/ ReshapeBoard(c)

\* Every step of a client is one of these, or a rollback.
LEMMA StepCases ==
    ASSUME NEW c \in Clients, Step(c)
    PROVE  \/ Fail(c) \/ ShortStep(c)
           \/ StartRelate(c) \/ StartPurge(c) \/ StartMove(c)
           \/ ~Fail(c) /\ ( \/ TakeAdvisory(c) \/ LockTarget(c) \/ CheckCycle(c)
                            \/ InsertRelation(c) \/ GateTask(c) \/ CommitMove(c)
                            \/ Recur(c) \/ PurgeTask(c) )
BY DEF Step, Arrive, Continue, Abort, DeadlockVictim, ShortStep

\* The end of a request, with its locks given back or none to give back.
LEMMA FailEffect ==
    ASSUME TypeOK, NEW c \in Clients, Fail(c)
    PROVE  /\ UNCHANGED db /\ req'[c] = Idle
           /\ \A d \in Clients : d # c => req'[d] = req[d]
           /\ \A t \in Tasks : rowLock'[t] = IF rowLock[t] = c THEN NoOne ELSE rowLock[t]
BY DEF Fail, Go, Release, TypeOK

\* The handlers of one statement leave requests and locks alone.
LEMMA ShortEffect ==
    ASSUME NEW c \in Clients, ShortStep(c)
    PROVE  At(c, "idle") /\ req' = req /\ rowLock' = rowLock
BY DEF ShortStep, RemoveRelation, CreateTask, TrashTask, RestoreTask, AddChecklistItem,
       ChangeChecklistItem, ReshapeBoard

\* A completing move between its snapshot and its first gate.
LEMMA StartMoveEffect ==
    ASSUME TypeOK, NEW c \in Clients, StartMove(c)
    PROVE  /\ UNCHANGED <<db, advisory, rowLock>>
           /\ \A d \in Clients : d # c => req'[d] = req[d]
           /\ req'[c].pc = "moving"
           /\ \A t \in DOMAIN req'[c].seen : Live(t)
           /\ \A t \in DOMAIN req'[c].seen : NeedsGate(req'[c], t) =>
                 \E i \in DOMAIN req'[c].gate : req'[c].gate[i] = t
           /\ StampJustified(req'[c])
<1>1. PICK ids \in SUBSET {t \in Tasks : Live(t)}, to \in Columns, bulk \in BOOLEAN :
         LET r == [pc |-> "moving", bulk |-> bulk, seen |-> [t \in ids |-> col[t]],
                   seenDone |-> doneCols, to |-> to, stamp |-> Stamped(ids, to, bulk), gate |-> <<>>] IN
           \E q \in Orderings({t \in ids : NeedsGate(r, t)}) : Go(c, [r EXCEPT !.gate = q])
  BY DEF StartMove
<1> DEFINE r == [pc |-> "moving", bulk |-> bulk, seen |-> [t \in ids |-> col[t]],
                 seenDone |-> doneCols, to |-> to, stamp |-> Stamped(ids, to, bulk), gate |-> <<>>]
           Q == {t \in ids : NeedsGate(r, t)}
<1>2. PICK q \in Orderings(Q) : Go(c, [r EXCEPT !.gate = q])
  BY <1>1
<1>3. req'[c] = [r EXCEPT !.gate = q] /\ \A d \in Clients : d # c => req'[d] = req[d]
  BY <1>2 DEF Go, TypeOK
<1>4. /\ req'[c].pc = "moving" /\ req'[c].seen = [t \in ids |-> col[t]] /\ req'[c].gate = q
      /\ req'[c].seenDone = doneCols /\ req'[c].to = to /\ req'[c].bulk = bulk
      /\ req'[c].stamp = Stamped(ids, to, bulk)
  BY <1>3
<1>5. \A t \in Q : \E i \in DOMAIN q : q[i] = t
  <2>1. IsFiniteSet(Q)
    <3>1. Q \in SUBSET Tasks
      OBVIOUS
    <3> HIDE DEF Q
    <3>2. QED
      BY <3>1, FS_Subset, ConstantsOK
  <2> HIDE DEF Q
  <2>2. Cardinality(Q) \in Nat
    BY <2>1, FS_CardinalityType
  <2>3. q \in Injection(1 .. Cardinality(Q), Q)
    BY DEF Orderings, Injection, IsInjective
  <2>4. Cardinality(1 .. Cardinality(Q)) = Cardinality(Q)
    BY <2>2, FS_Interval
  <2>5. q \in Surjection(1 .. Cardinality(Q), Q)
    BY <2>1, <2>3, <2>4, FS_Injection
  <2>6. QED
    BY <2>5 DEF Surjection
<1>6. \A t \in DOMAIN req'[c].seen : t \in ids
  BY <1>4
<1>7. \A t \in ids : NeedsGate(req'[c], t) => NeedsGate(r, t)
  BY <1>4 DEF NeedsGate
<1>8. StampJustified(req'[c])
  BY <1>4 DEF StampJustified, Stamped
<1>9. UNCHANGED <<db, advisory, rowLock>>
  BY DEF StartMove
<1> HIDE DEF r
<1>10. QED
  BY <1>3, <1>4, <1>5, <1>6, <1>7, <1>8, <1>9

\* One task through the gate.
LEMMA GateEffect ==
    ASSUME TypeOK, NEW c \in Clients, GateTask(c), ~Fail(c)
    PROVE  /\ UNCHANGED <<db, advisory>>
           /\ \A d \in Clients : d # c => req'[d] = req[d]
           /\ req[c] \in MoveRequests /\ req[c].gate # <<>> /\ Head(req[c].gate) \in Tasks
           /\ req'[c] = [req[c] EXCEPT !.gate = Tail(@)]
           /\ rowLock' = [rowLock EXCEPT ![Head(req[c].gate)] = c]
           /\ Free(c, Head(req[c].gate))
           /\ \E examined \in Examined(Head(req[c].gate)) : GateOK(Head(req[c].gate), examined)
<1>1. /\ req' = [req EXCEPT ![c].gate = Tail(@)] /\ req[c].pc = "moving" /\ req[c].gate # <<>>
      /\ rowLock' = [rowLock EXCEPT ![Head(req[c].gate)] = c] /\ UNCHANGED <<db, advisory>>
      /\ Free(c, Head(req[c].gate))
      /\ \E examined \in Examined(Head(req[c].gate)) : GateOK(Head(req[c].gate), examined)
  BY DEF GateTask, At
<1>2. req[c] \in MoveRequests
  BY <1>1, RequestKinds DEF TypeOK
<1>3. Head(req[c].gate) \in Tasks
  BY <1>1, <1>2 DEF MoveRequests
<1>4. req'[c] = [req[c] EXCEPT !.gate = Tail(@)] /\ \A d \in Clients : d # c => req'[d] = req[d]
  BY <1>1 DEF TypeOK
<1>5. QED
  BY <1>1, <1>2, <1>3, <1>4

\* The commit of a move.
LEMMA CommitEffect ==
    ASSUME TypeOK, NEW c \in Clients, CommitMove(c), ~Fail(c)
    PROVE  /\ UNCHANGED <<status, dod, doneCols, blocks, relates>>
           /\ \A d \in Clients : d # c => req'[d] = req[d]
           /\ req[c] \in MoveRequests /\ req[c].gate = <<>>
           /\ req'[c] = Idle \/ (req'[c].pc = "landed" /\ req'[c].due \subseteq Recurring)
           /\ \A t \in Tasks : col'[t] = IF MovedTo(req[c], t) THEN req[c].to ELSE col[t]
           /\ \A t \in Tasks : completedAt'[t] <=> completedAt[t] \/ (MovedTo(req[c], t) /\ t \in req[c].stamp)
           /\ \A t \in Tasks : rowLock'[t] = IF rowLock[t] = c THEN NoOne ELSE rowLock[t]
<1>1. /\ UNCHANGED <<status, dod, doneCols, blocks, relates>>
      /\ col' = [t \in Tasks |-> IF MovedTo(req[c], t) THEN req[c].to ELSE col[t]]
      /\ Go(c, IF DueAfter(req[c]) = {} THEN Idle ELSE [pc |-> "landed", due |-> DueAfter(req[c])])
      /\ Release(c) /\ At(c, "moving") /\ req[c].gate = <<>>
  BY DEF CommitMove
<1>2. completedAt' = [t \in Tasks |-> completedAt[t] \/ (MovedTo(req[c], t) /\ t \in req[c].stamp)]
  BY DEF CommitMove
<1>3. \A t \in Tasks : completedAt'[t] <=> completedAt[t] \/ (MovedTo(req[c], t) /\ t \in req[c].stamp)
  BY <1>2, Zenon
<1>4. req[c] \in MoveRequests
  BY <1>1, RequestKinds DEF TypeOK, At
<1>5. req'[c] = (IF DueAfter(req[c]) = {} THEN Idle ELSE [pc |-> "landed", due |-> DueAfter(req[c])])
      /\ \A d \in Clients : d # c => req'[d] = req[d]
  BY <1>1 DEF Go, TypeOK
<1>6. DueAfter(req[c]) \subseteq Recurring
  BY DEF DueAfter
<1>7. \A t \in Tasks : rowLock'[t] = IF rowLock[t] = c THEN NoOne ELSE rowLock[t]
  BY <1>1 DEF Release
<1>8. QED
  BY <1>1, <1>3, <1>4, <1>5, <1>6, <1>7

\* One recurrence.
LEMMA RecurEffect ==
    ASSUME TypeOK, RecurrencesDue, NEW c \in Clients, Recur(c), ~Fail(c)
    PROVE  /\ UNCHANGED <<status, dod, doneCols, blocks, relates, advisory, rowLock>>
           /\ \A d \in Clients : d # c => req'[d] = req[d]
           /\ req'[c] = Idle \/ (req'[c].pc = "landed" /\ req'[c].due \subseteq Recurring)
           /\ \E t \in Recurring : col' = [col EXCEPT ![t] = Origin]
                                   /\ completedAt' = [completedAt EXCEPT ![t] = FALSE]
<1>1. PICK t \in req[c].due :
         /\ col' = [col EXCEPT ![t] = Origin]
         /\ completedAt' = [completedAt EXCEPT ![t] = FALSE]
         /\ Go(c, IF req[c].due = {t} THEN Idle ELSE [req[c] EXCEPT !.due = @ \ {t}])
         /\ UNCHANGED <<status, dod, doneCols, blocks, relates, advisory, rowLock>>
  BY DEF Recur
<1>2. At(c, "landed") /\ req[c] \in [pc : {"landed"}, due : SUBSET Tasks]
  BY RequestKinds DEF Recur, At, TypeOK
<1>3. req[c].due \subseteq Recurring
  BY <1>2 DEF RecurrencesDue
<1>4. req'[c] = (IF req[c].due = {t} THEN Idle ELSE [req[c] EXCEPT !.due = @ \ {t}])
      /\ \A d \in Clients : d # c => req'[d] = req[d]
  BY <1>1 DEF Go, TypeOK
<1>5. [req[c] EXCEPT !.due = @ \ {t}].pc = "landed" /\ [req[c] EXCEPT !.due = @ \ {t}].due \subseteq Recurring
  BY <1>2, <1>3
<1>6. QED
  BY <1>1, <1>3, <1>4, <1>5

\* The steps of TaskRelationsService.create before its insertion.
LEMMA CreationEffect ==
    ASSUME TypeOK, NEW c \in Clients, ~Fail(c),
           TakeAdvisory(c) \/ LockTarget(c) \/ CheckCycle(c)
    PROVE  /\ UNCHANGED db
           /\ \A d \in Clients : d # c => req'[d] = req[d]
           /\ req[c] \in RelationRequests /\ req'[c] \in RelationRequests
           /\ req'[c].dst = req[c].dst
           /\ \/ TakeAdvisory(c) /\ req'[c].pc = "advisory" /\ rowLock' = rowLock
              \/ /\ LockTarget(c) /\ req'[c].pc = "target" /\ Free(c, req[c].dst)
                 /\ Exists(req[c].dst) /\ ~Completed(req[c].dst)
                 /\ rowLock' = [rowLock EXCEPT ![req[c].dst] = c]
              \/ /\ CheckCycle(c) /\ req[c].pc = "target" /\ req'[c].pc = "acyclic" /\ rowLock' = rowLock
<1>1. PICK p \in {"advisory", "target", "acyclic"} :
        /\ Goto(c, p) /\ UNCHANGED db
        /\ \/ TakeAdvisory(c) /\ p = "advisory" /\ rowLock' = rowLock
           \/ /\ LockTarget(c) /\ p = "target" /\ Free(c, req[c].dst)
              /\ Exists(req[c].dst) /\ ~Completed(req[c].dst)
              /\ rowLock' = [rowLock EXCEPT ![req[c].dst] = c]
           \/ CheckCycle(c) /\ req[c].pc = "target" /\ p = "acyclic" /\ rowLock' = rowLock
  BY DEF TakeAdvisory, LockTarget, CheckCycle, At
<1>2. req[c].pc \in RelationPC
  BY DEF TakeAdvisory, LockTarget, CheckCycle, At, RelationPC
<1>3. req'[c] = [req[c] EXCEPT !.pc = p] /\ \A d \in Clients : d # c => req'[d] = req[d]
  BY <1>1, <1>2, GotoTypes DEF RelationPC
<1>4. req[c] \in RelationRequests
  BY <1>2, RequestKinds DEF TypeOK
<1>5. req'[c] \in RelationRequests /\ req'[c].dst = req[c].dst /\ req'[c].pc = p
  BY <1>3, <1>4 DEF RelationRequests, RelationPC
<1>6. QED
  BY <1>1, <1>3, <1>4, <1>5

\* The insertion of a relation.
LEMMA InsertEffect ==
    ASSUME TypeOK, NEW c \in Clients, InsertRelation(c), ~Fail(c)
    PROVE  /\ UNCHANGED <<status, col, completedAt, dod, doneCols>>
           /\ \A d \in Clients : d # c => req'[d] = req[d]
           /\ req'[c] = Idle /\ req[c] \in RelationRequests
           /\ Free(c, req[c].dst)
           /\ \/ blocks' = blocks
              \/ req[c].pc = "acyclic" /\ blocks' = blocks \cup {<<req[c].src, req[c].dst>>}
           /\ \A t \in Tasks : rowLock'[t] = IF rowLock[t] = c THEN NoOne ELSE rowLock[t]
<1>1. /\ UNCHANGED <<status, col, completedAt, dod, doneCols>>
      /\ Go(c, Idle) /\ Release(c) /\ ReadyToInsert(c) /\ Free(c, req[c].dst)
      /\ IF req[c].kind = "BLOCKS" THEN blocks' = blocks \cup {<<req[c].src, req[c].dst>>} ELSE blocks' = blocks
  BY DEF InsertRelation
<1>2. req[c] \in RelationRequests
  BY <1>1, RequestKinds DEF ReadyToInsert, At, TypeOK, RelationPC
<1>3. req[c].kind = "BLOCKS" => req[c].pc = "acyclic"
  BY <1>1 DEF ReadyToInsert, At
<1>4. QED
  BY <1>1, <1>2, <1>3 DEF Go, Release, TypeOK

\* Requests that begin, and the purge.
LEMMA OtherEffect ==
    ASSUME TypeOK, NEW c \in Clients, StartRelate(c) \/ StartPurge(c) \/ (PurgeTask(c) /\ ~Fail(c))
    PROVE  /\ UNCHANGED <<col, completedAt, dod, doneCols, rowLock>>
           /\ \A d \in Clients : d # c => req'[d] = req[d]
           /\ req'[c].pc \in {"read", "purging", "idle"}
           /\ blocks' \subseteq blocks
           /\ \A t \in Tasks : status[t] # "absent" <=> status'[t] # "absent"
<1>1. CASE StartRelate(c)
  BY <1>1 DEF StartRelate, Go, TypeOK, db
<1>2. CASE StartPurge(c)
  BY <1>2 DEF StartPurge, Go, TypeOK, db
<1>3. CASE PurgeTask(c) /\ ~Fail(c)
  <2>1. /\ status' = [status EXCEPT ![req[c].task] = "purged"]
        /\ blocks' = {e \in blocks : req[c].task \notin {e[1], e[2]}}
        /\ Go(c, Idle) /\ UNCHANGED <<col, completedAt, dod, doneCols, rowLock>>
        /\ Exists(req[c].task)
    BY <1>3 DEF PurgeTask
  <2>2. QED
    BY <2>1 DEF Go, Idle, Exists, TypeOK
<1>4. QED
  BY <1>1, <1>2, <1>3

-----------------------------------------------------------------------------
(* What no step does behind the back of a lock *)

\* A row lock is only given up by its holder.
LEMMA LocksStay ==
    ASSUME TypeOK, RecurrencesDue, NEW c \in Clients, Step(c), NEW d \in Clients, d # c,
           NEW t \in Tasks, rowLock[t] = d
    PROVE  rowLock'[t] = d /\ ~Free(c, t)
<1>1. d # NoOne
  BY ConstantsOK
<1>2. CASE Fail(c)
  BY <1>1, <1>2, FailEffect DEF Free
<1>3. CASE ShortStep(c)
  BY <1>1, <1>3, ShortEffect DEF Free
<1>4. CASE StartRelate(c) \/ StartPurge(c) \/ (PurgeTask(c) /\ ~Fail(c))
  BY <1>1, <1>4, OtherEffect DEF Free
<1>5. CASE StartMove(c)
  BY <1>1, <1>5, StartMoveEffect DEF Free
<1>6. CASE ~Fail(c) /\ (TakeAdvisory(c) \/ LockTarget(c) \/ CheckCycle(c))
  BY <1>1, <1>6, CreationEffect DEF Free, TypeOK
<1>7. CASE ~Fail(c) /\ InsertRelation(c)
  BY <1>1, <1>7, InsertEffect DEF Free
<1>8. CASE ~Fail(c) /\ GateTask(c)
  BY <1>1, <1>8, GateEffect DEF Free, TypeOK
<1>9. CASE ~Fail(c) /\ CommitMove(c)
  BY <1>1, <1>9, CommitEffect DEF Free
<1>10. CASE ~Fail(c) /\ Recur(c)
  BY <1>1, <1>10, RecurEffect DEF Free
<1>11. QED
  BY <1>2, <1>3, <1>4, <1>5, <1>6, <1>7, <1>8, <1>9, <1>10, StepCases

\* Nor does anybody touch the request of another.
LEMMA OthersStay ==
    ASSUME TypeOK, RecurrencesDue, NEW c \in Clients, Step(c), NEW d \in Clients, d # c
    PROVE  req'[d] = req[d]
<1>1. CASE Fail(c) \/ ShortStep(c)
  BY <1>1, FailEffect, ShortEffect
<1>2. CASE StartRelate(c) \/ StartPurge(c) \/ StartMove(c) \/ (PurgeTask(c) /\ ~Fail(c))
  BY <1>2, OtherEffect, StartMoveEffect
<1>3. CASE ~Fail(c) /\ (TakeAdvisory(c) \/ LockTarget(c) \/ CheckCycle(c))
  BY <1>3, CreationEffect
<1>4. CASE ~Fail(c) /\ (InsertRelation(c) \/ GateTask(c) \/ CommitMove(c) \/ Recur(c))
  BY <1>4, InsertEffect, GateEffect, CommitEffect, RecurEffect
<1>5. QED
  BY <1>1, <1>2, <1>3, <1>4, StepCases

\* A task that was created stays or is purged.
LEMMA NeverAbsentAgain ==
    ASSUME TypeOK, RecurrencesDue, NEW c \in Clients, Step(c), NEW t \in Tasks, status[t] # "absent"
    PROVE  status'[t] # "absent"
<1>1. CASE Fail(c)
  BY <1>1, FailEffect DEF db
<1>2. CASE ShortStep(c)
  BY <1>2 DEF ShortStep, RemoveRelation, CreateTask, TrashTask, RestoreTask, AddChecklistItem,
              ChangeChecklistItem, ReshapeBoard, TypeOK
<1>3. CASE StartRelate(c) \/ StartPurge(c) \/ (PurgeTask(c) /\ ~Fail(c))
  BY <1>3, OtherEffect
<1>4. CASE StartMove(c) \/ (~Fail(c) /\ (TakeAdvisory(c) \/ LockTarget(c) \/ CheckCycle(c)))
  BY <1>4, StartMoveEffect, CreationEffect DEF db
<1>5. CASE ~Fail(c) /\ (InsertRelation(c) \/ GateTask(c) \/ CommitMove(c) \/ Recur(c))
  BY <1>5, InsertEffect, GateEffect, CommitEffect, RecurEffect DEF db
<1>6. QED
  BY <1>1, <1>2, <1>3, <1>4, <1>5, StepCases

\* Checklists only change in the handlers of one statement.
LEMMA ChecklistsStay ==
    ASSUME TypeOK, RecurrencesDue, NEW c \in Clients, Step(c), ~ShortStep(c)
    PROVE  dod' = dod
<1>1. CASE Fail(c) \/ StartMove(c) \/ (~Fail(c) /\ (TakeAdvisory(c) \/ LockTarget(c) \/ CheckCycle(c)))
  BY <1>1, FailEffect, StartMoveEffect, CreationEffect DEF db
<1>2. CASE StartRelate(c) \/ StartPurge(c) \/ (PurgeTask(c) /\ ~Fail(c))
  BY <1>2, OtherEffect
<1>3. CASE ~Fail(c) /\ (InsertRelation(c) \/ GateTask(c) \/ CommitMove(c) \/ Recur(c))
  BY <1>3, InsertEffect, GateEffect, CommitEffect, RecurEffect DEF db
<1>4. QED
  BY <1>1, <1>2, <1>3, StepCases

\* A new required item is reopened from a met list, or waits for the row.
LEMMA ItemsWait ==
    ASSUME TypeOK, RecurrencesDue, NEW c \in Clients, Step(c), NEW t \in Tasks,
           dod[t] # "pending", dod'[t] = "pending"
    PROVE  status[t] = "absent" \/ dod[t] = "met" \/ Free(c, t)
<1>1. ShortStep(c)
  BY ChecklistsStay
<1>2. CASE CreateTask(c)
  BY <1>2 DEF CreateTask, TypeOK
<1>3. CASE AddChecklistItem(c)
  BY <1>3 DEF AddChecklistItem, TypeOK
<1>4. CASE ChangeChecklistItem(c)
  BY <1>4 DEF ChangeChecklistItem, TypeOK
<1>5. CASE RemoveRelation(c) \/ TrashTask(c) \/ RestoreTask(c) \/ ReshapeBoard(c)
  BY <1>5 DEF RemoveRelation, TrashTask, RestoreTask, ReshapeBoard
<1>6. QED
  BY <1>1, <1>2, <1>3, <1>4, <1>5 DEF ShortStep

\* A task that is not created yet has no checklist.
LEMMA AbsentStaysBlank ==
    ASSUME TypeOK, RecurrencesDue, AbsentBlank, NEW c \in Clients, Step(c)
    PROVE  AbsentBlank'
<1>1. SUFFICES ASSUME NEW t \in Tasks, status'[t] = "absent" PROVE dod'[t] = "none"
  BY DEF AbsentBlank
<1>2. status[t] = "absent" /\ dod[t] = "none"
  BY <1>1, NeverAbsentAgain DEF AbsentBlank
<1>3. CASE ~ShortStep(c)
  BY <1>2, <1>3, ChecklistsStay
<1>4. CASE CreateTask(c)
  BY <1>1, <1>2, <1>4 DEF CreateTask, TypeOK
<1>5. CASE AddChecklistItem(c)
  BY <1>2, <1>5 DEF AddChecklistItem, Live, TypeOK
<1>6. CASE ChangeChecklistItem(c)
  BY <1>2, <1>6 DEF ChangeChecklistItem, Live, TypeOK
<1>7. CASE RemoveRelation(c) \/ TrashTask(c) \/ RestoreTask(c) \/ ReshapeBoard(c)
  BY <1>2, <1>7 DEF RemoveRelation, TrashTask, RestoreTask, ReshapeBoard
<1>8. QED
  BY <1>3, <1>4, <1>5, <1>6, <1>7 DEF ShortStep

\* A new blocking relation is inserted by the holder of its target.
LEMMA EdgesWait ==
    ASSUME TypeOK, RecurrencesDue, NEW c \in Clients, Step(c),
           NEW b \in Tasks, NEW t \in Tasks, <<b, t>> \in blocks', <<b, t>> \notin blocks
    PROVE  /\ req[c].pc = "acyclic" /\ req[c].dst = t /\ Free(c, t)
           /\ UNCHANGED <<status, col, completedAt, dod, doneCols>>
<1>1. InsertRelation(c) /\ ~Fail(c)
  BY DEF Step, Arrive, Continue, Abort, DeadlockVictim, StartRelate, RemoveRelation,
         StartMove, CreateTask, TrashTask, RestoreTask, StartPurge, AddChecklistItem,
         ChangeChecklistItem, ReshapeBoard, TakeAdvisory, LockTarget, CheckCycle,
         GateTask, CommitMove, Recur, PurgeTask, Fail, db
<1>2. QED
  BY <1>1, InsertEffect

\* A task becomes completed through its gate, by the layout, by a stale move, or
\* when it is created.
LEMMA CompletionsPass ==
    ASSUME GateInv, OriginStaysOpen, NEW c \in Clients, Step(c), NEW t \in Tasks,
           status[t] # "absent", ~Completed(t), Completed(t)', doneCols' = doneCols,
           ~CompletedOnStaleRead(t)
    PROVE  Passed(c, t) /\ UNCHANGED <<status, dod, doneCols, blocks>>
<1>1. TypeOK /\ RecurrencesDue /\ MovesJustified /\ doneCols \in Layouts
  BY DEF GateInv, RelationInv
<1>2. \/ col'[t] # col[t] /\ col'[t] \in doneCols
      \/ completedAt'[t] /\ ~completedAt[t]
  BY DEF Completed
<1>3. ~(Fail(c) \/ StartRelate(c) \/ StartPurge(c) \/ StartMove(c))
  BY <1>1, <1>2, FailEffect, OtherEffect, StartMoveEffect DEF db
<1>4. ~ShortStep(c)
  BY <1>1, <1>2 DEF ShortStep, RemoveRelation, CreateTask, TrashTask, RestoreTask,
                    AddChecklistItem, ChangeChecklistItem, ReshapeBoard, TypeOK
<1>5. ~(TakeAdvisory(c) \/ LockTarget(c) \/ CheckCycle(c) \/ InsertRelation(c) \/ GateTask(c) \/ PurgeTask(c))
  BY <1>1, <1>2, <1>3, CreationEffect, InsertEffect, GateEffect, OtherEffect DEF db
<1>6. ~Recur(c)
  <2>1. SUFFICES ASSUME Recur(c) PROVE FALSE
    OBVIOUS
  <2>2. PICK u \in Recurring : col' = [col EXCEPT ![u] = Origin]
                               /\ completedAt' = [completedAt EXCEPT ![u] = FALSE]
    BY <1>1, <1>3, <2>1, RecurEffect
  <2>3. u \in Tasks /\ Origin \notin doneCols
    BY <1>1, <2>2, ConstantsOK DEF OriginStaysOpen
  <2>4. QED
    BY <1>1, <1>2, <2>2, <2>3 DEF TypeOK
<1>7. CommitMove(c) /\ ~Fail(c)
  BY <1>3, <1>4, <1>5, <1>6, StepCases
<1> DEFINE r == req[c]
<1>8. /\ UNCHANGED <<status, dod, doneCols, blocks>>
      /\ r \in MoveRequests /\ r.gate = <<>>
      /\ col'[t] = IF MovedTo(r, t) THEN r.to ELSE col[t]
      /\ completedAt'[t] <=> completedAt[t] \/ (MovedTo(r, t) /\ t \in r.stamp)
      /\ req'[c].pc # "moving"
  BY <1>1, <1>7, CommitEffect DEF Idle
<1>9. MovedTo(r, t) /\ At(c, "moving") /\ t \in DOMAIN r.seen
  BY <1>2, <1>7, <1>8 DEF CommitMove, MovedTo
<1>10. StampJustified(r)
  BY <1>1, <1>9 DEF MovesJustified
<1>11. NeedsGate(r, t)
  <2>1. SUFFICES ASSUME ~NeedsGate(r, t) PROVE FALSE
    OBVIOUS
  <2>2. r.seen[t] = col[t] /\ r.seenDone = doneCols
    BY <1>8, <1>9, <2>1 DEF CompletedOnStaleRead, At
  <2>3. col[t] \notin doneCols
    BY DEF Completed
  <2>4. r.to \notin doneCols
    BY <2>1, <2>2, <2>3 DEF NeedsGate
  <2>5. t \in r.stamp
    BY <1>2, <1>8, <1>9, <2>4
  <2>6. ~r.bulk /\ r.to \in AutoCols
    BY <1>10, <2>2, <2>4, <2>5 DEF StampJustified
  <2>7. QED
    BY <1>9, <2>1, <2>6 DEF NeedsGate, MovedTo
<1>12. QED
  BY <1>8, <1>9, <1>11 DEF Passed

\* What decides on the completion of a task is not written while another request
\* holds its row.
LEMMA CompletionsNeedTheRow ==
    ASSUME TypeOK, RecurrencesDue, NEW c \in Clients, Step(c), NEW t \in Tasks,
           status[t] # "absent", ~Free(c, t)
    PROVE  col'[t] = col[t] /\ completedAt'[t] = completedAt[t]
<1>1. CASE Fail(c) \/ StartRelate(c) \/ StartPurge(c) \/ StartMove(c) \/ (PurgeTask(c) /\ ~Fail(c))
  BY <1>1, FailEffect, OtherEffect, StartMoveEffect DEF db
<1>2. CASE ShortStep(c)
  BY <1>2 DEF ShortStep, RemoveRelation, CreateTask, TrashTask, RestoreTask,
              AddChecklistItem, ChangeChecklistItem, ReshapeBoard, TypeOK
<1>3. CASE ~Fail(c) /\ (TakeAdvisory(c) \/ LockTarget(c) \/ CheckCycle(c) \/ InsertRelation(c) \/ GateTask(c))
  BY <1>3, CreationEffect, InsertEffect, GateEffect DEF db
<1>4. CASE ~Fail(c) /\ CommitMove(c)
  <2>1. ~MovedTo(req[c], t)
    BY <1>4 DEF CommitMove, MovedTo
  <2>2. completedAt' = [u \in Tasks |-> completedAt[u] \/ (MovedTo(req[c], u) /\ u \in req[c].stamp)]
    BY <1>4 DEF CommitMove
  <2>3. completedAt'[t] = (completedAt[t] \/ (MovedTo(req[c], t) /\ t \in req[c].stamp))
    BY <2>2, Zenon
  <2>4. completedAt'[t] = completedAt[t]
    BY <2>1, <2>3 DEF TypeOK
  <2>5. QED
    BY <1>4, <2>1, <2>4, CommitEffect
<1>5. CASE ~Fail(c) /\ Recur(c)
  <2>1. PICK u \in req[c].due : /\ Free(c, u)
                                /\ col' = [col EXCEPT ![u] = Origin]
                                /\ completedAt' = [completedAt EXCEPT ![u] = FALSE]
    BY <1>5 DEF Recur
  <2>2. u # t
    BY <2>1
  <2>3. QED
    BY <2>1, <2>2 DEF TypeOK
<1>6. QED
  BY <1>1, <1>2, <1>3, <1>4, <1>5, StepCases

-----------------------------------------------------------------------------
(* The invariant is inductive *)

\* What waived says of a task that is completed or locked after a step.
LEMMA Unwaived ==
    ASSUME Record, NEW t \in Tasks, NEW why \in {"blockers", "dod"},
           Completed(t)' \/ rowLock'[t] # NoOne, <<t, why>> \notin waived'
    PROVE  <<t, why>> \notin waived /\ ~Waives(t, why)
<1> DEFINE w == <<t, why>>
<1>1. w \in Tasks \X {"blockers", "dod"} /\ w[1] = t /\ w[2] = why
  OBVIOUS
<1>2. ~(w \in waived \/ Waives(w[1], w[2]))
  BY <1>1 DEF Record
<1>3. QED
  BY <1>1, <1>2

\* What the gate saw of a task stays true while the row is locked by another.
LEMMA ClearStays ==
    ASSUME GateInv, NEW c \in Clients, Step(c), Record, NEW t \in Tasks, NEW why \in Promised,
           status[t] # "absent", ~Free(c, t), rowLock'[t] # NoOne,
           <<t, why>> \notin waived', Clear(t, why)
    PROVE  Clear(t, why)'
<1>1. TypeOK /\ RecurrencesDue /\ why \in {"blockers", "dod"}
  BY DEF GateInv, RelationInv, Promised
<1>2. ~Waives(t, why)
  BY <1>1, Unwaived
<1>3. CASE why = "dod"
  BY <1>1, <1>2, <1>3, ItemsWait DEF Waives, Clear
<1>4. CASE why = "blockers"
  <2>1. SUFFICES ASSUME NEW b \in Tasks, <<b, t>> \in blocks' PROVE ~Open(b)'
    BY <1>4 DEF Clear, Blockers
  <2>2. <<b, t>> \in blocks
    BY <1>1, <2>1, EdgesWait
  <2>3. ~Open(b)
    BY <1>4, <2>2 DEF Clear, Blockers
  <2>4. ~Reopens(b)
    BY <1>2, <1>4, <2>1 DEF Waives
  <2>5. QED
    BY <2>3, <2>4 DEF Reopens
<1>5. QED
  BY <1>1, <1>3, <1>4

\* A task is completed with its promises kept, or the exception is on record.
LEMMA CompletedStaysClear ==
    ASSUME GateInv, OriginStaysOpen, NEW c \in Clients, Step(c), Record
    PROVE  CompletedClear'
<1>1. SUFFICES ASSUME NEW t \in Tasks, NEW why \in Promised, Completed(t)', <<t, why>> \notin waived'
               PROVE  Clear(t, why)'
  BY DEF CompletedClear
<1>2. TypeOK /\ RecurrencesDue /\ AbsentBlank /\ TargetsHold /\ why \in {"blockers", "dod"}
  BY DEF GateInv, RelationInv, Promised
<1>3. <<t, why>> \notin waived /\ ~Waives(t, why)
  BY <1>1, <1>2, Unwaived
<1>4. NoDanglingRelation /\ NoDanglingRelation'
  BY RelationInvInductive DEF GateInv, RelationInv
<1>5. CASE status[t] = "absent"
  <2>1. status'[t] = "absent"
    BY <1>1, <1>3, <1>5 DEF Waives, CompletedWithoutGate
  <2>2. dod'[t] = "none"
    BY <1>2, <2>1, AbsentStaysBlank DEF AbsentBlank
  <2>3. Blockers(t)' = {}
    BY <1>4, <2>1 DEF Blockers, NoDanglingRelation, Exists
  <2>4. QED
    BY <2>2, <2>3 DEF Clear
<1>6. CASE status[t] # "absent" /\ ~Completed(t)
  <2>1. doneCols' = doneCols /\ ~CompletedOnStaleRead(t)
    <3>1. status'[t] # "absent"
      BY <1>2, <1>6, NeverAbsentAgain
    <3>2. QED
      BY <1>1, <1>3, <1>6, <3>1 DEF Waives, CompletedWithoutGate
  <2>2. Passed(c, t) /\ UNCHANGED <<status, dod, doneCols, blocks>>
    BY <1>1, <1>6, <2>1, CompletionsPass
  <2>3. Clear(t, why)
    BY <1>3, <2>2 DEF GateInv, PassedHold
  <2>4. CASE why = "dod"
    BY <2>2, <2>3, <2>4 DEF Clear
  <2>5. CASE why = "blockers"
    <3>1. SUFFICES ASSUME NEW b \in Tasks, <<b, t>> \in blocks' PROVE ~Open(b)'
      BY <2>5 DEF Clear, Blockers
    <3>2. ~Open(b)
      BY <2>2, <2>3, <2>5, <3>1 DEF Clear, Blockers
    <3>3. ~Reopens(b)
      BY <1>1, <1>3, <2>5, <3>1 DEF Waives
    <3>4. QED
      BY <3>2, <3>3 DEF Reopens
  <2>6. QED
    BY <1>2, <2>4, <2>5
<1>7. CASE status[t] # "absent" /\ Completed(t)
  <2>1. Clear(t, why)
    BY <1>3, <1>7 DEF GateInv, CompletedClear
  <2>2. CASE why = "dod"
    BY <1>1, <1>3, <2>1, <2>2 DEF Clear, Waives
  <2>3. CASE why = "blockers"
    <3>1. SUFFICES ASSUME NEW b \in Tasks, <<b, t>> \in blocks' PROVE ~Open(b)'
      BY <2>3 DEF Clear, Blockers
    <3>2. <<b, t>> \in blocks
      <4>1. SUFFICES ASSUME <<b, t>> \notin blocks PROVE FALSE
        OBVIOUS
      <4>2. req[c].pc = "acyclic" /\ req[c].dst = t
        BY <1>2, <3>1, <4>1, EdgesWait
      <4>3. QED
        BY <1>2, <1>3, <1>7, <2>3, <4>2 DEF TargetsHold
    <3>3. ~Open(b)
      BY <2>1, <2>3, <3>2 DEF Clear, Blockers
    <3>4. ~Reopens(b)
      BY <1>1, <1>3, <2>3, <3>1 DEF Waives
    <3>5. QED
      BY <3>3, <3>4 DEF Reopens
  <2>4. QED
    BY <1>2, <2>2, <2>3
<1>8. QED
  BY <1>5, <1>6, <1>7

\* The step that takes a task through the gate establishes what it promises.
LEMMA GateEstablishes ==
    ASSUME GateInv, NEW c \in Clients, GateTask(c), ~Fail(c), Record, NEW t \in Tasks, Passed(c, t)'
    PROVE  /\ rowLock'[t] = c
           /\ \A why \in Promised : <<t, why>> \notin waived' => Clear(t, why)'
<1> DEFINE r == req[c]
           h == Head(r.gate)
<1>1. TypeOK
  BY DEF GateInv, RelationInv
<1>2. /\ UNCHANGED <<db, advisory>> /\ r \in MoveRequests /\ r.gate # <<>> /\ h \in Tasks
      /\ req'[c] = [r EXCEPT !.gate = Tail(@)]
      /\ rowLock' = [rowLock EXCEPT ![h] = c]
      /\ \E examined \in Examined(h) : GateOK(h, examined)
  BY <1>1, GateEffect
<1>3. /\ req'[c].pc = "moving" /\ req'[c].seen = r.seen /\ req'[c].seenDone = r.seenDone
      /\ req'[c].to = r.to /\ req'[c].bulk = r.bulk /\ req'[c].gate = Tail(r.gate) /\ r.pc = "moving"
  BY <1>2 DEF MoveRequests
<1>4. \A why : Clear(t, why) => Clear(t, why)'
  BY <1>2 DEF Clear, Blockers, Open, Live, Completed, db
<1>5. NeedsGate(r, t) /\ t \in DOMAIN r.seen /\ \A i \in DOMAIN Tail(r.gate) : Tail(r.gate)[i] # t
  BY <1>3 DEF Passed, NeedsGate
<1>6. CASE t = h
  <2>1. rowLock'[t] = c
    BY <1>1, <1>2, <1>6 DEF TypeOK
  <2>2. PICK examined \in Examined(t) : GateOK(t, examined)
    BY <1>2, <1>6
  <2>3. dod[t] # "pending"
    BY <2>2 DEF GateOK
  <2>4. ASSUME "blockers" \in Promised PROVE \A b \in Blockers(t) : ~Open(b)
    <3> DEFINE live == {b \in Blockers(t) : Live(b)}
    <3>1. Cardinality(Tasks) <= GateTake
      BY <2>4 DEF Promised
    <3>2. live \in SUBSET Tasks
      BY DEF Blockers
    <3>3. Cardinality(live) <= GateTake
      <4> HIDE DEF live
      <4>1. Cardinality(live) <= Cardinality(Tasks) /\ Cardinality(live) \in Nat /\ Cardinality(Tasks) \in Nat
        BY <3>2, ConstantsOK, FS_Subset, FS_CardinalityType
      <4>2. QED
        BY <3>1, <4>1, ConstantsOK
    <3>4. examined = live
      BY <2>2, <3>3 DEF Examined
    <3>5. QED
      BY <2>2, <3>4 DEF GateOK, Open
  <2>5. \A why \in Promised : Clear(t, why)
    BY <2>3, <2>4 DEF Clear, Promised
  <2>6. QED
    BY <1>4, <2>1, <2>5
<1>7. CASE t # h
  <2>1. \A i \in DOMAIN r.gate : r.gate[i] # t
    <3>1. SUFFICES ASSUME NEW i \in DOMAIN r.gate, r.gate[i] = t PROVE FALSE
      OBVIOUS
    <3>2. r.gate \in Seq(Tasks) /\ i \in 1 .. Len(r.gate)
      BY <1>2 DEF MoveRequests
    <3>3. i # 1
      BY <1>2, <1>7, <3>1, <3>2
    <3>4. i - 1 \in DOMAIN Tail(r.gate) /\ Tail(r.gate)[i - 1] = r.gate[i]
      BY <1>2, <3>2, <3>3
    <3>5. QED
      BY <1>5, <3>1, <3>4
  <2>2. Passed(c, t)
    BY <1>3, <1>5, <2>1 DEF Passed, At
  <2>3. rowLock[t] = c /\ \A why \in Promised : <<t, why>> \notin waived => Clear(t, why)
    BY <2>2 DEF GateInv, PassedHold
  <2>4. rowLock'[t] = c
    BY <1>1, <1>2, <1>7, <2>3 DEF TypeOK
  <2>5. \A why \in Promised : <<t, why>> \notin waived' => <<t, why>> \notin waived
    <3>1. c # NoOne
      BY ConstantsOK
    <3>2. Promised \subseteq {"blockers", "dod"}
      BY DEF Promised
    <3>3. QED
      BY <2>4, <3>1, <3>2, Unwaived
  <2>6. QED
    BY <1>4, <2>3, <2>4, <2>5
<1>8. QED
  BY <1>6, <1>7

\* Only the first two steps of a move leave a request among the moves.
LEMMA MovesBegin ==
    ASSUME TypeOK, RecurrencesDue, NEW c \in Clients, Step(c), At(c, "moving")'
    PROVE  StartMove(c) \/ (GateTask(c) /\ ~Fail(c))
<1>1. req'[c].pc = "moving"
  BY DEF At
<1>2. ~Fail(c) /\ ~ShortStep(c)
  BY <1>1, FailEffect, ShortEffect DEF Idle, At
<1>3. ~(StartRelate(c) \/ StartPurge(c) \/ PurgeTask(c))
  BY <1>1, <1>2, OtherEffect
<1>4. ~(TakeAdvisory(c) \/ LockTarget(c) \/ CheckCycle(c))
  BY <1>1, <1>2, CreationEffect DEF RelationRequests, RelationPC
<1>5. ~(InsertRelation(c) \/ CommitMove(c) \/ Recur(c))
  BY <1>1, <1>2, InsertEffect, CommitEffect, RecurEffect DEF Idle
<1>6. QED
  BY <1>2, <1>3, <1>4, <1>5, StepCases

\* A request past its gate keeps its row, and the row what the gate saw.
LEMMA PassedStaysHeld ==
    ASSUME GateInv, NEW c \in Clients, Step(c), Record
    PROVE  PassedHold'
<1>1. TypeOK /\ RecurrencesDue
  BY DEF GateInv, RelationInv
<1>2. SUFFICES ASSUME NEW d \in Clients, NEW t \in Tasks, Passed(d, t)'
               PROVE  /\ rowLock'[t] = d
                      /\ \A why \in Promised : <<t, why>> \notin waived' => Clear(t, why)'
  BY DEF PassedHold
<1>3. CASE d = c
  <2>1. At(c, "moving")'
    BY <1>2, <1>3 DEF Passed
  <2>2. StartMove(c) \/ (GateTask(c) /\ ~Fail(c))
    BY <1>1, <2>1, MovesBegin
  <2>3. ~StartMove(c)
    BY <1>1, <1>2, <1>3, StartMoveEffect DEF Passed
  <2>4. QED
    BY <1>2, <1>3, <2>2, <2>3, GateEstablishes
<1>4. CASE d # c
  <2>1. req'[d] = req[d]
    BY <1>1, <1>4, OthersStay
  <2>2. Passed(d, t)
    BY <1>2, <2>1 DEF Passed, At, NeedsGate
  <2>3. rowLock[t] = d /\ \A why \in Promised : <<t, why>> \notin waived => Clear(t, why)
    BY <2>2 DEF GateInv, PassedHold
  <2>4. rowLock'[t] = d /\ ~Free(c, t) /\ d # NoOne
    BY <1>1, <1>4, <2>3, LocksStay, ConstantsOK
  <2>5. status[t] # "absent"
    BY <2>2 DEF GateInv, MovesJustified, Passed
  <2>6. ASSUME NEW why \in Promised, <<t, why>> \notin waived' PROVE Clear(t, why)'
    <3>1. <<t, why>> \notin waived
      BY <2>4, <2>6, Unwaived DEF Promised
    <3>2. QED
      BY <2>3, <2>4, <2>5, <2>6, <3>1, ClearStays
  <2>7. QED
    BY <2>4, <2>6
<1>5. QED
  BY <1>3, <1>4

\* The target of a relation about to be inserted stays locked, and unfinished
\* unless the layout finishes it.
LEMMA TargetsStayHeld ==
    ASSUME GateInv, NEW c \in Clients, Step(c), Record
    PROVE  TargetsHold'
<1>1. TypeOK /\ RecurrencesDue /\ TypeOK'
  BY StepTypes DEF GateInv, RelationInv
<1>2. SUFFICES ASSUME NEW d \in Clients, NEW t \in Tasks,
                      req'[d].pc \in {"target", "acyclic"}, req'[d].dst = t
               PROVE  /\ status'[t] # "absent" /\ rowLock'[t] = d
                      /\ Completed(t)' => <<t, "blockers">> \in waived'
  BY DEF TargetsHold
<1>3. CASE d # c
  <2>1. req'[d] = req[d]
    BY <1>1, <1>3, OthersStay
  <2>2. /\ status[t] # "absent" /\ rowLock[t] = d
        /\ Completed(t) => <<t, "blockers">> \in waived
    BY <1>2, <2>1 DEF GateInv, TargetsHold
  <2>3. status'[t] # "absent" /\ rowLock'[t] = d /\ ~Free(c, t) /\ d # NoOne
    BY <1>1, <1>3, <2>2, LocksStay, NeverAbsentAgain, ConstantsOK
  <2>4. ASSUME Completed(t)', <<t, "blockers">> \notin waived' PROVE FALSE
    <3>1. <<t, "blockers">> \notin waived /\ ~Waives(t, "blockers")
      BY <2>4, Unwaived
    <3>2. ~Completed(t)
      BY <2>2, <3>1
    <3>3. doneCols' = doneCols /\ ~CompletedOnStaleRead(t)
      BY <2>2, <2>3, <2>4, <3>1, <3>2 DEF Waives, CompletedWithoutGate
    <3>4. col'[t] # col[t] \/ completedAt'[t] # completedAt[t]
      BY <2>4, <3>2, <3>3 DEF Completed
    <3>5. QED
      BY <1>1, <2>2, <2>3, <3>4, CompletionsNeedTheRow
  <2>5. QED
    BY <2>3, <2>4
<1>4. CASE d = c
  <2>1. ~Fail(c) /\ ~ShortStep(c)
    BY <1>1, <1>2, <1>4, FailEffect, ShortEffect DEF Idle, At
  <2>2. ~(StartRelate(c) \/ StartPurge(c) \/ PurgeTask(c) \/ StartMove(c))
    BY <1>1, <1>2, <1>4, <2>1, OtherEffect, StartMoveEffect
  <2>3. ~(InsertRelation(c) \/ CommitMove(c) \/ Recur(c))
    BY <1>1, <1>2, <1>4, <2>1, InsertEffect, CommitEffect, RecurEffect DEF Idle
  <2>4. ~GateTask(c)
    BY <1>1, <1>2, <1>4, <2>1, GateEffect DEF MoveRequests
  <2>5. TakeAdvisory(c) \/ LockTarget(c) \/ CheckCycle(c)
    BY <2>1, <2>2, <2>3, <2>4, StepCases
  <2>6. UNCHANGED db /\ req[c].dst = t
    BY <1>1, <1>2, <1>4, <2>1, <2>5, CreationEffect
  <2>7. \/ /\ Exists(t) /\ ~Completed(t) /\ rowLock' = [rowLock EXCEPT ![t] = c]
        \/ req[c].pc = "target" /\ rowLock' = rowLock
    BY <1>1, <1>2, <1>4, <2>1, <2>5, CreationEffect
  <2>8. CASE Exists(t) /\ ~Completed(t) /\ rowLock' = [rowLock EXCEPT ![t] = c]
    <3>1. status'[t] # "absent" /\ rowLock'[t] = c /\ ~Completed(t)'
      BY <1>1, <2>6, <2>8 DEF TypeOK, Exists, Completed, db
    <3>2. QED
      BY <1>4, <3>1
  <2>9. CASE req[c].pc = "target" /\ rowLock' = rowLock
    <3>1. status[t] # "absent" /\ rowLock[t] = c /\ (Completed(t) => <<t, "blockers">> \in waived)
      BY <2>6, <2>9 DEF GateInv, TargetsHold
    <3>2. status'[t] # "absent" /\ rowLock'[t] = c /\ (Completed(t)' <=> Completed(t)) /\ c # NoOne
      BY <2>6, <2>9, <3>1, ConstantsOK DEF Completed, db
    <3>3. Completed(t)' => <<t, "blockers">> \in waived'
      BY <3>1, <3>2, Unwaived
    <3>4. QED
      BY <1>4, <3>2, <3>3
  <2>10. QED
    BY <2>7, <2>8, <2>9
<1>5. QED
  BY <1>3, <1>4

\* What a request on its way saw and decided stays what it was.
LEMMA MovesStayJustified ==
    ASSUME GateInv, NEW c \in Clients, Step(c), Record
    PROVE  MovesJustified'
<1>1. TypeOK /\ RecurrencesDue
  BY DEF GateInv, RelationInv
<1>2. SUFFICES ASSUME NEW d \in Clients, req'[d].pc = "moving"
               PROVE  /\ \A t \in DOMAIN req'[d].seen : status'[t] # "absent"
                      /\ StampJustified(req'[d])
  BY DEF MovesJustified, At, StampJustified
<1>3. ASSUME req[d] \in MoveRequests, req'[d].seen = req[d].seen, req[d].pc = "moving"
      PROVE  \A t \in DOMAIN req'[d].seen : status'[t] # "absent"
  <2>1. \A t \in DOMAIN req[d].seen : t \in Tasks /\ status[t] # "absent"
    BY <1>3 DEF GateInv, MovesJustified, MoveRequests, At
  <2>2. QED
    BY <1>1, <1>3, <2>1, NeverAbsentAgain
<1>4. CASE d # c
  <2>1. req'[d] = req[d]
    BY <1>1, <1>4, OthersStay
  <2>2. req[d] \in MoveRequests
    BY <1>1, <1>2, <2>1, RequestKinds DEF TypeOK
  <2>3. StampJustified(req[d])
    BY <1>2, <2>1 DEF GateInv, MovesJustified, At
  <2>4. QED
    BY <1>2, <1>3, <2>1, <2>2, <2>3
<1>5. CASE d = c
  <2>1. StartMove(c) \/ (GateTask(c) /\ ~Fail(c))
    BY <1>1, <1>2, <1>5, MovesBegin DEF At
  <2>2. CASE StartMove(c)
    BY <1>1, <1>5, <2>2, StartMoveEffect DEF Live, db
  <2>3. CASE GateTask(c) /\ ~Fail(c)
    <3>1. req[c] \in MoveRequests /\ req'[c] = [req[c] EXCEPT !.gate = Tail(@)]
      BY <1>1, <2>3, GateEffect
    <3>2. /\ req'[c].seen = req[c].seen /\ req'[c].stamp = req[c].stamp /\ req'[c].bulk = req[c].bulk
          /\ req'[c].to = req[c].to /\ req'[c].seenDone = req[c].seenDone /\ req[c].pc = "moving"
      BY <3>1 DEF MoveRequests
    <3>3. StampJustified(req[c])
      BY <3>2 DEF GateInv, MovesJustified, At
    <3>4. StampJustified(req'[c])
      BY <3>2, <3>3 DEF StampJustified
    <3>5. QED
      BY <1>3, <1>5, <3>1, <3>2, <3>4
  <2>4. QED
    BY <2>1, <2>2, <2>3
<1>6. QED
  BY <1>4, <1>5

\* Only recurring tasks are sent back.
LEMMA RecurrencesStayDue ==
    ASSUME TypeOK, RecurrencesDue, NEW c \in Clients, Step(c)
    PROVE  RecurrencesDue'
<1>1. SUFFICES ASSUME NEW d \in Clients, req'[d].pc = "landed" PROVE req'[d].due \subseteq Recurring
  BY DEF RecurrencesDue, At
<1>2. CASE d # c
  BY <1>1, <1>2, OthersStay DEF RecurrencesDue, At
<1>3. CASE d = c
  <2>1. ~Fail(c) /\ ~ShortStep(c)
    BY <1>1, <1>3, FailEffect, ShortEffect DEF Idle, At
  <2>2. ~(StartRelate(c) \/ StartPurge(c) \/ PurgeTask(c) \/ StartMove(c) \/ InsertRelation(c))
    BY <1>1, <1>3, <2>1, OtherEffect, StartMoveEffect, InsertEffect DEF Idle
  <2>3. ~(TakeAdvisory(c) \/ LockTarget(c) \/ CheckCycle(c) \/ GateTask(c))
    BY <1>1, <1>3, <2>1, CreationEffect, GateEffect DEF RelationRequests, RelationPC, MoveRequests
  <2>4. CommitMove(c) \/ Recur(c)
    BY <2>1, <2>2, <2>3, StepCases
  <2>5. QED
    BY <1>1, <1>3, <2>1, <2>4, CommitEffect, RecurEffect DEF Idle
<1>4. QED
  BY <1>2, <1>3

\* The layout is always one the board can have.
LEMMA LayoutStays ==
    ASSUME GateInv, NEW c \in Clients, Step(c)
    PROVE  doneCols' \in Layouts
<1>1. TypeOK /\ RecurrencesDue /\ doneCols \in Layouts
  BY DEF GateInv, RelationInv
<1>2. CASE ShortStep(c)
  BY <1>1, <1>2 DEF ShortStep, RemoveRelation, CreateTask, TrashTask, RestoreTask,
                    AddChecklistItem, ChangeChecklistItem, ReshapeBoard
<1>3. CASE ~ShortStep(c)
  <2>1. CASE Fail(c) \/ StartMove(c) \/ (~Fail(c) /\ (TakeAdvisory(c) \/ LockTarget(c) \/ CheckCycle(c)))
    BY <1>1, <2>1, FailEffect, StartMoveEffect, CreationEffect DEF db
  <2>2. CASE StartRelate(c) \/ StartPurge(c) \/ (PurgeTask(c) /\ ~Fail(c))
    BY <1>1, <2>2, OtherEffect
  <2>3. CASE ~Fail(c) /\ (InsertRelation(c) \/ GateTask(c) \/ CommitMove(c) \/ Recur(c))
    BY <1>1, <2>3, InsertEffect, GateEffect, CommitEffect, RecurEffect DEF db
  <2>4. QED
    BY <1>3, <2>1, <2>2, <2>3, StepCases
<1>4. QED
  BY <1>2, <1>3

\* GateInv is kept by every step of every client.
LEMMA GateInvInductive ==
    ASSUME GateInv, OriginStaysOpen, NEW c \in Clients, Step(c), Record
    PROVE  GateInv'
<1>1. TypeOK /\ RecurrencesDue /\ AbsentBlank /\ RelationInv
  BY DEF GateInv, RelationInv
<1>2. RelationInv'
  BY <1>1, RelationInvInductive
<1>3. CompletedClear' /\ PassedHold' /\ TargetsHold' /\ MovesJustified'
  BY CompletedStaysClear, PassedStaysHeld, TargetsStayHeld, MovesStayJustified
<1>4. AbsentBlank' /\ RecurrencesDue' /\ doneCols' \in Layouts
  BY <1>1, AbsentStaysBlank, RecurrencesStayDue, LayoutStays
<1>5. QED
  BY <1>2, <1>3, <1>4 DEF GateInv

\* It holds while nothing was asked for yet: what is completed then has neither
\* items nor blockers.
LEMMA InitGateInv == Init => GateInv
<1> SUFFICES ASSUME Init PROVE GateInv
  OBVIOUS
<1>1. \A c \in Clients : req[c].pc = "idle"
  BY DEF Init, Idle
<1>2. CompletedClear
  BY DEF Init, CompletedClear, Clear, Blockers
<1>3. PassedHold /\ TargetsHold /\ MovesJustified /\ RecurrencesDue
  BY <1>1 DEF PassedHold, Passed, TargetsHold, MovesJustified, RecurrencesDue, At
<1>4. AbsentBlank /\ doneCols \in Layouts
  BY DEF Init, AbsentBlank
<1>5. QED
  BY <1>2, <1>3, <1>4, InitRelationInv DEF GateInv

\* It does not depend on anything but the variables.
LEMMA StutterGateInv ==
    ASSUME GateInv, UNCHANGED vars
    PROVE  GateInv'
<1>1. RelationInv'
  BY StutterRelationInv DEF GateInv
<1>2. UNCHANGED <<status, col, completedAt, dod, doneCols, blocks, relates, advisory, rowLock, req, restored, waived>>
  BY DEF vars, db, history
<1>3. \A t, why : Clear(t, why)' <=> Clear(t, why)
  BY <1>2 DEF Clear, Blockers, Open, Live, Completed
<1>4. CompletedClear' /\ TargetsHold'
  BY <1>2, <1>3 DEF GateInv, CompletedClear, TargetsHold, Completed
<1>5. PassedHold'
  BY <1>2, <1>3 DEF GateInv, PassedHold, Passed, NeedsGate, At
<1>6. MovesJustified' /\ AbsentBlank' /\ RecurrencesDue' /\ doneCols' \in Layouts
  BY <1>2 DEF GateInv, MovesJustified, StampJustified, AbsentBlank, RecurrencesDue, At
<1>7. QED
  BY <1>1, <1>4, <1>5, <1>6 DEF GateInv

-----------------------------------------------------------------------------
(* The theorems *)

\* The argument behind both: GateInv always holds, as long as recurring tasks do
\* not go back to a done column.
THEOREM GateInvariant == ASSUME OriginStaysOpen PROVE Spec => []GateInv
<1>1. GateInv /\ [Next]_vars => GateInv'
  BY GateInvInductive, StutterGateInv DEF Next
<1>2. QED
  BY <1>1, InitGateInv, PTL DEF Spec

\* No task is completed past an open required checklist item, whatever requests
\* race to move it, to change its checklist and to reshape its board.
THEOREM ChecklistGate == ASSUME OriginStaysOpen PROVE Spec => []DoDSatisfied
<1>1. GateInv => DoDSatisfied
  BY DEF GateInv, CompletedClear, DoDSatisfied, Clear, Promised
<1>2. QED
  BY <1>1, GateInvariant, PTL

\* No task is completed past an open blocker that one read of assertCanComplete
\* could have found.
THEOREM BlockerGate ==
    ASSUME OriginStaysOpen, Cardinality(Tasks) <= GateTake
    PROVE  Spec => []BlockersFinished
<1>1. GateInv => BlockersFinished
  BY DEF GateInv, CompletedClear, BlockersFinished, Clear, Promised
<1>2. QED
  BY <1>1, GateInvariant, PTL
=============================================================================
