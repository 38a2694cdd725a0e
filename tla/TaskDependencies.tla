-------------------------- MODULE TaskDependencies --------------------------
(***************************************************************************)
(* Task relations, the completion gate and the trash of one workspace, as  *)
(* the concurrent request handlers of the backend execute them against     *)
(* PostgreSQL (READ COMMITTED, Prisma interactive transactions).           *)
(*                                                                         *)
(*   tasks/task-relations.service.ts   create, remove, assertCanComplete   *)
(*   tasks/tasks.service.ts            move, bulkUpdate, recurrence        *)
(*   dod/task-checklist.service.ts     items and assertDoDSatisfied        *)
(*   trash/trash.service.ts            restore, purge                      *)
(*   boards/boards.service.ts          every change of the column layout   *)
(*                                                                         *)
(* One action per statement (or per lock acquisition with the reads made   *)
(* under that lock: taking a lock commutes to the right of every step it   *)
(* does not exclude).  The writes of a transaction become visible in the   *)
(* action that commits it.  Positions are the subject of BoardOrder.       *)
(***************************************************************************)
EXTENDS Integers, Sequences, FiniteSets, Digraph

CONSTANTS
    Tasks,        \* task rows of one board
    Clients,      \* concurrently running requests
    NoOne,        \* "no client holds this lock"
    Columns,      \* board columns
    Origin,       \* where a recurring task goes back to (recurrenceOriginColumnId)
    Layouts,      \* the sets of "done" columns the board's layouts give
    AutoCols,     \* columns with a COMPLETE_TASK automation
    Recurring,    \* tasks with a recurrence rule and the action MOVE_TASK
    GateTake,     \* `take: 100` of assertCanComplete
    MaxBlocking,  \* MAX_BLOCKING_RELATIONS_PER_WORKSPACE
    Ops           \* the operations clients may start (bounds an instance)

Operations == {"relate", "unrelate", "move", "bulk", "create", "trash",
               "restore", "purge", "checklist", "reshape", "abort"}

ASSUME ConstantsOK ==
    /\ IsFiniteSet(Tasks)
    /\ NoOne \notin Clients
    /\ Origin \in Columns
    /\ Layouts \subseteq (SUBSET Columns) \ {{}}
    /\ AutoCols \subseteq Columns
    /\ Recurring \subseteq Tasks
    /\ GateTake \in Nat /\ MaxBlocking \in Nat
    /\ Ops \subseteq Operations

VARIABLES
    status,       \* "absent" | "live" | "trashed" (deletedAt set) | "purged"
    col,          \* Task.columnId
    completedAt,  \* Task.completedAt is set
    dod,          \* checklist: "none" | "met" | "pending" (an open required item)
    doneCols,     \* the columns isDoneColumn accepts under the current layout
    blocks,       \* TaskRelation rows of type BLOCKS, <<source, target>>
    relates,      \* TaskRelation rows of type RELATES_TO, {a, b}
    advisory,     \* holder of pg_advisory_xact_lock(hashtext(workspaceId))
    rowLock,      \* holder of each task's FOR UPDATE lock
    req,          \* the state of each client's request
    restored,     \* history: tasks that were ever restored from the trash
    waived        \* history: <<task, why>>, the completion gate owes nothing

db      == <<status, col, completedAt, dod, doneCols, blocks, relates>>
history == <<restored, waived>>
vars    == <<db, advisory, rowLock, req, history>>

-----------------------------------------------------------------------------
(* Reading the database *)

Live(t)      == status[t] = "live"
Exists(t)    == status[t] \in {"live", "trashed"}
Completed(t) == completedAt[t] \/ col[t] \in doneCols    \* isTaskCompleted
Open(t)      == Live(t) /\ ~Completed(t)

\* Mutant: the pair is looked up in the requested direction only.
RelatedOneWay(a, b) == <<a, b>> \in blocks \/ {a, b} \in relates

Blockers(t)   == {b \in Tasks : <<b, t>> \in blocks}
LiveEdges     == {e \in blocks : Live(e[1]) /\ Live(e[2])}
Related(a, b) == <<a, b>> \in blocks \/ <<b, a>> \in blocks \/ {a, b} \in relates

-----------------------------------------------------------------------------
(* Requests *)

Idle == [pc |-> "idle"]

RelationPC == {"read", "advisory", "target", "acyclic"}

Requests ==
    {Idle}
    \cup [pc : RelationPC, src : Tasks, dst : Tasks, kind : {"BLOCKS", "RELATES_TO"}]
    \cup [pc : {"moving"}, bulk : BOOLEAN, seen : UNION {[S -> Columns] : S \in SUBSET Tasks},
          seenDone : SUBSET Columns, to : Columns, stamp : SUBSET Tasks, gate : Seq(Tasks)]
    \cup [pc : {"landed"}, due : SUBSET Tasks]
    \cup [pc : {"purging"}, task : Tasks]

At(c, pc)    == req[c].pc = pc
Go(c, r)     == req' = [req EXCEPT ![c] = r]
Goto(c, pc)  == req' = [req EXCEPT ![c].pc = pc]
Free(c, t)   == rowLock[t] \in {NoOne, c}

\* Mutant: a session-level advisory lock, which the end of a transaction keeps.
ReleaseRowsOnly(c) ==
    /\ advisory' = advisory
    /\ rowLock' = [t \in Tasks |-> IF rowLock[t] = c THEN NoOne ELSE rowLock[t]]

\* COMMIT or ROLLBACK of c: every lock of the transaction is released.
Release(c) ==
    /\ advisory' = IF advisory = c THEN NoOne ELSE advisory
    /\ rowLock'  = [t \in Tasks |-> IF rowLock[t] = c THEN NoOne ELSE rowLock[t]]

\* The handler throws: nothing was written, the transaction rolls back.
Fail(c) == Go(c, Idle) /\ Release(c) /\ UNCHANGED db

Orderings(S) == {q \in [1 .. Cardinality(S) -> S] : \A i, j \in DOMAIN q : q[i] = q[j] => i = j}

-----------------------------------------------------------------------------
(* TaskRelationsService.create *)

\* Mutant: the requested type is stored as the view calls it.
StartRelateUnnormalized(c) ==
    /\ "relate" \in Ops /\ At(c, "idle")
    /\ \E s, d \in Tasks, k \in {"BLOCKS", "WAITING_FOR", "RELATES_TO"} :
          /\ s # d /\ Live(s) /\ Live(d)
          /\ Go(c, [pc |-> "read", src |-> s, dst |-> d, kind |-> k])
    /\ UNCHANGED <<db, advisory, rowLock>>

\* Both tasks are read live; normalize() has ordered source and target.
StartRelate(c) ==
    /\ "relate" \in Ops /\ At(c, "idle")
    /\ \E s, d \in Tasks, k \in {"BLOCKS", "RELATES_TO"} :
          /\ s # d /\ Live(s) /\ Live(d)
          /\ Go(c, [pc |-> "read", src |-> s, dst |-> d, kind |-> k])
    /\ UNCHANGED <<db, advisory, rowLock>>

\* Mutant: relation creation is not serialised.
TakeAdvisoryShared(c) ==
    /\ At(c, "read")
    /\ IF Related(req[c].src, req[c].dst)
         THEN Fail(c)
         ELSE Goto(c, "advisory") /\ UNCHANGED <<db, advisory, rowLock>>

\* The advisory lock serialises relation creation; then the pair is looked up.
TakeAdvisory(c) ==
    /\ At(c, "read") /\ advisory = NoOne
    /\ IF Related(req[c].src, req[c].dst)
         THEN Fail(c)
         ELSE Goto(c, "advisory") /\ advisory' = c /\ UNCHANGED <<db, rowLock>>

\* Mutant: the target is locked, but whether it is completed is not read again.
LockTargetUnchecked(c) ==
    /\ At(c, "advisory") /\ req[c].kind = "BLOCKS" /\ Free(c, req[c].dst)
    /\ Goto(c, "target")
    /\ rowLock' = [rowLock EXCEPT ![req[c].dst] = c]
    /\ UNCHANGED <<db, advisory>>

\* BLOCKS: the target row is locked and read again, trashed or not.
LockTarget(c) ==
    /\ At(c, "advisory") /\ req[c].kind = "BLOCKS" /\ Free(c, req[c].dst)
    /\ LET d == req[c].dst IN
         IF ~Exists(d) \/ Completed(d)
           THEN Fail(c)
           ELSE Goto(c, "target") /\ rowLock' = [rowLock EXCEPT ![d] = c] /\ UNCHANGED <<db, advisory>>

\* Mutant: the walk starts at the source.
CheckCycleBackwards(c) ==
    /\ At(c, "target")
    /\ IF Cardinality(LiveEdges) > MaxBlocking \/ req[c].dst \in Reach(Tasks, LiveEdges, req[c].src)
         THEN Fail(c)
         ELSE Goto(c, "acyclic") /\ UNCHANGED <<db, advisory, rowLock>>

\* assertNoDependencyCycle walks the edges between live tasks from the target.
CheckCycle(c) ==
    /\ At(c, "target")
    /\ IF Cardinality(LiveEdges) > MaxBlocking \/ req[c].src \in Reach(Tasks, LiveEdges, req[c].dst)
         THEN Fail(c)
         ELSE Goto(c, "acyclic") /\ UNCHANGED <<db, advisory, rowLock>>

ReadyToInsert(c) ==
    \/ At(c, "acyclic")
    \/ At(c, "advisory") /\ req[c].kind = "RELATES_TO"

\* INSERT takes FOR KEY SHARE on both rows and so waits for their FOR UPDATE
\* holders; a purged row violates the foreign key, a second relation of the pair
\* the unique index on pairKey.
InsertRelation(c) ==
    /\ ReadyToInsert(c)
    /\ LET s == req[c].src
           d == req[c].dst IN
         /\ Free(c, s) /\ Free(c, d)
         /\ IF ~Exists(s) \/ ~Exists(d) \/ Related(s, d)
              THEN Fail(c)
              ELSE /\ IF req[c].kind = "BLOCKS"
                        THEN blocks' = blocks \cup {<<s, d>>} /\ UNCHANGED relates
                        ELSE relates' = relates \cup {{s, d}} /\ UNCHANGED blocks
                   /\ Go(c, Idle) /\ Release(c)
                   /\ UNCHANGED <<status, col, completedAt, dod, doneCols>>

\* TaskRelationsService.remove: reads the relation of two live tasks, deletes it
\* by id (one step: what may happen in between leaves the same rows behind).
RemoveRelation(c) ==
    /\ "unrelate" \in Ops /\ At(c, "idle")
    /\ \/ \E e \in LiveEdges : blocks' = blocks \ {e} /\ UNCHANGED relates
       \/ \E p \in relates : (\A t \in p : Live(t)) /\ relates' = relates \ {p} /\ UNCHANGED blocks
    /\ UNCHANGED <<status, col, completedAt, dod, doneCols, advisory, rowLock, req>>

-----------------------------------------------------------------------------
(* TasksService.move and bulkUpdate(columnId) *)

\* Mutant: a COMPLETE_TASK automation is no reason for the gate.
NeedsGateForDoneOnly(r, t) == r.to \in r.seenDone /\ r.seen[t] \notin r.seenDone

\* What the handler decides from its snapshot: does task t go through the gate?
NeedsGate(r, t) ==
    \/ r.to \in r.seenDone /\ r.seen[t] \notin r.seenDone
    \/ ~r.bulk /\ r.to # r.seen[t] /\ r.to \in AutoCols

\* The tasks whose completedAt the updates set: in a bulk move by what was read,
\* in a single move by the automation, which reads the task again under its lock.
Stamped(ids, to, bulk) ==
    IF bulk THEN {t \in ids : to \in doneCols /\ ~completedAt[t]}
            ELSE {t \in ids : to \in AutoCols}

\* Tasks, target column and layout are read before the transaction begins.
\* bulkUpdate gates in the order (column, position); positions move on their own.
StartMove(c) ==
    /\ At(c, "idle")
    /\ \E ids \in SUBSET {t \in Tasks : Live(t)}, to \in Columns, bulk \in BOOLEAN :
         /\ IF bulk THEN "bulk" \in Ops /\ ids # {} ELSE "move" \in Ops /\ Cardinality(ids) = 1
         /\ LET r == [pc |-> "moving", bulk |-> bulk, seen |-> [t \in ids |-> col[t]],
                      seenDone |-> doneCols, to |-> to, stamp |-> Stamped(ids, to, bulk),
                      gate |-> <<>>] IN
              \E q \in Orderings({t \in ids : NeedsGate(r, t)}) : Go(c, [r EXCEPT !.gate = q])
    /\ UNCHANGED <<db, advisory, rowLock>>

\* assertCanComplete: at most GateTake blocking relations, in no given order.
Examined(t) ==
    LET live == {b \in Blockers(t) : Live(b)} IN
      IF Cardinality(live) <= GateTake
        THEN {live}
        ELSE {S \in SUBSET live : Cardinality(S) = GateTake}

GateOK(t, examined) == (\A b \in examined : Completed(b)) /\ dod[t] # "pending"

\* FOR UPDATE on the next task to complete, then the two assertions.
GateTask(c) ==
    /\ At(c, "moving") /\ req[c].gate # <<>>
    /\ LET t == Head(req[c].gate) IN
         /\ Free(c, t)
         /\ \E examined \in Examined(t) :
              IF GateOK(t, examined)
                THEN /\ req' = [req EXCEPT ![c].gate = Tail(@)]
                     /\ rowLock' = [rowLock EXCEPT ![t] = c]
                     /\ UNCHANGED <<db, advisory>>
                ELSE Fail(c)

MovedTo(r, t) == t \in DOMAIN r.seen /\ (r.bulk \/ r.seen[t] # r.to)

\* Recurring tasks the handler takes care of after the commit: move() looks at
\* where the task landed, bulkUpdate at those that were not done before.
DueAfter(r) ==
    {t \in Recurring \cap DOMAIN r.seen :
        r.to \in r.seenDone /\ (r.bulk => r.seen[t] \notin r.seenDone)}

\* The updates and the commit; the rows are addressed by id, live or not.
CommitMove(c) ==
    /\ At(c, "moving") /\ req[c].gate = <<>>
    /\ LET r == req[c] IN
         /\ \A t \in DOMAIN r.seen : MovedTo(r, t) => Free(c, t)
         /\ IF \E t \in DOMAIN r.seen : ~Exists(t)
              THEN Fail(c)
              ELSE /\ col' = [t \in Tasks |-> IF MovedTo(r, t) THEN r.to ELSE col[t]]
                   /\ completedAt' =
                        [t \in Tasks |-> completedAt[t] \/ (MovedTo(r, t) /\ t \in r.stamp)]
                   /\ Go(c, IF DueAfter(r) = {} THEN Idle ELSE [pc |-> "landed", due |-> DueAfter(r)])
                   /\ Release(c)
                   /\ UNCHANGED <<status, dod, doneCols, blocks, relates>>

\* handleRecurrenceCompletion(MOVE_TASK), one transaction per task: back to the
\* origin column wherever the task is by now, completedAt cleared.
Recur(c) ==
    /\ At(c, "landed")
    /\ \E t \in req[c].due :
         /\ Free(c, t)
         /\ IF ~Exists(t)
              THEN Fail(c)
              ELSE /\ col' = [col EXCEPT ![t] = Origin]
                   /\ completedAt' = [completedAt EXCEPT ![t] = FALSE]
                   /\ Go(c, IF req[c].due = {t} THEN Idle ELSE [req[c] EXCEPT !.due = @ \ {t}])
                   /\ UNCHANGED <<status, dod, doneCols, blocks, relates, advisory, rowLock>>

-----------------------------------------------------------------------------
(* Creating, trashing, restoring and purging tasks *)

\* A template may bring required checklist items with it.
CreateTask(c) ==
    /\ "create" \in Ops /\ At(c, "idle")
    /\ \E t \in Tasks, k \in Columns, d \in {"none", "met", "pending"} :
         /\ status[t] = "absent"
         /\ status' = [status EXCEPT ![t] = "live"]
         /\ col' = [col EXCEPT ![t] = k]
         /\ dod' = [dod EXCEPT ![t] = d]
    /\ UNCHANGED <<completedAt, doneCols, blocks, relates, advisory, rowLock, req>>

TrashTask(c) ==
    /\ "trash" \in Ops /\ At(c, "idle")
    /\ \E t \in Tasks : Live(t) /\ Free(c, t) /\ status' = [status EXCEPT ![t] = "trashed"]
    /\ UNCHANGED <<col, completedAt, dod, doneCols, blocks, relates, advisory, rowLock, req>>

\* The relations kept in the trash come back unchecked.
RestoreTask(c) ==
    /\ "restore" \in Ops /\ At(c, "idle")
    /\ \E t \in Tasks :
          status[t] = "trashed" /\ Free(c, t) /\ status' = [status EXCEPT ![t] = "live"]
    /\ UNCHANGED <<col, completedAt, dod, doneCols, blocks, relates, advisory, rowLock, req>>

StartPurge(c) ==
    /\ "purge" \in Ops /\ At(c, "idle")
    /\ \E t \in Tasks : status[t] = "trashed" /\ Go(c, [pc |-> "purging", task |-> t])
    /\ UNCHANGED <<db, advisory, rowLock>>

\* Mutant: the relations of the row are left behind.
PurgeTaskOnly(c) ==
    /\ At(c, "purging") /\ Free(c, req[c].task)
    /\ IF ~Exists(req[c].task)
         THEN Fail(c)
         ELSE /\ status' = [status EXCEPT ![req[c].task] = "purged"]
              /\ Go(c, Idle)
              /\ UNCHANGED <<col, completedAt, dod, doneCols, blocks, relates, advisory, rowLock>>

\* Deletes the row by id, restored since or not; its relations cascade.
PurgeTask(c) ==
    /\ At(c, "purging") /\ Free(c, req[c].task)
    /\ LET t == req[c].task IN
         IF ~Exists(t)
           THEN Fail(c)
           ELSE /\ status' = [status EXCEPT ![t] = "purged"]
                /\ blocks' = {e \in blocks : t \notin {e[1], e[2]}}
                /\ relates' = {p \in relates : t \notin p}
                /\ Go(c, Idle)
                /\ UNCHANGED <<col, completedAt, dod, doneCols, advisory, rowLock>>

-----------------------------------------------------------------------------
(* Checklist and column layout *)

\* create and applyTemplate insert items: their foreign key waits for FOR UPDATE.
AddChecklistItem(c) ==
    /\ "checklist" \in Ops /\ At(c, "idle")
    /\ \E t \in Tasks, required \in BOOLEAN :
         /\ Live(t) /\ Free(c, t)
         /\ dod' = [dod EXCEPT ![t] = IF required THEN "pending" ELSE IF @ = "none" THEN "met" ELSE @]
    /\ UNCHANGED <<status, col, completedAt, doneCols, blocks, relates, advisory, rowLock, req>>

\* update toggles completed/required of an item, remove deletes one: no task lock.
ChangeChecklistItem(c) ==
    /\ "checklist" \in Ops /\ At(c, "idle")
    /\ \E t \in Tasks, d \in {"none", "met", "pending"} :
         Live(t) /\ dod[t] \notin {"none", d} /\ dod' = [dod EXCEPT ![t] = d]
    /\ UNCHANGED <<status, col, completedAt, doneCols, blocks, relates, advisory, rowLock, req>>

\* createColumn, updateColumn and moveColumn decide which columns are last or
\* carry a "done" name (the board's columns are those it may ever have).
ReshapeBoard(c) ==
    /\ "reshape" \in Ops /\ At(c, "idle")
    /\ doneCols' \in Layouts \ {doneCols}
    /\ UNCHANGED <<status, col, completedAt, dod, blocks, relates, advisory, rowLock, req>>

-----------------------------------------------------------------------------
(* Failing transactions *)

\* The process dies, the connection drops or Prisma's transaction times out.
Abort(c) == "abort" \in Ops /\ ~At(c, "idle") /\ Fail(c)

\* The client whose lock c's next statement waits for.
WaitsFor(c, d) ==
    LET r == req[c] IN
    /\ d # c
    /\ \/ At(c, "read") /\ advisory = d
       \/ At(c, "advisory") /\ r.kind = "BLOCKS" /\ rowLock[r.dst] = d
       \/ ReadyToInsert(c) /\ d \in {rowLock[r.src], rowLock[r.dst]}
       \/ At(c, "moving") /\ r.gate # <<>> /\ rowLock[Head(r.gate)] = d
       \/ At(c, "moving") /\ r.gate = <<>> /\ \E t \in DOMAIN r.seen : MovedTo(r, t) /\ rowLock[t] = d

Deadlocked(c) ==
    \E S \in SUBSET Clients : c \in S /\ \A x \in S : \E y \in S : WaitsFor(x, y)

\* PostgreSQL's deadlock detector cancels one transaction of the cycle.
DeadlockVictim(c) == Deadlocked(c) /\ Fail(c)

-----------------------------------------------------------------------------
(* History *)

Reopens(b) == ~Open(b) /\ Open(b)'

\* t became completed through a move whose snapshot was out of date and, for
\* that reason, asked for no gate.
CompletedOnStaleRead(t) ==
    \E c \in Clients :
      LET r == req[c] IN
      /\ At(c, "moving") /\ ~At(c, "moving")' /\ MovedTo(r, t) /\ ~NeedsGate(r, t)
      /\ r.seen[t] # col[t] \/ r.seenDone # doneCols

CompletedWithoutGate(t) ==
    /\ status[t] = "absent" \/ ~Completed(t)
    /\ status'[t] # "absent" /\ Completed(t)'
    /\ status[t] = "absent" \/ doneCols' # doneCols \/ CompletedOnStaleRead(t)

Waives(t, why) ==
    \/ CompletedWithoutGate(t)
    \/ /\ why = "blockers"
       /\ Completed(t)' \/ rowLock'[t] # NoOne
       /\ \E b \in Tasks : <<b, t>> \in blocks' /\ Reopens(b)
    \/ /\ why = "dod" /\ dod[t] # "pending" /\ dod'[t] = "pending"
       /\ Completed(t)' \/ (dod[t] = "met" /\ rowLock'[t] # NoOne)

Record ==
    /\ restored' = restored \cup {t \in Tasks : status[t] = "trashed" /\ status'[t] = "live"}
    /\ waived' = {w \in Tasks \X {"blockers", "dod"} :
                    /\ Completed(w[1])' \/ rowLock'[w[1]] # NoOne
                    /\ w \in waived \/ Waives(w[1], w[2])}

-----------------------------------------------------------------------------
Init ==
    /\ status = [t \in Tasks |-> IF "create" \in Ops THEN "absent" ELSE "live"]
    /\ col \in [Tasks -> Columns]
    /\ completedAt = [t \in Tasks |-> FALSE]
    /\ dod = [t \in Tasks |-> "none"]
    /\ doneCols \in Layouts
    /\ blocks = {} /\ relates = {}
    /\ advisory = NoOne
    /\ rowLock = [t \in Tasks |-> NoOne]
    /\ req = [c \in Clients |-> Idle]
    /\ restored = {} /\ waived = {}

\* A request that is on its way to its answer.
Continue(c) ==
    \/ TakeAdvisory(c) \/ LockTarget(c) \/ CheckCycle(c) \/ InsertRelation(c)
    \/ GateTask(c) \/ CommitMove(c) \/ Recur(c)
    \/ PurgeTask(c)

\* A request that arrives; those of one statement are over at once.
Arrive(c) ==
    \/ StartRelate(c) \/ RemoveRelation(c)
    \/ StartMove(c)
    \/ CreateTask(c) \/ TrashTask(c) \/ RestoreTask(c) \/ StartPurge(c)
    \/ AddChecklistItem(c) \/ ChangeChecklistItem(c)
    \/ ReshapeBoard(c)

Step(c) == Arrive(c) \/ Continue(c) \/ Abort(c) \/ DeadlockVictim(c)

Next == (\E c \in Clients : Step(c)) /\ Record

Spec == Init /\ [][Next]_vars

\* PostgreSQL grants locks in the order they were asked for (so a waiting request
\* that can be served again and again is served), runs every statement to its
\* end and cancels one transaction of every deadlock.
Fairness ==
    /\ \A c \in Clients : SF_vars(Continue(c) /\ Record)
    /\ WF_vars((\E c \in Clients : DeadlockVictim(c)) /\ Record)

FairSpec == Spec /\ Fairness

-----------------------------------------------------------------------------
(* Properties *)

TypeOK ==
    /\ status \in [Tasks -> {"absent", "live", "trashed", "purged"}]
    /\ col \in [Tasks -> Columns]
    /\ completedAt \in [Tasks -> BOOLEAN]
    /\ dod \in [Tasks -> {"none", "met", "pending"}]
    /\ doneCols \in SUBSET Columns
    /\ blocks \in SUBSET (Tasks \X Tasks)
    /\ relates \in SUBSET (SUBSET Tasks)
    /\ advisory \in Clients \cup {NoOne}
    /\ rowLock \in [Tasks -> Clients \cup {NoOne}]
    /\ req \in [Clients -> Requests]
    /\ restored \in SUBSET Tasks
    /\ waived \in SUBSET (Tasks \X {"blockers", "dod"})

\* Edges between live tasks that have never been through the trash.
SettledEdges == {e \in LiveEdges : e[1] \notin restored /\ e[2] \notin restored}

\* No cycle of blocking relations among live tasks that were never restored:
\* whatever the interleaving of two creations with removals, trashings and
\* purges, the advisory lock and assertNoDependencyCycle keep the graph acyclic.
SettledGraphAcyclic == Acyclic(Tasks, SettledEdges)

\* Stronger: seen through its settled edges every behaviour is one of the
\* abstract graph, in which each new relation is checked against the graph it
\* joins (although the code checks one statement before it inserts).
Graph == INSTANCE DependencyGraph WITH edges <- SettledEdges
ImplementsGraph == Graph!Spec

\* 'rejects duplicate relations and directed dependency cycles': no cycle among
\* the live tasks, the restored ones included.
LiveGraphAcyclic == Acyclic(Tasks, LiveEdges)

\* Two tasks are linked by at most one relation, in one direction and of one
\* type (the pairKey lookup under the advisory lock).
OneRelationPerPair ==
    \A a, b \in Tasks : a # b =>
      /\ ~(<<a, b>> \in blocks /\ <<b, a>> \in blocks)
      /\ {a, b} \in relates => <<a, b>> \notin blocks

\* Relations never outlive their tasks: no row refers to a purged task, although
\* creation reads its tasks long before it inserts.
NoDanglingRelation ==
    /\ \A e \in blocks : Exists(e[1]) /\ Exists(e[2])
    /\ \A p \in relates : \A t \in p : Exists(t)

\* A completed task has an unfinished live blocker only if that blocker was
\* reopened or restored after the gate let the task through, or if the task was
\* completed around the gate: by a change of the layout, or by a move that
\* decided on a stale snapshot.  In particular no relation is ever created onto
\* a task that is completed or about to be.
BlockersFinished ==
    \A t \in Tasks : <<t, "blockers">> \notin waived /\ Completed(t) => \A b \in Blockers(t) : ~Open(b)

\* A completed task has an open required checklist item only if the item was
\* opened after the gate (an item can be reopened, never added, between the
\* gate and the commit), or the task went around the gate as above.
DoDSatisfied ==
    \A t \in Tasks : <<t, "dod">> \notin waived /\ Completed(t) => dod[t] # "pending"

\* Every request is answered: lock waits end, and a deadlock between the row
\* locks of bulk moves and the locks of a relation insert is always broken.
RequestsAnswered == \A c \in Clients : ~At(c, "idle") ~> At(c, "idle")

=============================================================================
