# A verification model of the T-task backend

T-task is a task manager: a NestJS backend over PostgreSQL (Prisma), a Next.js
frontend, Redis for caches and socket fan-out. This directory models what its
concurrent request handlers and jobs do to shared rows, checks the models with
TLC and proves the central results with TLAPS. Paths below are relative to
`src/backend/src/modules/` unless they say otherwise.

Contents: 1 inventory, 2 modules, 3 runs, 4 proofs, 5 findings, 6 behaviours
worth knowing, 7 abstractions and bounds, 8 not modelled, 9 plan.

## 1. Inventory

All lasting state is in PostgreSQL; Redis holds the membership cache, the job
lock and a deny list of access tokens. Handlers are `async` methods; two requests
interleave at every `await`, in one process or in several. No handler sets an
isolation level, so transactions run READ COMMITTED. Three things serialise
requests: row locks taken by updates, the explicit `FOR UPDATE` locks and
advisory locks of some raw queries, and unique or foreign keys.

| Component | State | Operations | What is hard | What makes it correct | Status |
|---|---|---|---|---|---|
| Task relations (`tasks/task-relations.service.ts`) | `TaskRelation` rows: BLOCKS and RELATES_TO, unique `pairKey` | create, remove, `assertCanComplete` | cycle check and insert are separate statements; tasks are read long before | no cycles, one relation per pair, none onto a completed task | modelled |
| Task lifecycle (`tasks/tasks.service.ts`) | column, position, `completedAt`, `deletedAt`, recurrence | create, duplicate, move, reorder, bulkUpdate, remove, recurrence after the commit | the gate is decided from a snapshot; positions are shifted without a lock on the column; bulk moves lock many rows | completion passes its gate; positions are distinct and keep their order; bulk is all or nothing | partly |
| Definition of done (`dod/`) | checklist items per task, templates | create, update, remove, apply a template, `assertDoDSatisfied` | items are added while a move completes the task | no required item is open when a task completes | partly |
| Trash (`trash/`) | `deletedAt` of tasks, deals, apps | list, restore, purge | relations and position come back from another time; the column may be going | what comes back obeys the rules of what stayed | partly |
| Boards and columns (`boards/`) | boards, columns with positions, layout, automations | create, rename, move, delete | counts and orders are read before the transaction; deletion cascades | a board keeps a column; the trash survives; positions mend | partly |
| CRM (`funnels/`, `deals/`) | funnels, stages with positions, deals | as boards; a default funnel made by a read | as boards; every stage is updated one by one | as boards | partly |
| Forms, import (`forms/`, `import/`) | submissions; rows of tasks and columns | public submission; import of a table | they write into columns others delete | an answer is filed | partly |
| Workspaces, members, invitations (`workspaces/`) | roles, `ownerId`, invitations, archive marks, Redis membership cache | role changes, removal, ownership transfer, invite, revoke, accept, archive, delete | owners are counted before they change; the cache is refilled after its invalidation; acceptance races with archiving | always one owner; no right outlives its revocation; nobody gets in on a void invitation | partly |
| Realtime gateway (`realtime/`) | sockets, rooms | join, eviction, fan-out | a join overlaps the removal of its user; a replica knows its own sockets only | only members listen | partly |
| Identity and sessions (`identity/`) | users, rotating refresh tokens by family, reset links | login, refresh, logout, password reset | a repeated refresh; revocation between rotation and successor | one live token per family; revocation is final; no false alarm | partly |
| Due-reminder job (`notifications/due-reminders.service.ts`) | `dueReminderSentAt`, notifications, due dates, a lock in Redis | a tick each minute: remind a batch, roll over what is overdue | tasks change between scan and mark; ticks overlap and crash | one reminder for each due date, and at last one; no roll over fresh data | modelled |
| RAG index (`ai/rag/`) | rows of `rag_chunks` | jobs that index, delete, reindex, scheduled by events | jobs of one text overlap, fail, get lost | the index ends up as the last version says | modelled |
| Comments (`comments/`) | comments | write, delete | they are indexed with their task | as the index | partly |
| Notifications; AI assistant; subtasks, tags, custom fields, attachments, backlinks, the all-tasks view; templates, sprints, filters, mentions, watchers, activity, search; export, calendar, analytics; apps and webhooks; whiteboard; infrastructure; frontend | their own rows | CRUD, reports, outbound calls | little shared state | - | not modelled, see 8 |

How they meet:

- In the `Task` row. A move asks the relations and the checklist whether the task
  may be completed, runs in one transaction with them and starts a recurrence
  afterwards. A restore appends to a column, a layout change completes whole
  columns at once, a deleted column takes its tasks along; the reminder job
  writes due dates and stamps by id.
- Through events. A service emits after its commit; the listeners of the index
  and of the gateway run in the same process, in memory, and nothing repeats an
  event that was lost. With several replicas Socket.IO carries messages between
  them by way of Redis (`RedisIoAdapter`), but a gateway looks up the sockets of a
  user in its own `socketsByUser`.
- Through the membership cache, which every request but a socket join asks first.

`PROJECT.json` lists every hazard at its line.

### Locks, as the code takes them

- `TaskRelationsService.create`: `pg_advisory_xact_lock(hashtext(workspaceId))`,
  then for BLOCKS `FOR UPDATE` on the target, then the cycle check, then the
  insert, whose foreign keys take `FOR KEY SHARE` on both tasks.
- `move` and `bulkUpdate`: `FOR UPDATE` on each task that is to be completed,
  one at a time in (column, position) order, before its two assertions.
- `TaskChecklistService.create`: no explicit lock, but the item's foreign key
  waits for a `FOR UPDATE` holder of the task. `update` and `remove` of an item
  touch no key and wait for nobody.
- `acceptInvitation` claims the invitation by a conditional update, and keeps its
  row until the commit; archiving updates the workspace first and the pending
  invitations next.
- `deleteColumn` deletes the row before it renumbers the others: inserts into the
  column wait for it at their foreign key and then fail.
- The tick of the reminder job: `SET NX EX 55`, never released.

So the target of a blocking relation is locked against its own completion, the
source only by the foreign key. Creation (target, then source) and bulk moves
(any order) can deadlock; PostgreSQL then cancels one of them.

## 2. Modules

| Module | Models | Lives on |
|---|---|---|
| `Digraph` | paths and cycles of a finite graph, without recursion | `Reach` is the least closed set |
| `DependencyGraph` | what relations promise: an acyclic graph whose links are checked against the graph they join | one variable, `edges` |
| `TaskDependencies` | relations, completion gate, checklist, recurrence, trash and layout on one board | locks, snapshots, the graph |
| `BoardOrder` | positions in columns, statement by statement | uncommitted rows |
| `BoardLayout` | boards with columns, funnels with stages, what is put into them | counts and orders read early |
| `WorkspaceMembers` | members, owners, invitations, cache and room of one workspace | two databases, one of them a cache |
| `RefreshSessions` | refresh sessions and reset links of one account, cookies of its browsers | rotation and its races |
| `DueReminders` | the tick of the reminder job and the users who change tasks | time, a lock that expires, fairness |
| `RagIndex` | the jobs of the search index | jobs in memory |
| `MC*` | instances: symmetry sets, starting states, ranks of columns | |
| `*_proofs` | theorems | |

No module assumes anything about another. Where two describe the same handlers
they do it at different depths: `TaskDependencies` has locks, gates and the graph
and leaves positions out; `BoardOrder` has positions and leaves the gate out, so
that it lets every move through; `BoardLayout` has the columns, which the other
two hold fixed, and takes a task for a thing in a column. `TaskDependencies` lets
a bulk move gate its tasks in any order, because positions may be anything.

Variables named as history in a module are for its properties only: no guard of
an action reads them.

### TaskDependencies

| Variable | Code |
|---|---|
| `status` | row absent, `deletedAt` null, set, or row deleted |
| `col`, `completedAt` | `Task.columnId`, `Task.completedAt` |
| `dod` | whether some required checklist item is unchecked ("pending"), or items exist without one ("met") |
| `doneCols` | what `isDoneColumn` accepts: the last column by layout, or a "done" name |
| `blocks`, `relates` | `TaskRelation` rows by type |
| `advisory`, `rowLock` | holder of the advisory lock; holder of `FOR UPDATE` of each row |
| `req` | where each concurrent request is, with everything it read and still uses |
| `restored`, `waived` | history |

A task is completed if `completedAt` is set **or** its column is a done column
(`isTaskCompleted`). A plain move into a done column leaves `completedAt` alone;
bulk moves and the COMPLETE_TASK automation set it.

| Operation | Actions |
|---|---|
| create relation | `StartRelate`, `TakeAdvisory`, `LockTarget`, `CheckCycle`, `InsertRelation` |
| remove relation | `RemoveRelation` |
| move, bulkUpdate(columnId) | `StartMove`, `GateTask` per task, `CommitMove`, `Recur` per recurring task |
| create, remove, restore, purge a task | `CreateTask`, `TrashTask`, `RestoreTask`, `StartPurge` + `PurgeTask` |
| checklist | `AddChecklistItem`, `ChangeChecklistItem` |
| column layout | `ReshapeBoard` |
| failure | `Abort` (crash, lost connection, Prisma's transaction timeout), `DeadlockVictim` |

`Record` belongs to every step and only keeps the history variables.

### BoardOrder

`row` is the committed table, `work` the newest version of each row, `owner` the
open transaction that wrote it; a statement sees its own writes and committed
rows and waits for rows with another owner. One action per statement:
`StartAppend`/`AppendTask` (create, duplicate, restore), `StartRemove` /
`SoftDelete` / `CloseGapAfterDelete`, `StartMove` / `CloseGap` / `MakeSpace` /
`Place` or `ReadColumn` / `Renumber` within a column, `StartBulk` / `BulkRead` /
`BulkWrite` / `BulkPlace`, and `ReadLanded` / `RecurCloseGap` / `RecurLast` /
`RecurMakeSpace` / `RecurPlace` for the recurrence. `Abort` rolls back anywhere.
`mix` fixes for a behaviour which operations go on together.

No request locks a column, so distinct positions cannot be promised outright.
The history variable `tangled` holds the columns last written by a request that
some other commit overtook; a reorder or bulk move that nobody overtakes
rebuilds a column and clears it. The properties say what survives every race and
what only tangled columns lose.

### BoardLayout

Boards of tasks and funnels of deals are written after the same pattern, so one
module has both: `kind` fixes which of the two a behaviour is about, and the
actions name the differences (funnels are never deleted, a list of funnels makes
a default one, a deleted stage rewrites every other stage one by one).

| Variable | Code |
|---|---|
| `board` | `Board`, `Funnel` rows |
| `lane` | `BoardColumn`, `FunnelStage` rows: board and position |
| `item` | tasks or deals: live, trashed, purged; `swept` and `lost` say how a cascade took it |
| `req` | request with the count, the order and the positions it has read |
| `raced`, `late`, `unfiled` | history |

| Operation | Actions |
|---|---|
| deleteColumn, deleteStage | `StartDelete`, `CountLanes`, `CountTrash`, `DropLane`, `ReadRemaining`, `CommitDelete`; `DeadlockVictim` |
| moveColumn, moveStage | `StartMove`, `ReadLanes`, `CommitMove` |
| createColumn, createStage | `StartLane`, `ReadLast`, `InsertLane` |
| createBoard, createFunnel, listing funnels | `CreateBoard`, `ListFunnels`, `MakeDefault` |
| deleteBoard | `StartUnboard`, `CountBoards`, `DeleteBoard` |
| create, move, remove, restore, purge of a task or deal | `StartAdd`, `AddItem`, `StartItem`, `ChangeItem` |
| public form, import | `Submit`, `PickColumn`, `StartImport`, `ReadColumns`, `CommitImport` |
| failure | `Abort` |

### WorkspaceMembers

| Variable | Code |
|---|---|
| `role`, `row` | `workspace_members`: role and id of each user's row |
| `ownerId`, `shut` | `Workspace.ownerId`; which of `archivedAt`, `deletedAt` are set |
| `invite` | invitations: address, role, accepted, revoked |
| `cache` | Redis keys `ws:membership:<workspace>:<user>` |
| `room` | sockets in the room of the workspace: `<<user, process>>`, by the process they are connected to |
| `req` | where each request is, in which process it runs (`on`) and what it has read |
| `raced`, `ghosts`, `late` of a row | history |

| Operation | Actions |
|---|---|
| getMembership | `CacheHit`, or `LoadMembership` and `FillCache`; `Expire` |
| updateMemberRole, removeMember | `ReadTarget`, `CountOwners`, `CommitRole` or `CommitRemove`, `InvalidateTarget`, `InvalidateActor`, `Evict`; `InvalidateFails`, `EvictFails` |
| workspace:join | `JoinRead`, `EnterRoom`, `Recheck` |
| createInvitation, revokeInvitation | `CheckInvited`, `CheckActive`, `InsertInvite`; `ReadInvite`, `RevokeInvite` |
| acceptInvitation | `ReadAccept`, `ClaimInvite`, `CheckWorkspace`, `AdmitMember` |
| archive, remove, unarchive | `BeginShut`, `CommitShut`, `Unarchive` |
| failure | `Crash` of one process (its requests, open transactions and sockets are gone, Redis, the committed rows and the other processes stay) |

`acceptInvitation` and archiving read between their writes, so their locks are
modelled (`Locked`) and their writes become visible together. `Evict` is the
removal event as the gateway of the removing process handles it: the member's
socket on that process leaves the room, those on other processes stay, and
`ghosts` notes them.

### RefreshSessions

| Variable | Code |
|---|---|
| `session` | `refresh_sessions` by token: standing, expired, revoked; family |
| `link` | `password_reset_tokens` |
| `cookie` | the refresh cookie of each browser, shared by its tabs |
| `req` | where each request is |
| `resets`, `era`, `burnt`, `closed`, `sent`, `stray` of a row | history |

| Operation | Actions |
|---|---|
| login | `Login`, `IssueTokens`, `Answer` |
| refresh | `Refresh`, `ReadSession`, `ClaimSession`, `IssueTokens`, `Answer`, or `BurnFamily` on a reuse |
| logout, logoutAll | `Logout`, `EndSession`; `LogoutAll` |
| requestPasswordReset, resetPassword | `Forgot`, `MintLink`, `Mail`, `Unlink`; `Reset`, `ResetPassword` |
| failure | `LoseAnswer`, `Fail`, `Expire` |

### DueReminders

Days are counted in whole numbers and due dates are midnights, so "within 24
hours" is tomorrow's midnight and "overdue" is a midnight before today's.

| Variable | Code |
|---|---|
| `today` | the clock |
| `status`, `due`, `assignee`, `stamped` | the columns of `Task` the job reads; `stamped` is `dueReminderSentAt` |
| `lock` | the key `jobs:due-reminders:tick` |
| `tick` | each tick that runs somewhere, with the tasks it has read |
| `notices`, `vain`, `overran`, `edited` of a tick | history |

The tick is `TryLock`, `SyncBatch`, `CommitReminders`, `ReadOverdue`, `RollTask`
(each update by itself); `LockExpires` and `Crash` are its failures; `Reschedule`,
`Complete`, `ChangeStatus`, `Assign` and `NextDay` happen meanwhile.

### RagIndex

| Variable | Code |
|---|---|
| `status`, `text`, `written` | the tasks, their texts cut into chunks, the comments that exist |
| `index` | `rag_chunks`: the row (id and hash of the chunk) of each source at each place |
| `job` | jobs pending or running in memory |
| `doubt` | history: what happened to a source since a job last ran on it alone |

Jobs: `ReadSource`, `ListExisting`, `EmbedBatch`, `StoreChunk`, `DeleteStale` to
index a text; `DropTask`, `DropComments`, `DropSource` to delete; `Wipe`,
`ListTasks`, `ListComments` to reindex a workspace; `Refuse` and `Break` fail.
The edits `SaveTask`, `TrashTask`, `WriteComment`, `RemoveComment`,
`RequestReindex` schedule jobs; `FileTask` (a task from a public form, an import,
a DUPLICATE recurrence or the breakdown of an epic), `RestoreTask`, `PurgeTask`
and `CascadeTask` schedule none, as in the code.

## 3. Runs

| Run | Instance | Asks |
|---|---|---|
| `dep_graph` | 3 tasks, 2 requests, 3 columns, two layouts; everything, where a behaviour has either relations of tasks that stay where they were created, or the checklist and the moves of one task | `TypeOK`, `SettledGraphAcyclic`, `OneRelationPerPair`, `NoDanglingRelation`, `DoDSatisfied`, `ImplementsGraph` (refinement of `DependencyGraph`) |
| `completion_gate` | 2 tasks, 2 requests, an automation column, two layouts; relate, move, bulk, trash, restore, reshape | `BlockersFinished` |
| `requests_answered` | 2 tasks, 2 requests, one task recurring; relate, bulk, abort; `FairSpec` | `RequestsAnswered` |
| `board_order` | 3 tasks, 2 columns, 2 requests; move, reorder, remove, restore, or create, bulk, move with two recurring tasks | `TypeOK`, `UniqueUnlessRaced`, `OrderKept`, `LandsWhereAsked` |
| `board_layout` | 2 requests at a time, 4 in all, 1 item, ids for 2 boards and 4 lanes; from a board with two columns, two boards, a funnel with three stages, and no funnel | `TypeOK`, `LastOnesKept`, `TrashKept`, `AnswersFiled`, `Mends` |
| `members` | 3 users, 2 processes, 2 invitations, 2 requests at a time, 3 in all; every operation, outages, a crash of a process | `TypeOK`, `SoleOwner`, `CacheFresh`, `RoomOfMembers`, `OneActiveInvitation`, `JoinsByOpenInvitation` |
| `refresh_sessions` | 3 tokens, 2 links, 2 browsers, 3 requests at a time, 5 in all; every operation and failure | `TypeOK`, `HandedOn`, `OnlyInFlightEscapes`, `NoFalseAlarm`, `ResetByFreshLink` |
| `due_reminders` | 2 tasks, one of them recurring, 2 ticks, batches of 1, 2 days, 2 edits, 1 crash; fair | `TypeOK`, `OnceWhileLocked`, `StampMeansReminded`, `RollsOnlyOverdue`, `Reminded` |
| `rag_index` | 1 task with four texts, 1 comment, 2 jobs, batches of 1, 3 edits, 2 faults | `TypeOK`, `SettledIndex`, `NoGhosts`, `Whole` |
| `blocker_limit` | 3 tasks, 1 request, `GateTake = 1` | a violation of `BlockersFinished`, see 5 |
| `restored_cycle` | 3 tasks, 1 request | a violation of `LiveGraphAcyclic`, see 5 |
| `last_owner` | 3 users, 1 process, 2 requests | a violation of `HasOwner`, see 5 |

What they show:

- **The graph.** Between the check and the insert of one creation, others
  create, remove, trash and purge; the graph among tasks that never came back
  from the trash stays acyclic, and each new edge is checked against the graph it
  really joins. Without the advisory lock it is not (a mutant shows it). Three
  tasks give cycles of length 2 and 3, two requests the race of two halves.
- **The gate.** `BlockersFinished` is not "a completed task has no open blocker":
  a blocker may be reopened, restored or recur afterwards, the layout may
  complete a column at once, and a move decides from a snapshot whether it needs
  the gate at all. `waived` records exactly these ways, at the step where they
  happen and only as long as the completion lasts; the property says there is no
  other. In particular the `FOR UPDATE` of the target, taken by both sides, keeps
  a relation from being created onto a task that another request completes.
- **The checklist.** The same for required items. An item can be reopened
  between the gate and the commit (no lock), but not added (foreign key).
- **Answers.** Lock waits end and deadlocks are broken. The purge waits for one
  row and holds none, so the instance leaves it out.
- **Positions of tasks.** Never negative (`TypeOK`), in any interleaving; equal
  only in tangled columns; `closeGap` and `makeSpace` never reorder bystanders,
  not even when they run at a stale place; a move that runs alone lands at the
  index it asked for.
- **Columns and stages.** The last column, stage and board survive everything but
  two requests of which one acted on a count the other had made too high
  (`LastOnesKept`). A cascade deletes from the trash only what got there while
  the deletion ran (`TrashKept`). A form's answer finds a column unless such a
  race left none (`AnswersFiled`). Whatever gaps and equal positions races leave,
  the next deletion or move that is not overtaken numbers the columns 0, 1, 2, ...
  again, in their order (`Mends`).
- **Membership.** As long as no request acts on roles that changed under it, the
  user in `ownerId` is the one owner (`SoleOwner`). A cached role that is not the
  stored one is either about to be deleted, or was written by a load that
  overlapped the change, or is due to Redis or the process failing
  (`CacheFresh`): no operation forgets someone whose role it changed. A removed
  member's socket is out of the room when the removal and the join have ended, in
  whichever order and in whichever processes their steps ran, with one exception:
  a socket that was in the room when the removal ended without reaching it, as it
  ran in another process or broke off (`RoomOfMembers`). A join that overlaps a
  removal elsewhere needs no exception, its second look catches it. Who is removed
  cannot return on an old invitation (`OneActiveInvitation`), and nobody joins a
  shut workspace or by a used or revoked invitation (`JoinsByOpenInvitation`), but
  for an invitation inserted after its checks had become outdated.
- **Sessions.** A family has one standing session at most, counting the one a
  rotation is about to create (`HandedOn`). Only a request already past its claim
  or password check escapes a revocation (`OnlyInFlightEscapes`). A lost answer
  and a retry do raise the reuse alarm; nothing less than a second use, or a
  session its owner ended, does (`NoFalseAlarm`). No reset link works twice or
  survives a later reset (`ResetByFreshLink`).
- **Reminders.** While ticks end within the lock's time to live no due date is
  reminded of twice (`OnceWhileLocked`). A stamp stands for a reminder of the
  present date, but for three ways the code has of keeping or writing an old one
  (`StampMeansReminded`). The roll never moves a date that is not overdue, unless
  it was set after the tick read it (`RollsOnlyOverdue`). Through crashes,
  overlapping ticks and failed batches, a task that stays due is reminded in the
  end, if former members' tasks do not fill the batch (`Reminded`).
- **Index.** Once the jobs are done the index is the text (`SettledIndex`), dead
  texts have no rows (`NoGhosts`) and rows are never from two texts (`Whole`),
  each unless one of the events that `doubt` names has happened since a job last
  ran undisturbed. The three differ in which events matter. A task that came to be
  without an event is one of them for `SettledIndex`: it stays out of the index
  until somebody edits it or the workspace is reindexed.

Each property of a passing run has a mutant of the code that violates it, listed
in `PROJECT.json`: a missing lock, a lookup in one direction, a cascade left out,
a walk in the wrong direction, a count in place of the last position, an
off-by-one in `splice`, a lost `orderBy`, an invalidation or a second look
forgotten, an ignored count of updated rows, a lock set without `NX` or without a
time to live.

### Fairness

`FairSpec` of `TaskDependencies` assumes strong fairness of each request's next
step and weak fairness of the deadlock detector. PostgreSQL queues waiters of a
lock in order, so a request whose lock becomes free again and again does get it,
which is strong fairness; the advisory lock works the same. The detector runs
after `deadlock_timeout` for every waiter. New requests (`Arrive`) and `Abort` are
not assumed to happen: the client owes no further request, and no progress may
rest on a crash.

`DueReminders` assumes weak fairness of some tick's `TryLock` (a timer fires every
minute in every replica), of each running tick (`Advance`: a callback that was
queued runs), and of `LockExpires` (Redis drops a key whose time to live is
over). Nothing is assumed of users, of the clock or of crashes. `Reminded` does
not need more: a lock that nobody holds any more stays until it expires, and then
the next timer takes it.

The other modules state safety only. Their requests wait for nothing but row
locks of transactions in progress, which end or are cancelled.

`CHECK_DEADLOCK FALSE` appears where all there is may have been used up: every
task purged (`dep_graph`, `restored_cycle`), every request made (`board_layout`,
`members`, `last_owner`, `refresh_sessions`), every edit made (`rag_index`). The
other runs check deadlock.

## 4. Proofs

All theorems hold for every value of the constants that meets the named
assumption of the module: any finite set of tasks, users, tokens, any clients,
ticks and limits.

| Module | Theorem | States |
|---|---|---|
| `TaskDependencies_proofs` | `TypeCorrect` | `Spec => []TypeOK` |
| | `RelationInvariant` | `Spec => []RelationInv` |
| | `PairsAreUnique` | `Spec => []OneRelationPerPair` |
| | `RelationsAreAttached` | `Spec => []NoDanglingRelation` |
| | `Refinement` | `Spec => ImplementsGraph` |
| | `SettledAcyclic` | `Spec => []SettledGraphAcyclic` |
| | `GateInvariant` | `Spec => []GateInv` |
| | `ChecklistGate` | `Spec => []DoDSatisfied` |
| | `BlockerGate` | `Spec => []BlockersFinished` |
| `DependencyGraph_proofs` | `GraphAcyclic` | the abstract graph stays acyclic |
| `BoardOrder_proofs` | `OrderInvariant` | `Spec => []OrderInv` |
| | `OrderTypeCorrect` | `Spec => []TypeOK` |
| | `PositionsAreUnique` | `Spec => []UniqueUnlessRaced` |
| | `OrderIsKept` | `Spec => OrderKept` |
| | `MovesLand` | `Spec => LandsWhereAsked` |
| `BoardLayout_proofs` | `LayoutInvariant` | `Spec => []LayoutInv` |
| | `LayoutTypeCorrect` | `Spec => []TypeOK` |
| | `LastOnesAreKept` | `Spec => []LastOnesKept` |
| | `TrashIsKept` | `Spec => []TrashKept` |
| | `AnswersAreFiled` | `Spec => []AnswersFiled` |
| | `OrderIsMended` | `Spec => Mends` |
| `WorkspaceMembers_proofs` | `MembersTypeCorrect` | `Spec => []TypeOK` |
| | `OneOwner` | `Spec => []SoleOwner` |
| | `CacheIsFresh` | `Spec => []CacheFresh` |
| | `RoomIsOfMembers` | `Spec => []RoomOfMembers` |
| | `InvitationInvariant` | `Spec => []InviteInv` |
| | `InvitationsAreSingle` | `Spec => []OneActiveInvitation` |
| | `JoinsAreInvited` | `Spec => JoinsByOpenInvitation` |
| `RefreshSessions_proofs` | `SessionsTypeCorrect` | `Spec => []TypeOK` |
| | `SessionsInvariant` | `Spec => []SessionInv` |
| | `FamiliesHandedOn` | `Spec => []HandedOn` |
| | `RevocationIsFinal` | `Spec => []OnlyInFlightEscapes` |
| | `AlarmsAreJustified` | `Spec => []NoFalseAlarm` |
| | `ResetsTakeFreshLinks` | `Spec => ResetByFreshLink` |
| `DueReminders_proofs` | `RemindersTypeCorrect` | `Spec => []TypeOK` |
| | `RemindersInvariant` | `Spec => []RemindersInv` |
| | `RemindedOnce` | `Spec => []OnceWhileLocked` |
| | `StampsAreTrue` | `Spec => []StampMeansReminded` |
| | `RollsAreDue` | `Spec => RollsOnlyOverdue` |
| `RagIndex_proofs` | `IndexInvariant` | `Spec => []IndexInv` |
| | `IndexTypeCorrect` | `Spec => []TypeOK` |
| | `SettledIsRight` | `Spec => []SettledIndex` |
| | `GhostsAreGone` | `Spec => []NoGhosts` |
| | `TextsAreWhole` | `Spec => []Whole` |

Every safety and action property of a passing run is a theorem. The assumptions
are the named ones of each module: finite sets, disjoint where the code uses
different tables, limits that are natural numbers. Two bear on the code:
`RagConstants` says that there is some text to write and that no row of the index
is the mark for "no row". `OriginStaysOpen` and the size of `Tasks` are hypotheses
of the gate theorems, see below. The facts about `Reach` are in
`DependencyGraph_proofs`, and its monotonicity in `TaskDependencies_proofs`.

**Relations.** Acyclicity is not inductive for the code, because the check is one
statement and the insert another. `RelationInv` adds what creation relies on in
between: (1) a request past its pair lookup holds the advisory lock, hence only
one is; (2) its pair is still unrelated, since only the holder inserts; (3) once
it has passed the cycle check, its source is not reachable from its target over
settled edges. Other requests can only make settled edges fewer (`Withdraws`,
`SettledEdgesShrink`): removals and purges delete rows, a trashing hides them,
and a restored task never counts as settled again. Reachability is monotone, so
(3) survives until the insert, which is then a `Link` of the abstract graph; every
other step is an `Unlink` or a stutter. That is `Refinement`, and `SettledAcyclic`
is the abstract theorem seen through the refinement. Only restores break
monotonicity; this is why the theorem speaks of settled edges, and it is finding 2.

**The gate.** Between the gate of a task and the commit that completes it, only
the task's row is locked. `GateInv` says what that lock buys: a request past its
gate holds the row (`PassedHold`), what the gate saw stays true or is waived, and
a request about to insert a blocking relation holds its target and has found it
unfinished (`TargetsHold`); two holders of one row exclude each other, so no
relation slips in. Two assumptions are needed, and each names a limit of the
code. `OriginStaysOpen`: recurring tasks do not go back to a done column, for the
recurrence passes no gate. `Cardinality(Tasks) <= GateTake`, for the blockers
only: that is finding 1.

**Positions.** `OrderInv` says for each stage of each request what it has written
and what it may rely on. The rows an open transaction has written are its own, and
each differs from the committed row by one shift, or by the number its list gives
it; every other row a statement sees is committed. As long as nobody has committed
since a request read (`Isolated`), what it read is the committed table: the task
is where it was, an append's position is free, exactly the rows behind the task
and from the requested position on are shifted, a list is the column in its
order. From this a commit of an isolated request leaves distinct positions where
there were some, and rebuilds a column it numbers; one that was overtaken tangles
the columns it wrote. A request can also overtake itself: a bulk move that
completes several recurring tasks sends them back one after the other, the second
from a place the first return may have changed (`Due` holds only until then). Two
tasks to send back and two behind them are what it takes, more than the run has:
here it is the proof that says nothing else goes wrong. `closeGap` and `makeSpace`
are monotone whatever they were told, which is why `OrderIsKept` needs isolation
only for those that renumber from a list (`RenumberInv`, `BulkInv`). `ListedBefore` counts the tasks before a place
of a list; with the index of `Spliced` this is `MovesLand`.

**Columns.** `LayoutInv` has the types of the requests by stage (`Formed`; past its
count a deletion has counted two), the three invariants themselves, and two facts
about what was read early. `TrashSeen`: what is in the trash of a lane whose
deletion has looked there got there afterwards. `CalmOK`: an order that nobody
overtook lists the lanes of its board, each once, by position. The lanes of a board
change only by a step that makes every other request on that board no longer calm
(`Aside`), so numbering such an order leaves 0, 1, 2, ...: `OrderIsMended`.

**Members.** `SoleOwner` becomes inductive with what each request that changes
roles has read (`Vet*`): until somebody races, the role it read of its target and
actor is the stored one or the request will be recorded as outdated at its
commit. `AccessInv` adds `CacheFresh` and `RoomOfMembers` to the types and fields
of requests: every step either leaves roles alone (`AccessFrame`) or leaves
behind a request that owes the DEL and the event (`OwedStays`). What such a request
owes is gone when it ends without it, or when its process stops: those are the
steps that mark the cache entry as late and the sockets left behind as `ghosts`.

**Invitations.** An acceptance and an archiving both write what they read a
statement before. `InviteInv` says what the row locks keep true in between: the
transactions in progress hold disjoint invitations (`LocksApart`), an acceptance
keeps an open invitation of its own address and, once it has looked, an open
workspace, an archiving has seen every pending invitation (`Holds`). Where an
acceptance looks before an archiving commits, its invitation is pending and not
among the revoked ones, so it is one that came late.

**Sessions.** `SessionInv` ties a request to the lineage of the session it read
(`Lineage`: a family is named after a session that exists), says that whoever is
about to create a successor has claimed the only standing session of its family
(`HandedOn` counts it as the session to come), that a request about to create a
session is marked as stray by every revocation it escapes (`InFlight`), and that
a revoked token nobody has ended was presented, and will have been presented
twice when anyone meets it revoked (`Alarms`).

**Reminders.** `RemindersInv`: as long as no tick outlived its lock, a running
tick holds the lock and is alone (`OneTick`); what it has listed to remind is
unstamped or was edited since (`ListUnstamped`), and what has been reminded of
its present date is stamped (`NoticesStamped`), so nothing is reminded of twice.
`ListOverdue` says the same of the roll: listed tasks are overdue or edited since.

**Index.** The properties speak of sources no job is left for; a job takes many
steps, and what it leaves is wrong if another one ran in between. `IndexInv` says
source by source what holds while jobs are under way. Two jobs at work on one
source know of each other (`PairsRaced`). Unless it was overtaken, a job finds the
chunks of its text where it has nothing left to store, and beyond them the rows it
has listed (`RowsIntact`); its text is the present one, or the source will be
visited again (`TextFresh`). That it was overtaken is on record, or again a visit
is to come (`RaceKnown`). An id stands for one place, so deleting stale ids never
hits a new row (`IdsTell`). `SettledIndex` and `NoGhosts` are then stated of
sources that no job owes a visit (`Owing`), of which the quiet ones are a part,
and `Whole` of sources no job at work has written for. There is a lemma for each
kind of effect a step may have on a source (scheduled, missed, left in doubt for
good, a text lost, dropped, wiped, started, worked on, deleted, refused); each
action is shown to have one of these effects on the sources it touches and none
on the others.

Only model-checked: liveness (`RequestsAnswered`, `Reminded`), which the prover does
not reach, and what the runs of section 5 refute.

## 5. Findings

1. `blocker_limit`. `assertCanComplete` reads at most 100 blocking relations, in
   no given order, and creation bounds only the workspace (5000). A task with
   more live blockers can be completed while one that was not read is open. The
   run scales 100 down to 1.
2. `restored_cycle`. Trash B of A -> B -> C, create C -> A (the check skips
   relations of trashed tasks), restore B: a cycle of live tasks, none of which
   can pass the gate any more.
3. `last_owner`. `updateMemberRole` and `removeMember` read the roles, and count
   the owners where the target is one, before their transaction. The owner ann hands
   the ownership to the administrator bob; before that transaction runs, another
   request of hers to remove bob reads him as an administrator and counts nothing.
   The transfer commits, then the removal deletes bob's row by its id: nobody owns
   the workspace any more and `ownerId` names somebody who is not a member, although
   `workspaces.service.ts:932` tells callers that at least one owner must remain.

## 6. Behaviours worth knowing

The models contain them, and they contradict no document.

- A bulk move that completes several recurring tasks reads all their places at
  once (`tasks/tasks.service.ts:580`) and sends them back in a transaction each; the
  later gaps are closed (`tasks/tasks.service.ts:928`) at places the first return has
  changed. A recurring task
  whose origin is the done column leaves a gap; a move to a position beyond the
  end of another column is not clamped and leaves a gap; a reorder writes
  positions to rows that have left the column meanwhile.
- A recurring task whose origin is a done column recurs into it without a gate.
- `deleteColumn` and `deleteStage` refuse while something of the lane is in the
  trash, but delete its live items by cascade; `deleteBoard` has no such guard.
- A stage that is deleted while another deletion runs may make the other fail as
  a whole, since every remaining stage is updated by id.
- Two first listings of funnels at once make two default funnels.
- A form files its task on some board of the workspace, no order given, at the
  end of a column whose trashed tasks are counted.
- A MOVE_TASK recurrence and the overdue roll keep `dueReminderSentAt`: the next
  occurrence is never reminded of. A stamp written after a task was rescheduled
  suppresses the reminder of its new date.
- A task purged between the two statements of a batch fails the whole tick; a
  full batch of tasks of former members keeps all others waiting. A crash after
  the commit loses the mails. Notifications have no unique key, so their
  `skipDuplicates` skips nothing.
- The roll reads at most a batch of dated tasks per column, in no given order, and
  looks for overdue ones among those only: in a longer column some may stay.
- Restoring a task, deleting a column or a board and purging emit nothing the
  index listens to; nor do the ways to create a task other than the task service's
  own: a public form (`forms/forms.service.ts:372`), an import
  (`import/import.service.ts:157`), a recurrence by DUPLICATE
  (`tasks/tasks.service.ts:902`), the breakdown of an epic (`ai/ai.service.ts:572`).
- Overlapping jobs of one source may mix two texts; a refusal
  of the provider leaves the old rows or half of the new ones; jobs live in
  memory and die with the process.
- A request that lost the answer to a refresh and repeats it burns its family. A
  refused refresh leaves the cookie in place.
- The removal of a member is announced within its process, and the gateway returns
  where it tracks no socket of theirs (`realtime/realtime.gateway.ts:144`). With
  replicas, which `docker-compose.prod.yml:46` foresees once the Redis adapter is
  enabled (`main.ts` does enable it), a removed member whose socket is connected to
  another replica stays in the room until it disconnects. `onUserAccessRevoked`
  looks its sockets up the same way.
- Two transfers of the ownership that overlap leave two owners.
- Two invitations of one address created at once are both active; either may be
  used, also after a later removal.

## 7. Abstractions and bounds

- Writes of a transaction appear at its commit in `TaskDependencies`. Acquiring a
  lock and the reads made under it are one step: acquisition commutes to the
  right of everything it does not exclude.
- `RemoveRelation`, `TrashTask` and `RestoreTask` are one step each: each writes
  one row by id, and what may happen between their read and their write leaves
  the same rows behind.
- In `TaskDependencies` the advisory lock is one per workspace, as in the code;
  collisions of `hashtext` would only serialise more.
- `TaskDependencies` has no row locks of position updates. They are in
  `BoardOrder`, where `Abort` also stands for the victim of a deadlock.
- `BoardOrder` omits the `FOR UPDATE` of completing moves and the purge: it has
  every interleaving the code has, and some more. Its columns are fixed; the
  recurrence action DUPLICATE is only present as an append.
- `BoardLayout` takes the template of a new board for a single lane, and leaves
  positions of items to `BoardOrder`. An import that fails after a unique key did
  (its transaction is then unusable) fails as a whole.
- `WorkspaceMembers` treats a VIEWER as this code does, like a MEMBER; the expiry
  of an invitation is a revocation by time; a cache entry may expire at any time. A
  user has one socket per process, and sockets go away with their process only:
  a disconnected socket listens no more, which can break nothing here. Two
  processes are enough for a removal to miss a socket; which of several does not
  matter.
- `RefreshSessions` is about one account: other accounts share no row with it.
  A crash of the process is `Fail` of each of its requests.
- `DueReminders` counts days, so the tasks a batch may pick from are all due alike;
  mails leave no trace. The roll, which the code does board by board, reads all
  overdue tasks at once here, and its limit of tasks read per column is not
  reached.
- `RagIndex` takes a chunk for its hash and leaves the title of a task that is
  quoted in its comments' chunks out; that a provider returns fewer vectors than
  asked for is not modelled.
- `GateTake` is 100 and `MaxBlocking` 5000 in the passing runs, the code's own
  values, which no small instance reaches. `blocker_limit` lowers the first.
- `MaxRequest` bounds the position a client asks for (the DTO allows 10000);
  `MaxPosition` bounds positions at the start of an append, removal or move
  between columns. Off-by-one errors show at the ends of a column of up to three
  tasks; a largest request of 1 asks for the front and the middle in `board_order`.
- `MaxTangled = 0`: a race starts only on a board without tangled columns; with
  one, requests run one by one until it is repaired. Two races in a row on the
  same column are outside the instance.
- `MaxRequests`, `MaxEdits`, `MaxFaults`, `MaxCrashes`, `LastDay` bound how much
  happens, not how it interleaves. Two requests suffice for the races listed: each
  hazard is between two handlers, and what a third adds is a state to start from,
  which the third, fourth and fifth request of a run prepare. Three-party
  deadlocks are possible in `WaitsFor`, but not in the instances.

## 8. Not modelled

- **Frontend.** User interface over the API. The autosave of the whiteboard is a
  timer in the browser around a drawing library; of the shared API client only
  the timeout appears, as a lost answer in `RefreshSessions`.
- **AI assistant.** Prompts, providers, chat and their streams: I/O towards a
  model provider, with rows that belong to one user. Its index is `RagIndex`.
- **Notifications** beyond the reminder job, **subtasks, tags, custom fields,
  attachments, backlinks, templates, sprints, filters, mentions, watchers,
  activity**: CRUD over rows that hang on one task or user, each in a statement
  or two. Two counts before a write are left: the limit of apps
  (`apps/apps.service.ts:45`) and the default filter (`filters/saved-filters.service.ts:48`).
- **Search, all tasks, export, calendar, analytics**: reads and conversions.
- **Apps and outbound webhooks**: I/O towards other systems.
- Of modelled components: names and settings of a workspace and the page scopes of
  members (written without invalidating the cache, `workspaces.service.ts:306`);
  registration, access tokens and their deny list; connecting to the gateway, access that
  is revoked altogether, and the fan-out; configuration of automations, WIP limits;
  fields and templates of deals and forms.

## 9. Plan

Done: the relation graph, the gate, positions, columns and stages, members,
sessions, reminders, the index, and the proofs of section 4, which leave no safety
property to TLC alone.

Left, in this order:

1. The recurrence action DUPLICATE in `TaskDependencies`, with `GateInv`.
2. Access tokens and the deny list in `RefreshSessions`, with a second account.
3. Positions of deals as an instance of `BoardOrder` over another table.
4. An abstract specification of an index (a source holds its text or is due a
   visit) that `RagIndex` implements where no doubt arises.
