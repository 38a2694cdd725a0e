----------------------------- MODULE BoardOrder -----------------------------
(***************************************************************************)
(* The order of tasks inside the columns of one board: the integer         *)
(* positions that tasks.service.ts keeps with closeGap, makeSpace and      *)
(* reorderWithinColumn, and trash.service.ts with restore.                 *)
(*                                                                         *)
(* Nothing in the schema makes positions unique and no request locks a     *)
(* column.  Each handler reads a task or a column first and writes later,  *)
(* so the module interleaves the statements of concurrent transactions:    *)
(* a statement reads committed rows and its own writes (READ COMMITTED),   *)
(* and waits for rows another open transaction has written.  A statement   *)
(* that waits is taken to begin when it can run; the last statement of a   *)
(* transaction and its commit are one step.                                *)
(***************************************************************************)
EXTENDS Integers, Sequences, FiniteSets

CONSTANTS
    Tasks, Clients, NoOne,
    Columns,
    Rank,          \* BoardColumn.position of each column
    Done,          \* the column that completes tasks
    Origin,        \* recurrenceOriginColumnId
    MaxTangled,    \* bound: with more tangled columns requests run one by one
    Mixes          \* what may go on together, see Mix

\* ops: what clients ask for.  recurring: tasks with a recurrence rule and the
\* action MOVE_TASK.  maxRequest bounds the position a request asks for (the
\* DTO allows 10000).  maxPosition: with a larger position on the board only
\* reorders and bulk moves start.
Mix == [ops : SUBSET {"create", "remove", "restore", "move", "bulk"},
        recurring : SUBSET Tasks, maxRequest : Nat, maxPosition : Nat]

ASSUME OrderConstantsOK ==
    /\ IsFiniteSet(Tasks)
    /\ NoOne \notin Clients
    /\ Rank \in [Columns -> Nat]
    /\ Done \in Columns /\ Origin \in Columns
    /\ MaxTangled \in Nat
    /\ Mixes \subseteq Mix

VARIABLES
    mix,       \* the mix of requests of this behaviour, fixed from the start
    row,       \* committed rows: [status, col, pos] of each task
    work,      \* the latest version of each row, committed or not
    owner,     \* the open transaction that wrote work[t], or NoOne
    req,       \* the state of each client's request
    tangled    \* history: columns last written by a request that another one
               \* overtook, and not rebuilt since

vars == <<mix, row, work, owner, req, tangled>>

-----------------------------------------------------------------------------
(* Rows and statements *)

Row == [status : {"absent", "live", "trashed"}, col : Columns, pos : Nat]

\* What a statement of client c sees.
View(c) == [t \in Tasks |-> IF owner[t] = c THEN work[t] ELSE row[t]]

In(v, k) == {t \in Tasks : v[t].status = "live" /\ v[t].col = k}

\* Mutant: the number of tasks instead of the last position.
NextPositionByCount(v, k) == Cardinality(In(v, k))

\* (last?.position ?? -1) + 1
NextPosition(v, k) ==
    IF In(v, k) = {} THEN 0
    ELSE 1 + (CHOOSE p \in {v[t].pos : t \in In(v, k)} : \A t \in In(v, k) : v[t].pos <= p)

\* Mutant: no orderBy.
SortedAnyhow(v, S) ==
    {q \in [1 .. Cardinality(S) -> S] : \A i, j \in DOMAIN q : i < j => q[i] # q[j]}

\* orderBy: { position: 'asc' }; equal positions come in any order.
Sorted(v, S) ==
    {q \in [1 .. Cardinality(S) -> S] :
        \A i, j \in DOMAIN q : i < j => q[i] # q[j] /\ v[q[i]].pos <= v[q[j]].pos}

Items(q)      == {q[i] : i \in DOMAIN q}
IndexOf(q, t) == (CHOOSE i \in DOMAIN q : q[i] = t) - 1

\* Mutant: gte where the code has gt.
GapRowsFrom(v, k, p) == {t \in In(v, k) : v[t].pos >= p}

\* updateMany where columnId = k, live and position > p: decrement
GapRows(v, k, p)  == {t \in In(v, k) : v[t].pos > p}
ClosedGap(v)      == [t \in Tasks |-> [v[t] EXCEPT !.pos = @ - 1]]

\* updateMany where columnId = k, live and position >= p: increment
SpaceRows(v, k, p) == {t \in In(v, k) : v[t].pos >= p}
MadeSpace(v)       == [t \in Tasks |-> [v[t] EXCEPT !.pos = @ + 1]]

\* q's tasks take the positions 0, 1, ... in q's order, starting at base.
Numbered(v, q, base) ==
    [t \in Tasks |-> IF t \in Items(q) THEN [v[t] EXCEPT !.pos = base + IndexOf(q, t)] ELSE v[t]]

\* Mutant: spliced in behind the requested index.
SplicedAfter(q, i, t) ==
    LET n == IF i < Len(q) THEN i + 1 ELSE Len(q)
    IN  SubSeq(q, 1, n) \o <<t>> \o SubSeq(q, n + 1, Len(q))

\* without.splice(i, 0, t)
Spliced(q, i, t) ==
    LET n == IF i <= Len(q) THEN i ELSE Len(q)
    IN  SubSeq(q, 1, n) \o <<t>> \o SubSeq(q, n + 1, Len(q))

-----------------------------------------------------------------------------
(* Requests *)

Idle       == [pc |-> "idle"]
At(c, pc)  == req[c].pc = pc
Goto(c, r) == req' = [req EXCEPT ![c] = r]

\* Nothing c has read has changed since: no other request has committed, and c
\* itself has not moved the tasks it is still to put back.
Isolated(c) == ~req[c].raced

\* c's statement gives the rows of W the versions f[t].
CanWrite(c, W) == \A t \in W : owner[t] \in {NoOne, c}
Updated(W, f)  == [t \in Tasks |-> IF t \in W THEN f[t] ELSE work[t]]

Write(c, W, f, r) ==
    /\ CanWrite(c, W)
    /\ work' = Updated(W, f)
    /\ owner' = [t \in Tasks |-> IF t \in W THEN c ELSE owner[t]]
    /\ Goto(c, r)
    /\ UNCHANGED <<row, tangled>>

\* c's last statement and COMMIT.  Every other request in flight is overtaken;
\* if c itself was overtaken, the columns it wrote in are tangled, and if not,
\* those it has rebuilt from 0 no longer are.
Commit(c, W, f, rebuilt, r) ==
    LET mine == W \cup {t \in Tasks : owner[t] = c}
        hit  == {row[t].col : t \in mine} \cup {Updated(W, f)[t].col : t \in mine} IN
    /\ CanWrite(c, W)
    /\ work' = Updated(W, f)
    /\ row' = [t \in Tasks |-> IF t \in mine THEN work'[t] ELSE row[t]]
    /\ owner' = [t \in Tasks |-> IF t \in mine THEN NoOne ELSE owner[t]]
    /\ tangled' = IF Isolated(c) THEN tangled \ rebuilt ELSE tangled \cup hit
    /\ req' = [d \in Clients |->
                 IF d = c THEN r
                 ELSE IF At(d, "idle") THEN Idle ELSE [req[d] EXCEPT !.raced = TRUE]]

\* ROLLBACK: the request ends by an early return or an exception.
Rollback(c) ==
    /\ work' = [t \in Tasks |-> IF owner[t] = c THEN row[t] ELSE work[t]]
    /\ owner' = [t \in Tasks |-> IF owner[t] = c THEN NoOne ELSE owner[t]]
    /\ Goto(c, Idle)
    /\ UNCHANGED <<row, tangled>>

\* A step that only reads.
Read(c, r) == Goto(c, r) /\ UNCHANGED <<row, work, owner, tangled>>

MayStart(c, op) ==
    /\ At(c, "idle") /\ op \in mix.ops
    /\ Cardinality(tangled) <= MaxTangled \/ \A d \in Clients : At(d, "idle")

\* The bound on positions: only reorders and bulk moves, which number from 0,
\* are exempt.
Bounded == \A t \in Tasks : row[t].status = "live" => row[t].pos <= mix.maxPosition

-----------------------------------------------------------------------------
(* create, duplicate and restore: append after the last live task *)

StartAppend(c) ==
    /\ Bounded
    /\ \E t \in Tasks, k \in Columns :
         /\ \/ /\ MayStart(c, "create") /\ row[t].status = "absent"
               /\ \A d \in Clients : At(d, "append") => req[d].task # t
            \/ MayStart(c, "restore") /\ row[t].status = "trashed" /\ row[t].col = k
         /\ Read(c, [pc |-> "append", task |-> t, new |-> row[t].status = "absent", to |-> k,
                     pos |-> NextPosition(row, k), raced |-> FALSE])

\* INSERT, or UPDATE of deletedAt and position: a restored row stays in the
\* column it is in by then.
AppendTask(c) ==
    /\ At(c, "append")
    /\ LET r == req[c]
           k == IF r.new THEN r.to ELSE row[r.task].col
       IN  Commit(c, {r.task}, [row EXCEPT ![r.task] = [status |-> "live", col |-> k, pos |-> r.pos]],
                  {}, Idle)

-----------------------------------------------------------------------------
(* remove: soft delete, then close the gap where the task used to be *)

StartRemove(c) ==
    /\ MayStart(c, "remove") /\ Bounded
    /\ \E t \in Tasks :
          /\ row[t].status = "live"
          /\ Read(c, [pc |-> "delete", task |-> t, from |-> row[t].col, was |-> row[t].pos,
                      raced |-> FALSE])

SoftDelete(c) ==
    /\ At(c, "delete")
    /\ Write(c, {req[c].task}, [View(c) EXCEPT ![req[c].task].status = "trashed"],
             [req[c] EXCEPT !.pc = "deleteGap"])

CloseGapAfterDelete(c) ==
    /\ At(c, "deleteGap")
    /\ Commit(c, GapRows(View(c), req[c].from, req[c].was), ClosedGap(View(c)), {}, Idle)

-----------------------------------------------------------------------------
(* move: to another column, or reorderWithinColumn *)

StartMove(c) ==
    /\ MayStart(c, "move")
    /\ \E t \in Tasks, k \in Columns, p \in 0 .. mix.maxRequest :
          /\ row[t].status = "live"
          /\ Bounded \/ row[t].col = k
          /\ Read(c, [pc |-> IF row[t].col = k THEN "readColumn" ELSE "closeGap",
                      task |-> t, from |-> row[t].col, was |-> row[t].pos,
                      to |-> k, pos |-> p, raced |-> FALSE])

CloseGap(c) ==
    /\ At(c, "closeGap")
    /\ LET r == req[c]
       IN  Write(c, GapRows(View(c), r.from, r.was), ClosedGap(View(c)),
                 [pc |-> "makeSpace", task |-> r.task, to |-> r.to, pos |-> r.pos, raced |-> r.raced])

MakeSpace(c) ==
    /\ At(c, "makeSpace")
    /\ Write(c, SpaceRows(View(c), req[c].to, req[c].pos), MadeSpace(View(c)),
             [req[c] EXCEPT !.pc = "place"])

\* What is left of r once its tasks S landed in their column.
AfterLanding(r, S) ==
    LET due == IF r.to = Done THEN S \cap mix.recurring ELSE {}
    IN  IF due = {} THEN Idle ELSE [pc |-> "landed", due |-> due, raced |-> r.raced]

\* UPDATE of columnId and position by id, live or not.
Place(c) ==
    /\ At(c, "place")
    /\ LET r == req[c]
       IN  Commit(c, {r.task}, [View(c) EXCEPT ![r.task].col = r.to, ![r.task].pos = r.pos],
                  {}, AfterLanding(r, {r.task}))

\* The column is read and the task spliced in at the requested index; nothing
\* happens if the task has left the column.
ReadColumn(c) ==
    /\ At(c, "readColumn")
    /\ LET r == req[c]
           S == In(row, r.to) IN
         IF r.task \notin S
           THEN Commit(c, {}, work, {}, AfterLanding(r, {r.task}))
           ELSE \E q \in Sorted(row, S \ {r.task}) :
                  LET all == Spliced(q, r.pos, r.task) IN
                  Read(c, [pc |-> "renumber", task |-> r.task, to |-> r.to, pos |-> r.pos, order |-> all,
                           changed |-> {t \in S : row[t].pos # IndexOf(all, t)}, raced |-> r.raced])

\* One UPDATE ... CASE id, whatever the rows have become in the meantime.
Renumber(c) ==
    /\ At(c, "renumber")
    /\ LET r == req[c]
       IN  Commit(c, r.changed, Numbered(View(c), r.order, 0), {r.to}, AfterLanding(r, {r.task}))

-----------------------------------------------------------------------------
(* bulkUpdate with columnId: renumber who stays, append who comes *)

StartBulk(c) ==
    /\ MayStart(c, "bulk")
    /\ \E ids \in SUBSET {t \in Tasks : row[t].status = "live"} \ {{}}, k \in Columns :
         \E q \in [1 .. Cardinality(ids) -> ids] :
           /\ \A i, j \in DOMAIN q :
                i < j => /\ q[i] # q[j]
                         /\ \/ Rank[row[q[i]].col] < Rank[row[q[j]].col]
                            \/ row[q[i]].col = row[q[j]].col /\ row[q[i]].pos <= row[q[j]].pos
           /\ Read(c, [pc |-> "bulkRead", ids |-> q, to |-> k, stay |-> <<>>, raced |-> FALSE,
                       sources |-> {row[t].col : t \in ids} \ {k},
                       todo |-> {row[t].col : t \in ids} \ {k},
                       arriving |-> IF k = Done THEN {t \in ids : row[t].col # Done} ELSE {}])

\* The tasks that stay in a source column, or at last in the target, are read ...
BulkRead(c) ==
    /\ At(c, "bulkRead")
    /\ LET r == req[c] IN
       \E k \in IF r.todo = {} THEN {r.to} ELSE r.todo :
         \E q \in Sorted(View(c), In(View(c), k) \ Items(r.ids)) :
           Read(c, [r EXCEPT !.pc = IF r.todo = {} THEN "bulkLast" ELSE "bulkWrite",
                             !.todo = @ \ {k}, !.stay = q])

\* ... and numbered from 0, one UPDATE by id each.
BulkWrite(c) ==
    /\ req[c].pc \in {"bulkWrite", "bulkLast"}
    /\ LET r == req[c]
       IN  Write(c, Items(r.stay), Numbered(View(c), r.stay, 0),
                 [r EXCEPT !.pc = IF @ = "bulkWrite" THEN "bulkRead" ELSE "bulkPlace"])

\* The moved tasks follow those that stay in the target.
BulkPlace(c) ==
    /\ At(c, "bulkPlace")
    /\ LET r    == req[c]
           here == [t \in Tasks |-> IF t \in Items(r.ids) THEN [View(c)[t] EXCEPT !.col = r.to]
                                                          ELSE View(c)[t]]
       IN  Commit(c, Items(r.ids), Numbered(here, r.ids, Len(r.stay)),
                  r.sources \cup {r.to}, AfterLanding(r, r.arriving))

-----------------------------------------------------------------------------
(* handleRecurrenceCompletion(MOVE_TASK), after the commit of the move *)

\* The rows are read again, all at once; each is then sent back in a
\* transaction of its own, from the place read here.
ReadLanded(c) ==
    /\ At(c, "landed")
    /\ Read(c, [pc |-> "recur", due |-> {<<t, row[t].col, row[t].pos>> : t \in req[c].due},
                raced |-> req[c].raced])

RecurCloseGap(c) ==
    /\ At(c, "recur")
    /\ \E d \in req[c].due :
         Write(c, GapRows(View(c), d[2], d[3]), ClosedGap(View(c)),
               [pc |-> "recurLast", task |-> d[1], pos |-> 0, due |-> req[c].due \ {d},
                raced |-> req[c].raced])

RecurLast(c) ==
    /\ At(c, "recurLast")
    /\ Read(c, [req[c] EXCEPT !.pc = "recurSpace", !.pos = NextPosition(View(c), Origin)])

RecurMakeSpace(c) ==
    /\ At(c, "recurSpace")
    /\ Write(c, SpaceRows(View(c), Origin, req[c].pos), MadeSpace(View(c)),
             [req[c] EXCEPT !.pc = "recurPlace"])

\* Putting one task back may move the next one, whose gap is then closed where
\* it no longer is: such a request has overtaken itself.
RecurPlace(c) ==
    /\ At(c, "recurPlace")
    /\ LET r      == req[c]
           placed == [View(c) EXCEPT ![r.task].col = Origin, ![r.task].pos = r.pos]
           stale  == \E d \in r.due : placed[d[1]].col # d[2] \/ placed[d[1]].pos # d[3]
       IN  Commit(c, {r.task}, placed, {},
                  IF r.due = {} THEN Idle
                  ELSE [pc |-> "recur", due |-> r.due, raced |-> r.raced \/ stale])

-----------------------------------------------------------------------------
\* The process dies, or the transaction times out or is a deadlock's victim.
Abort(c) == ~At(c, "idle") /\ Rollback(c)

\* Columns numbered 0, 1, ... without gaps; what was not created yet is absent.
Init ==
    /\ mix \in Mixes
    /\ row \in [Tasks -> [status : {IF "create" \in mix.ops THEN "absent" ELSE "live", "live"},
                          col : Columns, pos : 0 .. Cardinality(Tasks) - 1]]
    /\ \A k \in Columns : {row[t].pos : t \in In(row, k)} = 0 .. Cardinality(In(row, k)) - 1
    /\ \A t \in Tasks : row[t].status = "absent" => row[t].pos = 0 /\ row[t].col = Origin
    /\ work = row
    /\ owner = [t \in Tasks |-> NoOne]
    /\ req = [c \in Clients |-> Idle]
    /\ tangled = {}

Act(c) ==
    \/ StartAppend(c) \/ AppendTask(c)
    \/ StartRemove(c) \/ SoftDelete(c) \/ CloseGapAfterDelete(c)
    \/ StartMove(c) \/ CloseGap(c) \/ MakeSpace(c) \/ Place(c)
    \/ ReadColumn(c) \/ Renumber(c)
    \/ StartBulk(c) \/ BulkRead(c) \/ BulkWrite(c) \/ BulkPlace(c)
    \/ ReadLanded(c) \/ RecurCloseGap(c) \/ RecurLast(c) \/ RecurMakeSpace(c) \/ RecurPlace(c)
    \/ Abort(c)

Next == (\E c \in Clients : Act(c)) /\ UNCHANGED mix

Spec == Init /\ [][Next]_vars

-----------------------------------------------------------------------------
(* Properties *)

\* What a request remembers at each stage.
Appending   == [pc : {"append"}, task : Tasks, new : BOOLEAN, to : Columns, pos : Nat,
                raced : BOOLEAN]
Removing    == [pc : {"delete", "deleteGap"}, task : Tasks, from : Columns, was : Nat,
                raced : BOOLEAN]
Moving      == [pc : {"closeGap", "readColumn"}, task : Tasks, from : Columns, was : Nat,
                to : Columns, pos : Nat, raced : BOOLEAN]
Shifting    == [pc : {"makeSpace", "place"}, task : Tasks, to : Columns, pos : Nat,
                raced : BOOLEAN]
Renumbering == [pc : {"renumber"}, task : Tasks, to : Columns, pos : Nat, order : Seq(Tasks),
                changed : SUBSET Tasks, raced : BOOLEAN]
BulkMoving  == [pc : {"bulkRead", "bulkWrite", "bulkLast", "bulkPlace"}, ids : Seq(Tasks),
                to : Columns, stay : Seq(Tasks), raced : BOOLEAN, sources : SUBSET Columns,
                todo : SUBSET Columns, arriving : SUBSET Tasks]
Landing     == [pc : {"landed"}, due : SUBSET Tasks, raced : BOOLEAN]
Places      == Tasks \X Columns \X Nat
Recurring   == [pc : {"recur"}, due : SUBSET Places, raced : BOOLEAN]
Returning   == [pc : {"recurLast", "recurSpace", "recurPlace"}, task : Tasks, pos : Nat,
                due : SUBSET Places, raced : BOOLEAN]

Request == {Idle} \cup Appending \cup Removing \cup Moving \cup Shifting \cup Renumbering
                  \cup BulkMoving \cup Landing \cup Recurring \cup Returning

\* Positions stay natural numbers, whatever overtakes whatever: closeGap only
\* decrements what lies beyond the removed position.
TypeOK ==
    /\ mix \in Mixes
    /\ row \in [Tasks -> Row]
    /\ work \in [Tasks -> Row]
    /\ owner \in [Tasks -> Clients \cup {NoOne}]
    /\ \A t \in Tasks : owner[t] = NoOne => work[t] = row[t]
    /\ req \in [Clients -> Request]
    /\ tangled \in SUBSET Columns

\* Two live tasks of a column share a position only in a column where a request
\* wrote that was overtaken since it read, by another one or, putting several
\* recurring tasks back, by itself; a reorder or a bulk move that runs alone
\* repairs the column.
UniqueUnlessRaced ==
    \A k \in Columns \ tangled : \A t, u \in In(row, k) : t # u => row[t].pos # row[u].pos

\* The request that runs this statement, and the tasks it is about.
Acts(c) == ~At(c, "idle") /\ req'[c].pc # req[c].pc
Moved(c) ==
    IF At(c, "bulkPlace") THEN Items(req[c].ids)
    ELSE IF "task" \in DOMAIN req[c] THEN {req[c].task} ELSE {}

\* No commit swaps two tasks it was not asked to move, not even one that was
\* overtaken (closeGap and makeSpace are monotone); only a renumbering from an
\* order read before somebody else's commit may.
OrderKept ==
    [][row' # row => \A c \in Clients :
         Acts(c) /\ (Isolated(c) \/ req[c].pc \notin {"renumber", "bulkPlace"}) =>
           \A k \in Columns : \A t, u \in (In(row, k) \cap In(row', k)) \ Moved(c) :
             row[t].pos < row[u].pos => row'[t].pos <= row'[u].pos]_vars

\* A move that runs alone puts the task at the requested index of the target
\* column, or at its end; for a move between columns this needs the target
\* to have no gaps.
LandsWhereAsked ==
    [][row' # row => \A c \in Clients :
         LET r    == req[c]
             Rest == In(row, r.to) \ {r.task}
             n    == Cardinality(Rest) IN
         /\ Acts(c) /\ Isolated(c)
         /\ \/ At(c, "renumber")
            \/ At(c, "place") /\ {row[t].pos : t \in Rest} = 0 .. n - 1
         => Cardinality({t \in Rest : row'[t].pos < row'[r.task].pos}) = IF r.pos <= n THEN r.pos ELSE n]_vars
=============================================================================
