------------------------------ MODULE BoardLayout ------------------------------
(***************************************************************************)
(* What a workspace's work is arranged in: boards with columns of tasks,   *)
(* or funnels with stages of deals.  Both are the same shape, a lane on a  *)
(* board with items in it, handled by services written after each other;   *)
(* `kind` says which of the two a behaviour is about, and the actions say  *)
(* where the services differ.                                              *)
(*                                                                         *)
(*   boards/boards.service.ts     boards, columns, their order             *)
(*   funnels/funnels.service.ts   funnels, stages, their order             *)
(*   deals, tasks, trash          what is put into a lane and taken out    *)
(*   forms, import                tasks and columns made by others         *)
(*                                                                         *)
(* One action per awaited statement, the last one of a transaction commits *)
(* it.  Places of items within a lane are the subject of BoardOrder.       *)
(***************************************************************************)
EXTENDS Naturals, FiniteSets, SequencesExt

CONSTANTS
    Clients,      \* concurrently running requests
    Items,        \* tasks, or deals
    MaxBoards,    \* ids of boards (bounds an instance)
    MaxLanes,     \* ids of lanes (bounds an instance)
    Starts,       \* the boards and lanes to start from
    None,         \* "no item"
    MaxRequests,  \* how many requests are ever started (bounds an instance)
    Ops           \* what may be requested (bounds an instance)

Boards     == 1 .. MaxBoards
Lanes      == 1 .. MaxLanes
Operations == {"board", "unboard", "lane", "delete", "move", "default", "add", "carry",
               "trash", "restore", "purge", "submit", "import", "abort"}

\* A start: the kind, which boards exist, and the board of each lane (0: none).
ASSUME LayoutConstants ==
    /\ IsFiniteSet(Clients) /\ IsFiniteSet(Items) /\ None \notin Items
    /\ MaxBoards \in Nat \ {0} /\ MaxLanes \in Nat \ {0} /\ MaxRequests \in Nat
    /\ Starts \subseteq [kind : {"boards", "funnels"}, boards : SUBSET Boards,
                         on : [Lanes -> Boards \cup {0}]]
    /\ \A s \in Starts : {s.on[l] : l \in Lanes} \ {0} = s.boards
    /\ \A s \in Starts : s.kind = "boards" => s.boards # {}
    /\ Ops \subseteq Operations

VARIABLES
    kind,      \* "boards" or "funnels"
    board,     \* of each board: "new" | "live" | "gone"
    lane,      \* board_columns, funnel_stages
    item,      \* tasks, deals: status and lane
    req,       \* the state of each client's request
    started,   \* how many requests were started
    raced,     \* history: a count had become too high when it was acted upon
    late,      \* history: items trashed while a deletion of their lane ran
    unfiled    \* history: an answer to a form found no column for its task

rows == <<board, lane, item>>
vars == <<kind, rows, req, started, raced, late, unfiled>>

LaneRow == [st : {"new", "live", "gone"}, board : Boards, pos : Nat]

\* "swept": deleted with its lane while live, or with its board;
\* "lost": deleted with its lane while in the trash.
ItemRow == [st : {"new", "live", "trashed", "purged", "swept", "lost"}, lane : Lanes]

LanesOf(b)    == {l \in Lanes : lane[l].st = "live" /\ lane[l].board = b}
LiveBoards    == {b \in Boards : board[b] = "live"}
Fresh(ids, s) == {i \in ids : s[i] = "new" /\ \A j \in ids : s[j] = "new" => i <= j}
FreshLanes    == Fresh(Lanes, [l \in Lanes |-> lane[l].st])

Stages  == {"idle", "count", "trash", "drop", "remaining", "renumber", "order", "reorder",
            "last", "insert", "boards", "unboard", "funnels", "default", "put", "item",
            "pick", "file", "columns", "import"}
Request == [pc : Stages, op : Operations, board : Boards \cup {0}, lane : Lanes \cup {0},
            item : Items \cup {None}, n : Nat, order : Seq(Lanes), seen : [Lanes -> Nat],
            calm : BOOLEAN]

Idle == [pc |-> "idle", op |-> "abort", board |-> 0, lane |-> 0, item |-> None, n |-> 0,
         order |-> <<>>, seen |-> [l \in Lanes |-> 0], calm |-> FALSE]

At(c, pc) == req[c].pc = pc
Go(c, pc) == req' = [req EXCEPT ![c].pc = pc]
Done(c)   == req' = [req EXCEPT ![c] = Idle]

\* The lanes of b change: who has read their order is overtaken.
Disturbed(c, b) == [d \in Clients |->
    IF d = c THEN Idle ELSE IF req[d].board = b THEN [req[d] EXCEPT !.calm = FALSE] ELSE req[d]]

\* The row of lane l, and of every item in it, is deleted by an open transaction.
Dropping(l) == \E c \in Clients : req[c].pc \in {"remaining", "renumber"} /\ req[c].lane = l

Start(c, op, r) ==
    /\ At(c, "idle") /\ op \in Ops /\ started < MaxRequests
    /\ started' = started + 1
    /\ req' = [req EXCEPT ![c] = [r EXCEPT !.op = op]]
    /\ UNCHANGED <<kind, rows, raced, late, unfiled>>

-----------------------------------------------------------------------------
(* deleteColumn, deleteStage *)

StartDelete(c) == \E b \in Boards, l \in Lanes :
    /\ l \in LanesOf(b)
    /\ Start(c, "delete", [Idle EXCEPT !.pc = "count", !.board = b, !.lane = l])

\* Mutant: the last one may go, too.
LastOneToo(n) == n < 1

LastOne(n) == n <= 1

CountLanes(c) ==
    LET n == Cardinality(LanesOf(req[c].board)) IN
    /\ At(c, "count")
    /\ IF LastOne(n) THEN Done(c)
                     ELSE req' = [req EXCEPT ![c].pc = "trash", ![c].n = n]
    /\ UNCHANGED <<kind, rows, started, raced, late, unfiled>>

\* Mutant: the live items are counted.
TrashInLive(l) == {i \in Items : item[i].st = "live" /\ item[i].lane = l}

TrashIn(l) == {i \in Items : item[i].st = "trashed" /\ item[i].lane = l}

CountTrash(c) ==
    /\ At(c, "trash")
    /\ IF TrashIn(req[c].lane) # {} THEN Done(c) ELSE Go(c, "drop")
    /\ UNCHANGED <<kind, rows, started, raced, late, unfiled>>

\* The transaction begins with the row, waiting for another deletion of it.
DropLane(c) ==
    LET l == req[c].lane IN
    /\ At(c, "drop") /\ ~Dropping(l)
    /\ IF lane[l].st = "live" THEN Go(c, "remaining") ELSE Done(c)
    /\ UNCHANGED <<kind, rows, started, raced, late, unfiled>>

\* ORDER BY position: equal positions come in any order.
Ordered(S) == {s \in SetToSeqs(S) :
                 \A i, j \in DOMAIN s : i < j => lane[s[i]].pos <= lane[s[j]].pos}

\* findMany has returned the lanes; `order` is the one that will be written.
ReadOrder(c, next, order) ==
    req' = [req EXCEPT ![c].pc = next, ![c].order = order, ![c].calm = TRUE,
                       ![c].seen = [l \in Lanes |-> lane[l].pos]]

ReadRemaining(c) ==
    /\ At(c, "remaining")
    /\ \E s \in Ordered(LanesOf(req[c].board) \ {req[c].lane}) : ReadOrder(c, "renumber", s)
    /\ UNCHANGED <<kind, rows, started, raced, late, unfiled>>

Index(s, l) == CHOOSE i \in DOMAIN s : s[i] = l

\* The place of l in the order of r, counted from 0.
Place(r, l) == Index(r.order, l) - 1

\* The rows a request writes: the changed ones, or all of them.
Written(r, all) == {l \in ToSet(r.order) : all \/ r.seen[l] # Place(r, l)}

Renumbered(r, ls) == [l \in Lanes |->
    IF l \in ls /\ lane[l].st = "live" THEN [lane[l] EXCEPT !.pos = Place(r, l)] ELSE lane[l]]

\* Of funnels every stage is updated, one by one; an update of a row that is
\* gone fails, of boards one statement writes what has changed.
CommitDelete(c) ==
    LET l  == req[c].lane
        ws == Written(req[c], kind = "funnels") IN
    /\ At(c, "renumber") /\ \A k \in ws : ~Dropping(k)
    /\ IF kind = "funnels" /\ \E k \in ws : lane[k].st # "live"
       THEN Done(c) /\ UNCHANGED <<lane, item, raced>>
       ELSE /\ lane' = [Renumbered(req[c], ws) EXCEPT ![l].st = "gone"]
            /\ item' = [i \in Items |-> IF item[i].lane # l THEN item[i] ELSE
                   [item[i] EXCEPT !.st = CASE @ = "live" -> "swept" [] @ = "trashed" -> "lost"
                                            [] OTHER -> @]]
            /\ raced' = (raced \/ Cardinality(LanesOf(req[c].board)) < req[c].n)
            /\ req' = Disturbed(c, req[c].board)
    /\ UNCHANGED <<kind, board, started, late, unfiled>>

\* Two deletions that wait for each other's lanes: one of them is chosen.
DeadlockVictim(c) ==
    /\ At(c, "renumber")
    /\ \E d \in Clients : /\ d # c /\ At(d, "renumber")
                          /\ req[d].lane \in Written(req[c], kind = "funnels")
                          /\ req[c].lane \in Written(req[d], kind = "funnels")
    /\ Done(c)
    /\ UNCHANGED <<kind, rows, started, raced, late, unfiled>>

-----------------------------------------------------------------------------
(* moveColumn, moveStage, createColumn, createStage *)

\* `n` is the place asked for.
StartMove(c) == \E b \in Boards, l \in Lanes, n \in 0 .. MaxLanes - 1 :
    /\ l \in LanesOf(b)
    /\ Start(c, "move", [Idle EXCEPT !.pc = "order", !.board = b, !.lane = l, !.n = n])

\* Mutant: the place is counted with the moved lane still in the list.
SplicedBefore(s, l, n) ==
    InsertAt(RemoveAt(s, Index(s, l)),
             IF n < Index(s, l) THEN n + 1 ELSE IF n > Len(s) THEN Len(s) ELSE n, l)

\* filter, then splice(n, 0, l): a place beyond the end is the end.
Spliced(s, l, n) == LET rest == RemoveAt(s, Index(s, l)) IN
    InsertAt(rest, IF n > Len(rest) THEN Len(rest) + 1 ELSE n + 1, l)

ReadLanes(c) ==
    LET l     == req[c].lane
        lanes == LanesOf(req[c].board) IN
    /\ At(c, "order")
    /\ IF l \in lanes
       THEN \E s \in Ordered(lanes) : ReadOrder(c, "reorder", Spliced(s, l, req[c].n))
       ELSE Done(c)
    /\ UNCHANGED <<kind, rows, started, raced, late, unfiled>>

CommitMove(c) ==
    LET ws == Written(req[c], FALSE) IN
    /\ At(c, "reorder") /\ \A k \in ws : ~Dropping(k)
    /\ lane' = Renumbered(req[c], ws)
    /\ req' = Disturbed(c, req[c].board)
    /\ UNCHANGED <<kind, board, item, started, raced, late, unfiled>>

StartLane(c) == \E b \in LiveBoards :
    Start(c, "lane", [Idle EXCEPT !.pc = "last", !.board = b])

\* Mutant: the 1 is not added.
NextPosLow(b) == IF LanesOf(b) = {} THEN 0 - 1
                 ELSE CHOOSE p \in {lane[l].pos : l \in LanesOf(b)} :
                         \A l \in LanesOf(b) : lane[l].pos <= p

\* (last?.position ?? -1) + 1
NextPos(b) == IF LanesOf(b) = {} THEN 0
              ELSE 1 + CHOOSE p \in {lane[l].pos : l \in LanesOf(b)} :
                          \A l \in LanesOf(b) : lane[l].pos <= p

ReadLast(c) ==
    /\ At(c, "last")
    /\ req' = [req EXCEPT ![c].pc = "insert", ![c].n = NextPos(req[c].board)]
    /\ UNCHANGED <<kind, rows, started, raced, late, unfiled>>

\* The foreign key fails when the board is gone.
InsertLane(c) ==
    LET b == req[c].board IN
    /\ At(c, "insert")
    /\ IF board[b] # "live" THEN Done(c) /\ UNCHANGED lane
       ELSE /\ \E l \in FreshLanes :
                 lane' = [lane EXCEPT ![l] = [st |-> "live", board |-> b, pos |-> req[c].n]]
            /\ req' = Disturbed(c, b)
    /\ UNCHANGED <<kind, board, item, started, raced, late, unfiled>>

-----------------------------------------------------------------------------
(* createBoard, createFunnel, ensureDefaultFunnel, deleteBoard *)

\* createDefaultBoard, createDefaultFunnel: the board and the lanes of its
\* template, here the one lane.
MakeBoard(b) == \E l \in FreshLanes :
    /\ board' = [board EXCEPT ![b] = "live"]
    /\ lane' = [lane EXCEPT ![l] = [st |-> "live", board |-> b, pos |-> 0]]

CreateBoard(c) == \E b \in Fresh(Boards, board) :
    /\ At(c, "idle") /\ "board" \in Ops /\ started < MaxRequests
    /\ started' = started + 1
    /\ MakeBoard(b)
    /\ UNCHANGED <<kind, item, req, raced, late, unfiled>>

\* Listing the funnels makes one where there is none.
ListFunnels(c) ==
    /\ kind = "funnels" /\ LiveBoards = {}
    /\ Start(c, "default", [Idle EXCEPT !.pc = "default"])

MakeDefault(c) ==
    /\ At(c, "default")
    /\ \E b \in Fresh(Boards, board) : MakeBoard(b)
    /\ raced' = (raced \/ LiveBoards # {})
    /\ Done(c)
    /\ UNCHANGED <<kind, item, started, late, unfiled>>

\* Boards only: there is no operation that deletes a funnel.
StartUnboard(c) == \E b \in LiveBoards :
    /\ kind = "boards"
    /\ Start(c, "unboard", [Idle EXCEPT !.pc = "boards", !.board = b])

CountBoards(c) ==
    LET n == Cardinality(LiveBoards) IN
    /\ At(c, "boards")
    /\ IF LastOne(n) THEN Done(c) ELSE req' = [req EXCEPT ![c].pc = "unboard", ![c].n = n]
    /\ UNCHANGED <<kind, rows, started, raced, late, unfiled>>

\* The columns and the tasks go with it, those in the trash included.
DeleteBoard(c) ==
    LET b == req[c].board IN
    /\ At(c, "unboard") /\ \A l \in LanesOf(b) : ~Dropping(l)
    /\ IF board[b] # "live" THEN Done(c) /\ UNCHANGED <<rows, raced>>
       ELSE /\ board' = [board EXCEPT ![b] = "gone"]
            /\ lane' = [l \in Lanes |-> IF l \in LanesOf(b) THEN [lane[l] EXCEPT !.st = "gone"]
                                                            ELSE lane[l]]
            /\ item' = [i \in Items |-> IF item[i].st \in {"live", "trashed"}
                                           /\ item[i].lane \in LanesOf(b)
                                        THEN [item[i] EXCEPT !.st = "swept"] ELSE item[i]]
            /\ raced' = (raced \/ Cardinality(LiveBoards) < req[c].n)
            /\ req' = Disturbed(c, b)
    /\ UNCHANGED <<kind, started, late, unfiled>>

-----------------------------------------------------------------------------
(* Items *)

\* create of a task or a deal: the lane is read, then the row inserted.
StartAdd(c) == \E b \in Boards : \E l \in LanesOf(b) :
    Start(c, "add", [Idle EXCEPT !.pc = "put", !.lane = l])

NewItems == {i \in Items : item[i].st = "new"}

\* The foreign key waits for a deletion of the lane, and fails after it.
AddItem(c) ==
    LET l == req[c].lane IN
    /\ At(c, "put") /\ ~Dropping(l)
    /\ IF lane[l].st # "live" THEN UNCHANGED item
       ELSE \E i \in NewItems : item' = [item EXCEPT ![i] = [st |-> "live", lane |-> l]]
    /\ Done(c)
    /\ UNCHANGED <<kind, board, lane, started, raced, late, unfiled>>

\* move to another lane, remove, restore and purge read the item first ...
StartItem(c) == \E i \in Items, op \in {"carry", "trash", "restore", "purge"}, l \in Lanes :
    /\ item[i].st = IF op \in {"carry", "trash"} THEN "live" ELSE "trashed"
    /\ IF op = "carry" THEN lane[l].st = "live" /\ l # item[i].lane ELSE l = item[i].lane
    /\ Start(c, op, [Idle EXCEPT !.pc = "item", !.item = i, !.lane = l])

\* A deletion of the item's lane has found nothing in the trash before.
Deleting(l) == \E c \in Clients : req[c].lane = l /\ req[c].pc \in {"drop", "remaining", "renumber"}

\* What each operation does to the row i, whatever has become of it.
After(op, i, l) == CASE op = "carry"   -> [item[i] EXCEPT !.lane = l]
                     [] op = "trash"   -> [item[i] EXCEPT !.st = "trashed"]
                     [] op = "restore" -> [item[i] EXCEPT !.st = "live"]
                     [] op = "purge"   -> [item[i] EXCEPT !.st = "purged"]

\* ... and change it by id.
ChangeItem(c) ==
    LET i == req[c].item
        l == IF req[c].op = "carry" THEN req[c].lane ELSE item[i].lane
        new == After(req[c].op, i, l) IN
    /\ At(c, "item") /\ ~Dropping(item[i].lane) /\ ~Dropping(l)
    /\ IF item[i].st \in {"live", "trashed"} /\ lane[l].st = "live"
       THEN /\ item' = [item EXCEPT ![i] = new]
            /\ late' = IF new.st # "trashed" \/ Deleting(l) THEN late \cup {i}
                       ELSE IF item[i].st = "live" THEN late \ {i} ELSE late
       ELSE UNCHANGED <<item, late>>
    /\ Done(c)
    /\ UNCHANGED <<kind, board, lane, started, raced, unfiled>>

-----------------------------------------------------------------------------
(* Forms and imports *)

\* submitPublicForm, of a form that makes a task of each answer.
Submit(c) == /\ kind = "boards"
             /\ Start(c, "submit", [Idle EXCEPT !.pc = "pick"])

\* Mutant: the first column is looked for at position 0.
FirstLanesZero(b) == {l \in LanesOf(b) : lane[l].pos = 0}

FirstLanes(b) == {l \in LanesOf(b) : \A k \in LanesOf(b) : lane[l].pos <= lane[k].pos}

\* Some board, and its first column; without one the answer is stored alone.
PickColumn(c) ==
    /\ At(c, "pick")
    /\ \/ \E b \in LiveBoards : \E l \in FirstLanes(b) :
            /\ req' = [req EXCEPT ![c].pc = "put", ![c].lane = l]
            /\ UNCHANGED unfiled
       \/ /\ LiveBoards = {} \/ \E b \in LiveBoards : FirstLanes(b) = {}
          /\ Done(c)
          /\ unfiled' = TRUE
    /\ UNCHANGED <<kind, rows, started, raced, late>>

StartImport(c) == \E b \in LiveBoards :
    /\ kind = "boards"
    /\ Start(c, "import", [Idle EXCEPT !.pc = "columns", !.board = b])

\* Statuses are mapped to the columns there are, or to one to be created.
ReadColumns(c) == \E l \in LanesOf(req[c].board) \cup {0} :
    /\ At(c, "columns")
    /\ req' = [req EXCEPT ![c].pc = "import", ![c].lane = l, ![c].n = NextPos(req[c].board)]
    /\ UNCHANGED <<kind, rows, started, raced, late, unfiled>>

\* A column, the task in it, or nothing at all: the transaction may fail on a
\* column or board that is gone, or on a tag somebody has just created.
CommitImport(c) ==
    LET b == req[c].board
        l == req[c].lane IN
    /\ At(c, "import") /\ (l # 0 => ~Dropping(l))
    /\ \/ /\ l = 0 /\ board[b] = "live"
          /\ \E k \in FreshLanes, i \in NewItems :
               /\ lane' = [lane EXCEPT ![k] = [st |-> "live", board |-> b, pos |-> req[c].n]]
               /\ item' = [item EXCEPT ![i] = [st |-> "live", lane |-> k]]
          /\ req' = Disturbed(c, b)
       \/ /\ l # 0 /\ lane[l].st = "live"
          /\ \E i \in NewItems : item' = [item EXCEPT ![i] = [st |-> "live", lane |-> l]]
          /\ Done(c)
          /\ UNCHANGED lane
       \/ Done(c) /\ UNCHANGED <<lane, item>>
    /\ UNCHANGED <<kind, board, started, raced, late, unfiled>>

\* The process dies, or the transaction is cancelled.
Abort(c) ==
    /\ "abort" \in Ops /\ ~At(c, "idle")
    /\ Done(c)
    /\ UNCHANGED <<kind, rows, started, raced, late, unfiled>>

-----------------------------------------------------------------------------
\* The workspace, and with it a board and a funnel, has been created; older
\* workspaces have no funnel yet.
Init == \E s \in Starts :
    /\ kind = s.kind
    /\ board = [b \in Boards |-> IF b \in s.boards THEN "live" ELSE "new"]
    /\ lane = [l \in Lanes |-> IF s.on[l] = 0 THEN [st |-> "new", board |-> 1, pos |-> 0] ELSE
                 [st |-> "live", board |-> s.on[l],
                  pos |-> Cardinality({k \in Lanes : k < l /\ s.on[k] = s.on[l]})]]
    /\ item = [i \in Items |-> [st |-> "new", lane |-> 1]]
    /\ req = [c \in Clients |-> Idle]
    /\ started = 0 /\ raced = FALSE /\ late = {} /\ unfiled = FALSE

DeleteLane(c)  == \/ StartDelete(c) \/ CountLanes(c) \/ CountTrash(c) \/ DropLane(c)
                  \/ ReadRemaining(c) \/ CommitDelete(c) \/ DeadlockVictim(c)
ArrangeLane(c) == \/ StartMove(c) \/ ReadLanes(c) \/ CommitMove(c)
                  \/ StartLane(c) \/ ReadLast(c) \/ InsertLane(c)
BoardOf(c)     == \/ CreateBoard(c) \/ ListFunnels(c) \/ MakeDefault(c)
                  \/ StartUnboard(c) \/ CountBoards(c) \/ DeleteBoard(c)
ItemOf(c)      == StartAdd(c) \/ AddItem(c) \/ StartItem(c) \/ ChangeItem(c)
Inflow(c)      == \/ Submit(c) \/ PickColumn(c)
                  \/ StartImport(c) \/ ReadColumns(c) \/ CommitImport(c)

Next == \E c \in Clients : \/ DeleteLane(c) \/ ArrangeLane(c) \/ BoardOf(c) \/ ItemOf(c)
                           \/ Inflow(c) \/ Abort(c)

Spec == Init /\ [][Next]_vars

-----------------------------------------------------------------------------
(* Properties *)

\* Every variable has its type; in particular no position is negative.
TypeOK ==
    /\ kind \in {"boards", "funnels"}
    /\ board \in [Boards -> {"new", "live", "gone"}]
    /\ lane \in [Lanes -> LaneRow]
    /\ item \in [Items -> ItemRow]
    /\ req \in [Clients -> Request]
    /\ started \in Nat /\ raced \in BOOLEAN /\ unfiled \in BOOLEAN
    /\ late \subseteq Items

\* Every board keeps a column and every funnel a stage, and a workspace keeps a
\* board: unless two requests overlapped so that one acted on a count which the
\* other had made too high.
LastOnesKept == ~raced => /\ \A b \in LiveBoards : LanesOf(b) # {}
                          /\ kind = "boards" => LiveBoards # {}

\* What is in the trash is not deleted along with its lane: only what was
\* trashed, or carried there in the trash, while the deletion was under way.
TrashKept == \A i \in Items : item[i].st = "lost" => i \in late

\* An answer to a form that makes tasks is filed on a board, unless deletions
\* overlapped and left a board without columns, or no board at all.
AnswersFiled == unfiled => raced

\* c commits an order of lanes that nobody has changed since c read it.
Undisturbed(c) == /\ req[c].pc \in {"renumber", "reorder"} /\ req[c].calm
                  /\ req'[c] = Idle /\ lane' # lane

\* The lanes of b are numbered 0, 1, 2, ... after the step: those but l in the
\* order they had, and l, if it was `moved`, at place n or else at the end.
Mended(b, l, n, moved) ==
    LET others == LanesOf(b) \ {l}
        kept   == IF moved THEN others \cup {l} ELSE others
        after  == [k \in Lanes |-> lane'[k].pos] IN
    /\ LanesOf(b)' = kept
    /\ {after[k] : k \in kept} = 0 .. Cardinality(kept) - 1
    /\ \A j, k \in others : lane[j].pos < lane[k].pos => after[j] < after[k]
    /\ moved => after[l] = IF n < Cardinality(others) THEN n ELSE Cardinality(others)

\* Every deletion and every move that is not overtaken leaves the lanes of its
\* board numbered 0, 1, 2, ... in the order they had, the moved one where it
\* was asked to be: what earlier races have broken is mended.
Mends == [][\A c \in Clients, b \in Boards, l \in Lanes, n \in 0 .. MaxLanes :
    Undisturbed(c) /\ b = req[c].board /\ l = req[c].lane /\ n = req[c].n =>
      Mended(b, l, n, At(c, "reorder"))]_vars
=============================================================================
