------------------------- MODULE BoardLayout_proofs -------------------------
(* The lanes of boards and funnels: types, what a deletion relies on from its *)
(* count to its commit, and that a request whose lanes nobody else changes    *)
(* leaves them numbered without gaps.                                         *)
EXTENDS BoardLayout, FiniteSetTheorems, SequenceTheorems, TLAPS

-----------------------------------------------------------------------------
(* The inductive invariant *)

\* Stages of a deletion: all, since its count, since its look at the trash.
DeletePC  == {"count", "trash", "drop", "remaining", "renumber"}
CountedPC == {"trash", "drop", "remaining", "renumber"}
LookedPC  == {"drop", "remaining", "renumber"}

\* Stages in which a request is about to write an order of lanes.
OrderedPC == {"renumber", "reorder"}

\* In the table v, a lane that has been made, on board b.
MadeOn(v, l, b) == l \in Lanes /\ v[l].st # "new" /\ v[l].board = b

\* What a request carries at each stage: k is the kind, v the table of lanes.
Formed(r, k, v) ==
    /\ r.pc \in DeletePC \cup {"order", "reorder"} => MadeOn(v, r.lane, r.board)
    /\ r.pc \in {"last", "insert", "boards", "unboard", "columns", "import"} => r.board \in Boards
    /\ r.pc \in {"put", "item"} => r.lane \in Lanes
    /\ r.pc = "item" => r.item \in Items /\ r.op \in {"carry", "trash", "restore", "purge"}
    /\ r.pc \in {"boards", "unboard", "pick"} => k = "boards"
    /\ r.pc \in CountedPC \cup {"unboard"} => r.n >= 2
    /\ r.pc \in OrderedPC => \A l \in ToSet(r.order) : MadeOn(v, l, r.board)

\* A lane whose trash a deletion has found empty holds late items only.
TrashSeen(r, items, since) ==
    r.pc \in LookedPC => \A i \in Items :
        items[i].st = "trashed" /\ items[i].lane = r.lane => i \in since

\* LanesOf a table of lanes.
LanesIn(v, b) == {l \in Lanes : v[l].st = "live" /\ v[l].board = b}

\* The lanes of its board in the table v are those r has read, and the order r
\* is about to write is the one they should get.
OrderFresh(r, v) ==
    LET L == LanesIn(v, r.board)
        others == L \ {r.lane} IN
    /\ \A i, j \in DOMAIN r.order : i # j => r.order[i] # r.order[j]
    /\ \A k \in L : r.seen[k] = v[k].pos
    /\ \A j, k \in others : v[j].pos < v[k].pos => Place(r, j) < Place(r, k)
    /\ r.pc = "renumber" => ToSet(r.order) = others
    /\ r.pc = "reorder" =>
         /\ ToSet(r.order) = L /\ r.lane \in L
         /\ Place(r, r.lane) = IF r.n < Cardinality(others) THEN r.n ELSE Cardinality(others)

CalmOK(r, v) == r.pc \in OrderedPC /\ r.calm => OrderFresh(r, v)

RequestOK(r) == Formed(r, kind, lane) /\ TrashSeen(r, item, late) /\ CalmOK(r, lane)

\* A lane is made on a board that has been made.
OnMadeBoards == \A l \in Lanes : lane[l].st # "new" => board[lane[l].board] # "new"

LayoutInv ==
    /\ TypeOK /\ OnMadeBoards /\ LastOnesKept /\ AnswersFiled /\ TrashKept
    /\ \A c \in Clients : RequestOK(req[c])

-----------------------------------------------------------------------------
(* What one step can do to the requests of others *)

LanesStay == \A l \in Lanes :
    lane[l].st # "new" => lane'[l].st # "new" /\ lane'[l].board = lane[l].board

\* Only late items come into the trash of a lane that is being deleted.
TrashStays == \A i \in Items : item'[i].st = "trashed" =>
    \/ i \in late'
    \/ item[i].st = "trashed" /\ item'[i].lane = item[i].lane /\ i \notin late
    \/ ~Deleting(item'[i].lane)

\* The lanes of b are the same, in the same places.
LanesSame(b) == /\ LanesIn(lane', b) = LanesIn(lane, b)
                /\ \A k \in LanesIn(lane, b) : lane'[k].pos = lane[k].pos

\* A request of somebody else is as before, and if it is no longer calm only that
\* has changed; if it is, so are its lanes.
Aside(d) ==
    \/ req'[d] = req[d] /\ (req[d].pc \in OrderedPC => LanesSame(req[d].board))
    \/ req'[d] = [req[d] EXCEPT !.calm = FALSE]

LEMMA OthersKeep ==
    ASSUME TypeOK, NEW d \in Clients, RequestOK(req[d]),
           kind' = kind, LanesStay, TrashStays, Aside(d)
    PROVE  RequestOK(req[d])'
<1>1. req[d] \in Request
  BY DEF TypeOK
<1>2. /\ req'[d].pc = req[d].pc /\ req'[d].op = req[d].op /\ req'[d].board = req[d].board
      /\ req'[d].lane = req[d].lane /\ req'[d].item = req[d].item /\ req'[d].n = req[d].n
      /\ req'[d].order = req[d].order
  BY <1>1 DEF Aside, Request
<1>3. Formed(req'[d], kind', lane')
  BY <1>2 DEF Formed, MadeOn, LanesStay, RequestOK
<1>4. TrashSeen(req'[d], item', late')
  <2>1. SUFFICES ASSUME req[d].pc \in LookedPC, NEW i \in Items, item'[i].st = "trashed",
                        item'[i].lane = req[d].lane
                 PROVE  i \in late'
    BY <1>2 DEF TrashSeen
  <2>2. Deleting(item'[i].lane)
    BY <2>1 DEF Deleting, LookedPC
  <2>3. QED
    BY <2>1, <2>2 DEF TrashSeen, TrashStays, RequestOK
<1>5. CalmOK(req'[d], lane')
  <2>1. CASE req'[d] = req[d] /\ (req[d].pc \in OrderedPC => LanesSame(req[d].board))
    <3>1. SUFFICES ASSUME req[d].pc \in OrderedPC, OrderFresh(req[d], lane)
                   PROVE  OrderFresh(req[d], lane')
      BY <2>1 DEF CalmOK, RequestOK
    <3>2. QED
      BY <2>1, <3>1 DEF OrderFresh, LanesSame
  <2>2. CASE req'[d] = [req[d] EXCEPT !.calm = FALSE]
    BY <1>1, <2>2 DEF CalmOK, Request
  <2>3. QED
    BY <2>1, <2>2 DEF Aside
<1>6. QED
  BY <1>3, <1>4, <1>5 DEF RequestOK

LEMMA IdleOK ==
    /\ Idle \in Request /\ RequestOK(Idle)
    /\ \A k, v, items, since :
         Formed(Idle, k, v) /\ TrashSeen(Idle, items, since) /\ CalmOK(Idle, v)
BY LayoutConstants
   DEF Idle, Request, Stages, Operations, RequestOK, Formed, TrashSeen, CalmOK,
       DeletePC, CountedPC, LookedPC, OrderedPC, Boards, Lanes

\* A step that reads: only the request of c changes.
LEMMA ReadKeepsInv ==
    ASSUME LayoutInv, NEW c \in Clients, NEW r \in Request, req' = [req EXCEPT ![c] = r],
           UNCHANGED <<kind, rows, raced, late, unfiled>>, started' \in Nat, RequestOK(r)
    PROVE  LayoutInv'
<1>1. board' = board /\ lane' = lane /\ item' = item
  BY DEF rows
<1>2. TypeOK' /\ OnMadeBoards' /\ LastOnesKept' /\ AnswersFiled' /\ TrashKept'
  BY <1>1 DEF LayoutInv, TypeOK, OnMadeBoards, LastOnesKept, AnswersFiled, TrashKept,
              LiveBoards, LanesOf
<1>3. ASSUME NEW d \in Clients PROVE RequestOK(req[d])'
  <2>1. CASE d = c
    BY <1>1, <2>1 DEF LayoutInv, TypeOK, RequestOK
  <2>2. CASE d # c
    <3>1. req'[d] = req[d]
      BY <2>2 DEF LayoutInv, TypeOK
    <3>2. QED
      BY <1>1, <3>1 DEF LayoutInv, RequestOK
  <2>3. QED
    BY <2>1, <2>2
<1>4. QED
  BY <1>2, <1>3 DEF LayoutInv

\* A step that writes and ends the request of c.
LEMMA WriteKeepsInv ==
    ASSUME LayoutInv, NEW c \in Clients, req'[c] = Idle, kind' = kind,
           \A d \in Clients \ {c} : Aside(d), LanesStay, TrashStays,
           TypeOK', OnMadeBoards', LastOnesKept', AnswersFiled', TrashKept'
    PROVE  LayoutInv'
<1>1. ASSUME NEW d \in Clients PROVE RequestOK(req[d])'
  <2>1. CASE d = c
    BY <2>1, IdleOK DEF RequestOK
  <2>2. CASE d # c
    BY <2>2, OthersKeep DEF LayoutInv
  <2>3. QED
    BY <2>1, <2>2
<1>2. QED
  BY <1>1 DEF LayoutInv

\* The request ends and nobody else notices.
LEMMA DoneStep ==
    ASSUME TypeOK, NEW c \in Clients, Done(c)
    PROVE  /\ req'[c] = Idle /\ req' \in [Clients -> Request]
           /\ \A d \in Clients \ {c} : req'[d] = req[d]
BY IdleOK DEF TypeOK, Done

\* The request ends, and those that have read the lanes of b are overtaken.
LEMMA DisturbStep ==
    ASSUME TypeOK, NEW c \in Clients, NEW b, req' = Disturbed(c, b)
    PROVE  /\ req'[c] = Idle /\ req' \in [Clients -> Request]
           /\ \A d \in Clients \ {c} :
                req'[d] = IF req[d].board = b THEN [req[d] EXCEPT !.calm = FALSE] ELSE req[d]
BY IdleOK DEF TypeOK, Disturbed, Request

LEMMA DoneKeepsInv ==
    ASSUME LayoutInv, NEW c \in Clients, Done(c),
           UNCHANGED <<kind, rows, started, raced, late, unfiled>>
    PROVE  LayoutInv'
BY IdleOK, ReadKeepsInv DEF Done, LayoutInv, TypeOK

LEMMA StartKeepsInv ==
    ASSUME LayoutInv, NEW c \in Clients, NEW op, NEW r \in Request, Start(c, op, r),
           \A q \in Request : q = [r EXCEPT !.op = op] => RequestOK(q)
    PROVE  LayoutInv'
<1>1. op \in Operations
  BY LayoutConstants DEF Start
<1>2. [r EXCEPT !.op = op] \in Request
  BY <1>1 DEF Request
<1>3. started' \in Nat
  BY DEF Start, LayoutInv, TypeOK
<1>4. QED
  BY <1>2, <1>3, ReadKeepsInv DEF Start

\* Numbers, ids and finite sets.
LEMMA LaneFacts ==
    ASSUME TypeOK
    PROVE  /\ Boards \subseteq Nat /\ Lanes \subseteq Nat /\ 0 \notin Boards /\ 0 \notin Lanes
           /\ MaxLanes \in Nat /\ 1 \in Boards /\ 1 \in Lanes
           /\ IsFiniteSet(Lanes) /\ IsFiniteSet(Boards)
           /\ \A b : /\ LanesOf(b) = LanesIn(lane, b) /\ LanesOf(b) \subseteq Lanes
                     /\ IsFiniteSet(LanesOf(b)) /\ Cardinality(LanesOf(b)) \in Nat
           /\ LiveBoards \subseteq Boards /\ IsFiniteSet(LiveBoards)
           /\ Cardinality(LiveBoards) \in Nat
<1>1. MaxLanes \in Nat \ {0} /\ MaxBoards \in Nat \ {0}
  BY LayoutConstants
<1>2. IsFiniteSet(Lanes) /\ IsFiniteSet(Boards)
  BY <1>1, FS_Interval DEF Lanes, Boards
<1>3. ASSUME NEW b
      PROVE  /\ LanesOf(b) = LanesIn(lane, b) /\ LanesOf(b) \subseteq Lanes
             /\ IsFiniteSet(LanesOf(b)) /\ Cardinality(LanesOf(b)) \in Nat
  <2>1. LanesOf(b) = LanesIn(lane, b) /\ LanesOf(b) \subseteq Lanes
    BY DEF LanesOf, LanesIn
  <2>2. QED
    BY <1>2, <2>1, FS_Subset, FS_CardinalityType
<1>4. LiveBoards \subseteq Boards
  BY DEF LiveBoards
<1>5. IsFiniteSet(LiveBoards) /\ Cardinality(LiveBoards) \in Nat
  BY <1>2, <1>4, FS_Subset, FS_CardinalityType
<1>6. QED
  BY <1>1, <1>2, <1>3, <1>4, <1>5 DEF Lanes, Boards

-----------------------------------------------------------------------------
(* deleteColumn, deleteStage *)

LEMMA StartDeleteInv ==
    ASSUME LayoutInv, NEW c \in Clients, StartDelete(c)
    PROVE  LayoutInv'
<1>1. PICK b \in Boards, l \in Lanes :
        /\ l \in LanesOf(b)
        /\ Start(c, "delete", [Idle EXCEPT !.pc = "count", !.board = b, !.lane = l])
  BY DEF StartDelete
<1> DEFINE r == [Idle EXCEPT !.pc = "count", !.board = b, !.lane = l]
<1>2. r \in Request /\ r.pc = "count" /\ r.board = b /\ r.lane = l
  BY IdleOK DEF Request, Stages, Idle
<1>3. ASSUME NEW q \in Request, q = [r EXCEPT !.op = "delete"] PROVE RequestOK(q)
  <2>1. q.pc = "count" /\ q.board = b /\ q.lane = l
    BY <1>2, <1>3 DEF Request
  <2>2. MadeOn(lane, l, b)
    BY <1>1 DEF MadeOn, LanesOf
  <2>3. QED
    BY <2>1, <2>2 DEF RequestOK, Formed, TrashSeen, CalmOK, DeletePC, CountedPC, LookedPC, OrderedPC
<1> HIDE DEF r
<1>4. QED
  BY <1>1, <1>2, <1>3, StartKeepsInv DEF r

LEMMA CountLanesInv ==
    ASSUME LayoutInv, NEW c \in Clients, CountLanes(c)
    PROVE  LayoutInv'
<1> DEFINE n == Cardinality(LanesOf(req[c].board))
           r == [req[c] EXCEPT !.pc = "trash", !.n = n]
<1>1. TypeOK /\ req[c] \in Request /\ RequestOK(req[c]) /\ req[c].pc = "count"
  BY DEF LayoutInv, TypeOK, CountLanes, At
<1>2. n \in Nat
  BY <1>1, LaneFacts
<1>3. CASE LastOne(n)
  BY <1>3, DoneKeepsInv DEF CountLanes
<1>4. CASE ~LastOne(n)
  <2>1. req' = [req EXCEPT ![c] = r]
    BY <1>1, <1>4 DEF CountLanes, TypeOK
  <2>2. /\ r \in Request /\ r.pc = "trash" /\ r.n = n /\ r.lane = req[c].lane
        /\ r.board = req[c].board
    BY <1>1, <1>2 DEF Request, Stages
  <2>3. n >= 2
    BY <1>2, <1>4 DEF LastOne
  <2> HIDE DEF r, n
  <2>4. RequestOK(r)
    BY <1>1, <2>2, <2>3 DEF RequestOK, Formed, TrashSeen, CalmOK, DeletePC, CountedPC, LookedPC, OrderedPC
  <2>5. QED
    BY <1>1, <2>1, <2>2, <2>4, ReadKeepsInv DEF CountLanes, TypeOK
<1>5. QED
  BY <1>3, <1>4

LEMMA CountTrashInv ==
    ASSUME LayoutInv, NEW c \in Clients, CountTrash(c)
    PROVE  LayoutInv'
<1> DEFINE r == [req[c] EXCEPT !.pc = "drop"]
<1>1. TypeOK /\ req[c] \in Request /\ RequestOK(req[c]) /\ req[c].pc = "trash"
  BY DEF LayoutInv, TypeOK, CountTrash, At
<1>2. CASE TrashIn(req[c].lane) # {}
  BY <1>2, DoneKeepsInv DEF CountTrash
<1>3. CASE TrashIn(req[c].lane) = {}
  <2>1. req' = [req EXCEPT ![c] = r]
    BY <1>1, <1>3 DEF CountTrash, TypeOK, Go
  <2>2. /\ r \in Request /\ r.pc = "drop" /\ r.n = req[c].n /\ r.lane = req[c].lane
        /\ r.board = req[c].board
    BY <1>1 DEF Request, Stages
  <2> HIDE DEF r
  <2>3. TrashSeen(r, item, late)
    BY <1>3, <2>2 DEF TrashSeen, TrashIn
  <2>4. RequestOK(r)
    BY <1>1, <2>2, <2>3 DEF RequestOK, Formed, CalmOK, DeletePC, CountedPC, OrderedPC
  <2>5. QED
    BY <1>1, <2>1, <2>2, <2>4, ReadKeepsInv DEF CountTrash, TypeOK
<1>4. QED
  BY <1>2, <1>3

LEMMA DropLaneInv ==
    ASSUME LayoutInv, NEW c \in Clients, DropLane(c)
    PROVE  LayoutInv'
<1> DEFINE r == [req[c] EXCEPT !.pc = "remaining"]
<1>1. TypeOK /\ req[c] \in Request /\ RequestOK(req[c]) /\ req[c].pc = "drop"
  BY DEF LayoutInv, TypeOK, DropLane, At
<1>2. CASE lane[req[c].lane].st # "live"
  BY <1>2, DoneKeepsInv DEF DropLane
<1>3. CASE lane[req[c].lane].st = "live"
  <2>1. req' = [req EXCEPT ![c] = r]
    BY <1>1, <1>3 DEF DropLane, TypeOK, Go
  <2>2. /\ r \in Request /\ r.pc = "remaining" /\ r.n = req[c].n /\ r.lane = req[c].lane
        /\ r.board = req[c].board
    BY <1>1 DEF Request, Stages
  <2> HIDE DEF r
  <2>3. RequestOK(r)
    BY <1>1, <2>2 DEF RequestOK, Formed, TrashSeen, CalmOK, DeletePC, CountedPC, LookedPC, OrderedPC
  <2>4. QED
    BY <1>1, <2>1, <2>2, <2>3, ReadKeepsInv DEF DropLane, TypeOK
<1>4. QED
  BY <1>2, <1>3

-----------------------------------------------------------------------------
(* Orders of lanes *)

\* A list without repetitions.
Distinct(q) == \A i, j \in DOMAIN q : i # j => q[i] # q[j]

LEMMA IndexOfItem ==
    ASSUME NEW S, NEW q \in Seq(S), NEW t \in ToSet(q)
    PROVE  Index(q, t) \in DOMAIN q /\ q[Index(q, t)] = t
BY DEF ToSet, Index

LEMMA IndexOfPlace ==
    ASSUME NEW S, NEW q \in Seq(S), Distinct(q), NEW i \in DOMAIN q
    PROVE  Index(q, q[i]) = i
<1>1. q[i] \in ToSet(q)
  BY DEF ToSet
<1>2. Index(q, q[i]) \in DOMAIN q /\ q[Index(q, q[i])] = q[i]
  BY <1>1, IndexOfItem
<1>3. QED
  BY <1>2 DEF Distinct

\* What `orderBy: position` returns lists the lanes of S, each once, by position.
LEMMA OrderedLists ==
    ASSUME TypeOK, NEW S \in SUBSET Lanes, NEW q \in Ordered(S)
    PROVE  /\ q \in Seq(Lanes) /\ ToSet(q) = S /\ Distinct(q) /\ Len(q) = Cardinality(S)
           /\ \A j, k \in S : lane[j].pos < lane[k].pos => Index(q, j) < Index(q, k)
<1> DEFINE n == Cardinality(S)
<1>1. IsFiniteSet(S) /\ n \in Nat
  BY LaneFacts, FS_Subset, FS_CardinalityType
<1>2. /\ q \in [1 .. n -> S] /\ \A i, j \in 1 .. n : i # j => q[i] # q[j]
      /\ \A i, j \in DOMAIN q : i < j => lane[q[i]].pos <= lane[q[j]].pos
  BY DEF Ordered, SetToSeqs
<1>3. q \in Seq(S) /\ q \in Seq(Lanes) /\ Len(q) = n /\ DOMAIN q = 1 .. n
  BY <1>1, <1>2
<1>4. Distinct(q)
  BY <1>2, <1>3 DEF Distinct
<1>5. q \in Injection(1 .. n, S)
  BY <1>2, <1>3 DEF Injection, IsInjective
<1>6. IsFiniteSet(1 .. n) /\ Cardinality(1 .. n) = n
  BY <1>1, FS_Interval
<1>7. q \in Surjection(1 .. n, S)
  BY <1>1, <1>5, <1>6, FS_Injection
<1>8. ToSet(q) = S
  BY <1>2, <1>3, <1>7 DEF Surjection, ToSet
<1>9. ASSUME NEW j \in S, NEW k \in S, lane[j].pos < lane[k].pos
      PROVE  Index(q, j) < Index(q, k)
  <2>1. /\ Index(q, j) \in 1 .. n /\ q[Index(q, j)] = j
        /\ Index(q, k) \in 1 .. n /\ q[Index(q, k)] = k
    BY <1>3, <1>8, IndexOfItem
  <2>2. lane[j].pos \in Nat /\ lane[k].pos \in Nat
    BY DEF TypeOK, LaneRow
  <2>3. CASE Index(q, k) < Index(q, j)
    BY <1>2, <1>3, <1>9, <2>1, <2>2, <2>3
  <2>4. CASE Index(q, k) = Index(q, j)
    BY <1>9, <2>1, <2>2, <2>4
  <2>5. QED
    BY <1>1, <2>1, <2>3, <2>4
<1>10. QED
  BY <1>3, <1>4, <1>8, <1>9

\* r is the request `old` that has just read its lanes, and now carries order q.
HasRead(r, old, next, q) ==
    /\ r.pc = next /\ r.order = q /\ r.calm = TRUE
    /\ \A k \in Lanes : r.seen[k] = lane[k].pos
    /\ r.n = old.n /\ r.lane = old.lane /\ r.board = old.board

LEMMA ReadOrderStep ==
    ASSUME TypeOK, NEW c \in Clients, NEW next \in OrderedPC, NEW q \in Seq(Lanes),
           ReadOrder(c, next, q)
    PROVE  \E r \in Request : req' = [req EXCEPT ![c] = r] /\ HasRead(r, req[c], next, q)
<1> DEFINE seen == [l \in Lanes |-> lane[l].pos]
           r == [req[c] EXCEPT !.pc = next, !.order = q, !.calm = TRUE, !.seen = seen]
<1>1. req[c] \in Request /\ seen \in [Lanes -> Nat] /\ \A k \in Lanes : seen[k] = lane[k].pos
  BY DEF TypeOK, LaneRow
<1>2. req' = [req EXCEPT ![c] = r]
  BY DEF ReadOrder, TypeOK
<1> HIDE DEF seen
<1>3. /\ r \in Request /\ r.pc = next /\ r.order = q /\ r.calm = TRUE /\ r.seen = seen
      /\ r.n = req[c].n /\ r.lane = req[c].lane /\ r.board = req[c].board
  BY <1>1 DEF Request, Stages, OrderedPC
<1>4. HasRead(r, req[c], next, q)
  BY <1>1, <1>3 DEF HasRead
<1> HIDE DEF r
<1>5. QED
  BY <1>2, <1>3, <1>4

LEMMA ReadRemainingInv ==
    ASSUME LayoutInv, NEW c \in Clients, ReadRemaining(c)
    PROVE  LayoutInv'
<1> DEFINE L == LanesOf(req[c].board)
           l == req[c].lane
<1>1. TypeOK /\ req[c] \in Request /\ RequestOK(req[c]) /\ req[c].pc = "remaining"
  BY DEF LayoutInv, TypeOK, ReadRemaining, At
<1>2. PICK q \in Ordered(L \ {l}) : ReadOrder(c, "renumber", q)
  BY DEF ReadRemaining
<1>3. L \in SUBSET Lanes /\ L = LanesIn(lane, req[c].board)
  BY <1>1, LaneFacts
<1>4. /\ q \in Seq(Lanes) /\ ToSet(q) = L \ {l} /\ Distinct(q)
      /\ \A j, k \in L \ {l} : lane[j].pos < lane[k].pos => Index(q, j) < Index(q, k)
  BY <1>1, <1>3, OrderedLists
<1>5. PICK r \in Request : req' = [req EXCEPT ![c] = r] /\ HasRead(r, req[c], "renumber", q)
  BY <1>1, <1>2, <1>4, ReadOrderStep DEF OrderedPC
<1>6. Formed(r, kind, lane) /\ TrashSeen(r, item, late)
  <2>1. \A k \in L : MadeOn(lane, k, req[c].board)
    BY DEF MadeOn, LanesOf
  <2>2. QED
    BY <1>1, <1>4, <1>5, <2>1
       DEF HasRead, RequestOK, Formed, TrashSeen, DeletePC, CountedPC, LookedPC, OrderedPC
<1>7. CalmOK(r, lane)
  <2>1. LanesIn(lane, r.board) = L /\ r.lane = l
    BY <1>3, <1>5 DEF HasRead
  <2>2. ASSUME NEW j \in L \ {l}, NEW k \in L \ {l}, lane[j].pos < lane[k].pos
        PROVE  Place(r, j) < Place(r, k)
    <3>1. Index(q, j) < Index(q, k) /\ Index(q, j) \in DOMAIN q /\ Index(q, k) \in DOMAIN q
      BY <1>4, <2>2, IndexOfItem
    <3>2. QED
      BY <1>4, <1>5, <3>1 DEF HasRead, Place
  <2> HIDE DEF L, l
  <2>3. OrderFresh(r, lane)
    BY <1>3, <1>4, <1>5, <2>1, <2>2 DEF HasRead, OrderFresh, Distinct
  <2>4. QED
    BY <2>3 DEF CalmOK
<1>8. QED
  BY <1>1, <1>5, <1>6, <1>7, ReadKeepsInv DEF RequestOK, ReadRemaining, TypeOK

-----------------------------------------------------------------------------
(* Positions *)

\* A finite set has a member that p puts highest: take a smallest set without one,
\* leave one of its members out, and compare it with the highest of the others.
LEMMA HasHighest ==
    ASSUME NEW S, IsFiniteSet(S), S # {}, NEW p \in [S -> Int]
    PROVE  \E m \in S : \A t \in S : p[t] <= p[m]
<1> DEFINE Topped(X) == \E m \in X : \A t \in X : p[t] <= p[m]
           Bad == {X \in SUBSET S : X # {} /\ ~Topped(X)}
<1>1. SUFFICES ASSUME Bad # {} PROVE FALSE
  OBVIOUS
<1>2. FiniteSubsetsOf(S) = SUBSET S
  BY FS_FiniteSubsetsOfFinite
<1>3. IsWellFoundedOn(StrictSubsetOrdering(S), SUBSET S)
  BY <1>2, FS_StrictSubsetOrderingWellFounded
<1>4. PICK X \in Bad : \A Y \in Bad : <<Y, X>> \notin StrictSubsetOrdering(S)
  BY <1>1, <1>3, WFMin
<1>5. PICK x \in X : TRUE
  OBVIOUS
<1>6. X \ {x} \notin Bad
  <2>1. <<X \ {x}, X>> \in StrictSubsetOrdering(S)
    BY <1>5 DEF StrictSubsetOrdering
  <2>2. QED
    BY <1>4, <2>1
<1>7. CASE X \ {x} = {}
  <2>1. \A t \in X : t = x
    BY <1>7
  <2>2. p[x] \in Int
    OBVIOUS
  <2>3. Topped(X)
    BY <2>1, <2>2
  <2>4. QED
    BY <2>3
<1>8. CASE X \ {x} # {}
  <2>1. PICK m \in X \ {x} : \A t \in X \ {x} : p[t] <= p[m]
    BY <1>6, <1>8
  <2>2. p[x] \in Int /\ p[m] \in Int /\ \A t \in X : p[t] \in Int
    OBVIOUS
  <2>3. CASE p[x] <= p[m]
    BY <2>1, <2>3
  <2>4. CASE ~(p[x] <= p[m])
    <3>1. \A t \in X : p[t] <= p[x]
      BY <2>1, <2>2, <2>4
    <3>2. QED
      BY <3>1
  <2>5. QED
    BY <2>3, <2>4
<1>9. QED
  BY <1>7, <1>8

\* So has the position after the last lane a meaning, and the first lane.
LEMMA NextPosType ==
    ASSUME TypeOK, NEW b
    PROVE  NextPos(b) \in Nat
<1> DEFINE S == LanesOf(b)
           p == [l \in S |-> lane[l].pos]
           P == {lane[l].pos : l \in S}
<1>1. IsFiniteSet(S) /\ S \subseteq Lanes
  BY LaneFacts
<1>2. \A l \in S : lane[l].pos \in Nat
  BY <1>1 DEF TypeOK, LaneRow
<1>3. CASE S = {}
  BY <1>3 DEF NextPos
<1>4. CASE S # {}
  <2> DEFINE top == CHOOSE x \in P : \A l \in S : lane[l].pos <= x
  <2>1. p \in [S -> Int]
    BY <1>2
  <2> HIDE DEF S
  <2>2. PICK m \in S : \A t \in S : p[t] <= p[m]
    BY <1>1, <1>4, <2>1, HasHighest
  <2>3. lane[m].pos \in P /\ \A t \in S : lane[t].pos <= lane[m].pos
    BY <2>2
  <2>4. top \in P
    BY <2>3
  <2>5. P \subseteq Nat
    BY <1>2
  <2>6. NextPos(b) = 1 + top
    BY <1>4 DEF NextPos, S
  <2> HIDE DEF top, P
  <2>7. QED
    BY <2>4, <2>5, <2>6
<1>5. QED
  BY <1>3, <1>4

LEMMA FirstLaneExists ==
    ASSUME TypeOK, NEW b, LanesOf(b) # {}
    PROVE  FirstLanes(b) # {}
<1> DEFINE S == LanesOf(b)
           p == [l \in S |-> 0 - lane[l].pos]
<1>1. IsFiniteSet(S) /\ S \subseteq Lanes
  BY LaneFacts
<1>2. \A l \in S : lane[l].pos \in Nat
  BY <1>1 DEF TypeOK, LaneRow
<1>3. p \in [S -> Int]
  BY <1>2
<1> HIDE DEF S
<1>4. PICK m \in S : \A t \in S : p[t] <= p[m]
  BY <1>1, <1>3, HasHighest DEF S
<1>5. \A t \in S : lane[m].pos <= lane[t].pos
  BY <1>2, <1>4
<1>6. QED
  BY <1>5 DEF S, FirstLanes

\* A list without repetitions has a place for each of its lanes.
LEMMA PlaceType ==
    ASSUME NEW r \in Request, NEW l \in ToSet(r.order)
    PROVE  Place(r, l) \in Nat
<1>1. r.order \in Seq(Lanes)
  BY DEF Request
<1>2. Index(r.order, l) \in DOMAIN r.order
  BY <1>1, IndexOfItem
<1>3. QED
  BY <1>1, <1>2 DEF Place

\* Writing an order moves lanes of the order, and only to their places in it.
LEMMA RenumberedLanes ==
    ASSUME TypeOK, NEW r \in Request, NEW all \in BOOLEAN
    PROVE  LET v == Renumbered(r, Written(r, all)) IN
           /\ v \in [Lanes -> LaneRow]
           /\ \A l \in Lanes : v[l].st = lane[l].st /\ v[l].board = lane[l].board
           /\ \A l \in Lanes : l \notin ToSet(r.order) => v[l] = lane[l]
           /\ \A l \in ToSet(r.order) :
                lane[l].st = "live" /\ r.seen[l] = lane[l].pos => v[l].pos = Place(r, l)
<1> DEFINE ws == Written(r, all)
           v == Renumbered(r, ws)
<1>1. ws \subseteq ToSet(r.order) /\ ToSet(r.order) \subseteq Lanes
  BY DEF Written, Request, ToSet
<1>2. \A l \in ws : Place(r, l) \in Nat
  BY <1>1, PlaceType
<1>3. \A l \in ToSet(r.order) : l \notin ws => r.seen[l] = Place(r, l)
  BY DEF Written
<1>4. lane \in [Lanes -> LaneRow]
  BY DEF TypeOK
<1> HIDE DEF ws
<1>5. \A l \in Lanes : v[l] = IF l \in ws /\ lane[l].st = "live"
                              THEN [lane[l] EXCEPT !.pos = Place(r, l)] ELSE lane[l]
  BY DEF Renumbered
<1>6. ASSUME NEW l \in Lanes
      PROVE  /\ v[l] \in LaneRow /\ v[l].st = lane[l].st /\ v[l].board = lane[l].board
             /\ (l \in ws /\ lane[l].st = "live") => v[l].pos = Place(r, l)
  BY <1>2, <1>4, <1>5 DEF LaneRow
<1>7. v \in [Lanes -> LaneRow]
  BY <1>6 DEF Renumbered
<1>8. QED
  BY <1>1, <1>3, <1>5, <1>6, <1>7 DEF ws

\* Of two lanes one is left when the other goes.
LEMMA OneIsLeft ==
    ASSUME NEW L, IsFiniteSet(L), NEW l, NEW n \in Nat, n >= 2, ~(Cardinality(L) < n)
    PROVE  L \ {l} # {}
<1>1. SUFFICES ASSUME L \subseteq {l} PROVE FALSE
  OBVIOUS
<1>2. IsFiniteSet({l}) /\ Cardinality({l}) = 1
  BY FS_Singleton
<1>3. Cardinality(L) \in Nat /\ Cardinality(L) <= 1
  BY <1>1, <1>2, FS_Subset, FS_CardinalityType
<1>4. QED
  BY <1>3

LEMMA CommitDeleteInv ==
    ASSUME LayoutInv, NEW c \in Clients, CommitDelete(c)
    PROVE  LayoutInv'
<1> DEFINE l == req[c].lane
           b == req[c].board
           all == (kind = "funnels")
           v == Renumbered(req[c], Written(req[c], all))
<1>1. /\ TypeOK /\ req[c] \in Request /\ RequestOK(req[c]) /\ req[c].pc = "renumber"
      /\ kind' = kind /\ board' = board /\ started' = started /\ late' = late /\ unfiled' = unfiled
  BY DEF LayoutInv, TypeOK, CommitDelete, At
<1>2. CASE Done(c) /\ UNCHANGED <<lane, item, raced>>
  BY <1>1, <1>2, DoneKeepsInv DEF rows
<1>3. CASE /\ lane' = [v EXCEPT ![l].st = "gone"]
           /\ item' = [i \in Items |-> IF item[i].lane # l THEN item[i] ELSE
                 [item[i] EXCEPT !.st = CASE @ = "live" -> "swept" [] @ = "trashed" -> "lost"
                                          [] OTHER -> @]]
           /\ raced' = (raced \/ Cardinality(LanesOf(b)) < req[c].n)
           /\ req' = Disturbed(c, b)
  <2>1. /\ v \in [Lanes -> LaneRow]
        /\ \A k \in Lanes : v[k].st = lane[k].st /\ v[k].board = lane[k].board
        /\ \A k \in Lanes : k \notin ToSet(req[c].order) => v[k] = lane[k]
    BY <1>1, RenumberedLanes
  <2>2. /\ MadeOn(lane, l, b) /\ req[c].n >= 2 /\ req[c].n \in Nat
        /\ \A k \in ToSet(req[c].order) : MadeOn(lane, k, b)
    BY <1>1 DEF RequestOK, Formed, DeletePC, CountedPC, OrderedPC, Request
  <2>3. \A i \in Items : item[i].st = "trashed" /\ item[i].lane = l => i \in late
    BY <1>1 DEF RequestOK, TrashSeen, LookedPC
  <2>4. /\ req'[c] = Idle /\ req' \in [Clients -> Request]
        /\ \A d \in Clients \ {c} :
             req'[d] = IF req[d].board = b THEN [req[d] EXCEPT !.calm = FALSE] ELSE req[d]
    BY <1>1, <1>3, DisturbStep
  <2> HIDE DEF v, l, b, all
  <2>5. /\ lane' \in [Lanes -> LaneRow]
        /\ \A k \in Lanes : /\ lane'[k].board = lane[k].board
                            /\ lane'[k].st = IF k = l THEN "gone" ELSE lane[k].st
                            /\ lane[k].board # b => lane'[k] = lane[k]
    <3>1. l \in Lanes /\ lane[l].board = b
      BY <2>2 DEF MadeOn
    <3>2. \A k \in Lanes : lane'[k] = IF k = l THEN [v[l] EXCEPT !.st = "gone"] ELSE v[k]
      BY <1>3, <2>1
    <3>3. [v[l] EXCEPT !.st = "gone"] \in LaneRow
      BY <2>1, <3>1 DEF LaneRow
    <3>4. lane' \in [Lanes -> LaneRow]
      BY <1>3, <2>1, <3>1, <3>3
    <3>5. /\ [v[l] EXCEPT !.st = "gone"].board = v[l].board
          /\ [v[l] EXCEPT !.st = "gone"].st = "gone"
      BY <2>1, <3>1 DEF LaneRow
    <3>6. \A k \in Lanes : lane[k].board # b => k # l /\ k \notin ToSet(req[c].order)
      BY <2>2, <3>1 DEF MadeOn
    <3>7. QED
      BY <2>1, <3>1, <3>2, <3>4, <3>5, <3>6
  <2>6. \A e : LanesIn(lane', e) = IF e = b THEN LanesIn(lane, b) \ {l} ELSE LanesIn(lane, e)
    <3>1. lane[l].board = b
      BY <2>2 DEF MadeOn
    <3>2. QED
      BY <2>5, <3>1 DEF LanesIn
  <2>7. \A i \in Items :
          /\ item'[i] \in ItemRow
          /\ item'[i].lane = item[i].lane
          /\ item'[i].st = "trashed" => item[i].st = "trashed" /\ item[i].lane # l
          /\ item'[i].st = "lost" =>
               item[i].st = "lost" \/ (item[i].st = "trashed" /\ item[i].lane = l)
    <3>1. SUFFICES ASSUME NEW i \in Items
                   PROVE  /\ item'[i] \in ItemRow
                          /\ item'[i].lane = item[i].lane
                          /\ item'[i].st = "trashed" => item[i].st = "trashed" /\ item[i].lane # l
                          /\ item'[i].st = "lost" =>
                               item[i].st = "lost" \/ (item[i].st = "trashed" /\ item[i].lane = l)
      OBVIOUS
    <3>2. item[i] \in ItemRow
      BY <1>1 DEF TypeOK
    <3>3. CASE item[i].lane # l
      BY <1>3, <3>2, <3>3
    <3>4. CASE item[i].lane = l
      <4> DEFINE st == CASE item[i].st = "live" -> "swept" [] item[i].st = "trashed" -> "lost"
                         [] OTHER -> item[i].st
      <4>1. item'[i] = [item[i] EXCEPT !.st = st]
        BY <1>3, <3>4
      <4>2. /\ st \in {"new", "live", "trashed", "purged", "swept", "lost"} /\ st # "trashed"
            /\ st = "lost" => item[i].st \in {"lost", "trashed"}
        BY <3>2 DEF ItemRow
      <4> HIDE DEF st
      <4>3. item'[i] \in ItemRow /\ item'[i].lane = item[i].lane /\ item'[i].st = st
        BY <3>2, <4>1, <4>2 DEF ItemRow
      <4>4. QED
        BY <3>4, <4>2, <4>3
    <3>5. QED
      BY <3>3, <3>4
  <2>8. LanesStay /\ TrashStays
    BY <1>1, <2>2, <2>5, <2>7 DEF LanesStay, TrashStays
  <2>9. \A d \in Clients \ {c} : Aside(d)
    <3>1. SUFFICES ASSUME NEW d \in Clients \ {c}, req[d].board # b PROVE LanesSame(req[d].board)
      BY <2>4 DEF Aside
    <3>2. QED
      BY <2>5, <2>6, <3>1 DEF LanesSame, LanesIn
  <2>10. TypeOK'
    <3>1. raced' \in BOOLEAN
      BY <1>1, <1>3 DEF TypeOK
    <3>2. item' \in [Items -> ItemRow]
      BY <1>3, <2>7
    <3>3. QED
      BY <1>1, <2>4, <2>5, <3>1, <3>2 DEF TypeOK
  <2>11. OnMadeBoards'
    BY <1>1, <2>2, <2>5 DEF LayoutInv, OnMadeBoards, MadeOn
  <2>12. LastOnesKept'
    <3>1. SUFFICES ASSUME ~raced'
                   PROVE  (\A e \in LiveBoards : LanesIn(lane', e) # {}) /\ (kind = "boards" => LiveBoards # {})
      <4>1. LiveBoards' = LiveBoards /\ \A e : LanesOf(e)' = LanesIn(lane', e)
        BY <1>1 DEF LiveBoards, LanesOf, LanesIn
      <4>2. QED
        BY <1>1, <4>1 DEF LastOnesKept
    <3>2. ~raced /\ ~(Cardinality(LanesOf(b)) < req[c].n)
      BY <1>3, <3>1
    <3>3. LastOnesKept /\ IsFiniteSet(LanesOf(b)) /\ \A e : LanesOf(e) = LanesIn(lane, e)
      BY <1>1, LaneFacts DEF LayoutInv
    <3>4. LanesOf(b) \ {l} # {}
      BY <2>2, <3>2, <3>3, OneIsLeft
    <3>5. QED
      BY <2>6, <3>2, <3>3, <3>4 DEF LastOnesKept
  <2>13. AnswersFiled' /\ TrashKept'
    BY <1>1, <1>3, <2>3, <2>7 DEF LayoutInv, AnswersFiled, TrashKept
  <2>14. QED
    BY <1>1, <2>4, <2>8, <2>9, <2>10, <2>11, <2>12, <2>13, WriteKeepsInv
<1>4. QED
  BY <1>2, <1>3 DEF CommitDelete

LEMMA DeadlockVictimInv ==
    ASSUME LayoutInv, NEW c \in Clients, DeadlockVictim(c)
    PROVE  LayoutInv'
BY DoneKeepsInv DEF DeadlockVictim

\* The list without its i-th item, and with one more at p.
LEMMA RemovedAt ==
    ASSUME NEW S, NEW q \in Seq(S), NEW i \in DOMAIN q
    PROVE  /\ RemoveAt(q, i) \in Seq(S) /\ Len(RemoveAt(q, i)) = Len(q) - 1
           /\ \A k \in 1 .. Len(q) - 1 : RemoveAt(q, i)[k] = q[IF k < i THEN k ELSE k + 1]
<1> DEFINE m == Len(q)
           a == SubSeq(q, 1, i - 1)
           b == SubSeq(q, i + 1, m)
<1>1. m \in Nat /\ i \in 1 .. m /\ \A k \in 1 .. m : q[k] \in S
  OBVIOUS
<1>2. a \in Seq(S) /\ Len(a) = i - 1 /\ \A k \in 1 .. i - 1 : a[k] = q[k]
  <2>1. \A k \in 1 .. i - 1 : q[k] \in S
    BY <1>1
  <2>2. 1 \in Int /\ i - 1 \in Int /\ i - 1 - 1 + 1 = i - 1
    BY <1>1
  <2> HIDE DEF m
  <2>3. /\ a \in Seq(S) /\ Len(a) = IF 1 <= i - 1 THEN (i - 1) - 1 + 1 ELSE 0
        /\ \A k \in 1 .. (i - 1) - 1 + 1 : a[k] = q[1 + k - 1]
    BY <2>1, <2>2, SubSeqProperties
  <2>4. QED
    BY <1>1, <2>3
<1>3. b \in Seq(S) /\ Len(b) = m - i /\ \A k \in 1 .. m - i : b[k] = q[i + k]
  <2>1. \A k \in i + 1 .. m : q[k] \in S
    BY <1>1
  <2>2. i + 1 \in Int /\ m \in Int
    BY <1>1
  <2> HIDE DEF m
  <2>3. /\ b \in Seq(S) /\ Len(b) = IF i + 1 <= m THEN m - (i + 1) + 1 ELSE 0
        /\ \A k \in 1 .. m - (i + 1) + 1 : b[k] = q[(i + 1) + k - 1]
    BY <2>1, <2>2, SubSeqProperties
  <2>4. m - (i + 1) + 1 = m - i /\ \A k \in 1 .. m - i : (i + 1) + k - 1 = i + k
    BY <1>1
  <2>5. QED
    BY <1>1, <2>3, <2>4
<1>4. RemoveAt(q, i) = a \o b
  BY DEF RemoveAt
<1> HIDE DEF a, b, m
<1>5. /\ a \o b \in Seq(S) /\ Len(a \o b) = Len(a) + Len(b)
      /\ \A k \in 1 .. Len(a) + Len(b) : (a \o b)[k] = IF k <= Len(a) THEN a[k] ELSE b[k - Len(a)]
  BY <1>2, <1>3, ConcatProperties
<1>6. Len(a) + Len(b) = m - 1
  BY <1>1, <1>2, <1>3
<1>7. ASSUME NEW k \in 1 .. m - 1 PROVE (a \o b)[k] = q[IF k < i THEN k ELSE k + 1]
  <2>1. (a \o b)[k] = IF k <= i - 1 THEN a[k] ELSE b[k - (i - 1)]
    BY <1>1, <1>2, <1>5, <1>6
  <2>2. CASE k < i
    BY <1>1, <1>2, <2>1, <2>2
  <2>3. CASE ~(k < i)
    <3>1. k - (i - 1) \in 1 .. m - i /\ i + (k - (i - 1)) = k + 1 /\ ~(k <= i - 1)
      BY <1>1, <2>3
    <3>2. QED
      BY <1>3, <2>1, <2>3, <3>1
  <2>4. QED
    BY <2>2, <2>3
<1>8. QED
  BY <1>4, <1>5, <1>6, <1>7 DEF m

LEMMA InsertedAt ==
    ASSUME NEW S, NEW q \in Seq(S), NEW p \in 1 .. Len(q) + 1, NEW t \in S
    PROVE  /\ InsertAt(q, p, t) \in Seq(S) /\ Len(InsertAt(q, p, t)) = Len(q) + 1
           /\ \A k \in 1 .. Len(q) + 1 :
                InsertAt(q, p, t)[k] = IF k < p THEN q[k] ELSE IF k = p THEN t ELSE q[k - 1]
<1> DEFINE m == Len(q)
           a == SubSeq(q, 1, p - 1)
           b == SubSeq(q, p, m)
           h == a \o <<t>>
<1>1. m \in Nat /\ p \in 1 .. m + 1 /\ \A k \in 1 .. m : q[k] \in S
  OBVIOUS
<1>2. a \in Seq(S) /\ Len(a) = p - 1 /\ \A k \in 1 .. p - 1 : a[k] = q[k]
  <2>1. \A k \in 1 .. p - 1 : q[k] \in S
    BY <1>1
  <2>2. 1 \in Int /\ p - 1 \in Int
    BY <1>1
  <2> HIDE DEF m
  <2>3. /\ a \in Seq(S) /\ Len(a) = IF 1 <= p - 1 THEN (p - 1) - 1 + 1 ELSE 0
        /\ \A k \in 1 .. (p - 1) - 1 + 1 : a[k] = q[1 + k - 1]
    BY <2>1, <2>2, SubSeqProperties
  <2>4. QED
    BY <1>1, <2>3
<1>3. b \in Seq(S) /\ Len(b) = m - p + 1 /\ \A k \in 1 .. m - p + 1 : b[k] = q[p + k - 1]
  <2>1. \A k \in p .. m : q[k] \in S
    BY <1>1
  <2>2. p \in Int /\ m \in Int
    BY <1>1
  <2> HIDE DEF m
  <2>3. /\ b \in Seq(S) /\ Len(b) = IF p <= m THEN m - p + 1 ELSE 0
        /\ \A k \in 1 .. m - p + 1 : b[k] = q[p + k - 1]
    BY <2>1, <2>2, SubSeqProperties
  <2>4. QED
    BY <1>1, <2>3
<1>4. InsertAt(q, p, t) = h \o b
  BY DEF InsertAt
<1> HIDE DEF a, b, m
<1>5. /\ h \in Seq(S) /\ Len(h) = p
      /\ \A k \in 1 .. p : h[k] = IF k < p THEN q[k] ELSE t
  BY <1>1, <1>2
<1> HIDE DEF h
<1>6. /\ h \o b \in Seq(S) /\ Len(h \o b) = Len(h) + Len(b)
      /\ \A k \in 1 .. Len(h) + Len(b) : (h \o b)[k] = IF k <= Len(h) THEN h[k] ELSE b[k - Len(h)]
  BY <1>3, <1>5, ConcatProperties
<1>7. Len(h) + Len(b) = m + 1
  BY <1>1, <1>3, <1>5
<1>8. ASSUME NEW k \in 1 .. m + 1
      PROVE  (h \o b)[k] = IF k < p THEN q[k] ELSE IF k = p THEN t ELSE q[k - 1]
  <2>1. (h \o b)[k] = IF k <= p THEN h[k] ELSE b[k - p]
    BY <1>5, <1>6, <1>7
  <2>2. CASE k <= p
    BY <1>1, <1>5, <2>1, <2>2
  <2>3. CASE ~(k <= p)
    <3>1. k - p \in 1 .. m - p + 1 /\ p + (k - p) - 1 = k - 1
      BY <1>1, <2>3
    <3>2. b[k - p] = q[k - 1]
      BY <1>3, <3>1
    <3>3. QED
      BY <1>1, <2>1, <2>3, <3>2
  <2>4. QED
    BY <2>2, <2>3
<1>9. QED
  BY <1>4, <1>6, <1>7, <1>8 DEF m

\* A move puts l where it was asked to be, or at the end, and keeps the order of
\* the others.
LEMMA SplicedLists ==
    ASSUME NEW S, NEW q \in Seq(S), Distinct(q), NEW l \in ToSet(q), NEW n \in Nat
    PROVE  LET s == Spliced(q, l, n) IN
           /\ s \in Seq(S) /\ Distinct(s) /\ ToSet(s) = ToSet(q)
           /\ Index(s, l) = IF n < Len(q) - 1 THEN n + 1 ELSE Len(q)
           /\ \A j, k \in ToSet(q) \ {l} :
                Index(q, j) < Index(q, k) => Index(s, j) < Index(s, k)
<1> DEFINE m == Len(q)
           i == Index(q, l)
           rest == RemoveAt(q, i)
           p == IF n > Len(rest) THEN Len(rest) + 1 ELSE n + 1
           s == Spliced(q, l, n)
           at(k) == IF k < i THEN (IF k < p THEN k ELSE k + 1)
                             ELSE (IF k - 1 < p THEN k - 1 ELSE k)
<1>1. m \in Nat /\ DOMAIN q = 1 .. m /\ i \in 1 .. m /\ q[i] = l /\ l \in S
  BY IndexOfItem DEF ToSet
<1>2. /\ rest \in Seq(S) /\ Len(rest) = m - 1
      /\ \A k \in 1 .. m - 1 : rest[k] = q[IF k < i THEN k ELSE k + 1]
  BY <1>1, RemovedAt
<1>3. p = IF n < m - 1 THEN n + 1 ELSE m
  BY <1>1, <1>2
<1>4. s = InsertAt(rest, p, l) /\ p \in 1 .. m
  BY <1>1, <1>3 DEF Spliced
<1> HIDE DEF i, p, rest, s, m
<1>5. /\ s \in Seq(S) /\ Len(s) = m
      /\ \A k \in 1 .. m : s[k] = IF k < p THEN rest[k] ELSE IF k = p THEN l ELSE rest[k - 1]
  <2> DEFINE z == Len(rest) + 1
  <2>1. p \in 1 .. z /\ z = m /\ rest \in Seq(S) /\ l \in S
    BY <1>1, <1>2, <1>4
  <2>2. /\ InsertAt(rest, p, l) \in Seq(S) /\ Len(InsertAt(rest, p, l)) = z
        /\ \A k \in 1 .. z : InsertAt(rest, p, l)[k] =
             IF k < p THEN rest[k] ELSE IF k = p THEN l ELSE rest[k - 1]
    BY <2>1, InsertedAt
  <2> HIDE DEF z
  <2>3. QED
    BY <1>4, <2>1, <2>2
<1>6. ASSUME NEW k \in 1 .. m, k # i
      PROVE  at(k) \in 1 .. m /\ at(k) # p /\ s[at(k)] = q[k]
  <2>1. i \in Int /\ p \in Int /\ k \in Int /\ 1 <= i /\ i <= m /\ 1 <= p /\ p <= m /\ 1 <= k
        /\ k <= m /\ m \in Int
    BY <1>1, <1>4
  <2>2. CASE k < i
    <3>1. k \in 1 .. m - 1 /\ rest[k] = q[k]
      BY <1>2, <2>1, <2>2
    <3>2. CASE k < p
      <4>1. at(k) = k /\ s[k] = rest[k]
        BY <1>5, <2>2, <3>2
      <4>2. QED
        BY <2>1, <3>1, <3>2, <4>1
    <3>3. CASE ~(k < p)
      <4>1. k + 1 \in 1 .. m /\ ~(k + 1 < p) /\ k + 1 # p /\ (k + 1) - 1 = k
        BY <2>1, <2>2, <3>3
      <4>2. at(k) = k + 1
        BY <2>2, <3>3
      <4> HIDE DEF at
      <4>3. s[k + 1] = rest[k]
        BY <1>5, <4>1
      <4>4. QED
        BY <3>1, <4>1, <4>2, <4>3
    <3>4. QED
      BY <3>2, <3>3
  <2>3. CASE ~(k < i)
    <3>1. k - 1 \in 1 .. m - 1 /\ ~(k - 1 < i) /\ (k - 1) + 1 = k /\ k - 1 \in 1 .. m
      BY <1>6, <2>1, <2>3
    <3>2. rest[k - 1] = q[k]
      BY <1>2, <3>1
    <3>3. CASE k - 1 < p
      <4>1. at(k) = k - 1
        BY <2>3, <3>3
      <4> HIDE DEF at
      <4>2. s[k - 1] = rest[k - 1]
        BY <1>5, <3>1, <3>3
      <4>3. QED
        BY <2>1, <3>1, <3>2, <3>3, <4>1, <4>2
    <3>4. CASE ~(k - 1 < p)
      <4>1. at(k) = k
        BY <2>3, <3>4
      <4>2. ~(k < p) /\ k # p
        BY <2>1, <3>4
      <4> HIDE DEF at
      <4>3. s[k] = rest[k - 1]
        BY <1>5, <4>2
      <4>4. QED
        BY <3>2, <4>1, <4>2, <4>3
    <3>5. QED
      BY <3>3, <3>4
  <2>4. QED
    BY <2>2, <2>3
<1>7. \A x \in 1 .. m : x = p \/ \E k \in 1 .. m : k # i /\ x = at(k)
  <2> TAKE x \in 1 .. m
  <2> DEFINE k == IF x < p THEN (IF x < i THEN x ELSE x + 1)
                           ELSE (IF x - 1 < i THEN x - 1 ELSE x)
  <2>1. i \in 1 .. m /\ p \in 1 .. m /\ m \in Nat
    BY <1>1, <1>4
  <2>2. x # p => k \in 1 .. m /\ k # i /\ x = at(k)
    BY <2>1
  <2>3. QED
    BY <2>2
<1>8. \A j, k \in 1 .. m : j # i /\ k # i /\ j < k => at(j) < at(k)
  BY <1>1, <1>4
<1>9. s[p] = l
  BY <1>4, <1>5
<1>10. \A k \in 1 .. m : k # i => q[k] # l
  BY <1>1 DEF Distinct
<1> HIDE DEF at
<1>11. Distinct(s)
  <2> SUFFICES ASSUME NEW x \in 1 .. m, NEW y \in 1 .. m, x # y PROVE s[x] # s[y]
    BY <1>5 DEF Distinct
  <2>1. CASE x = p
    BY <1>6, <1>7, <1>9, <1>10, <2>1
  <2>2. CASE y = p
    BY <1>6, <1>7, <1>9, <1>10, <2>2
  <2>3. CASE x # p /\ y # p
    <3>1. PICK j \in 1 .. m, k \in 1 .. m : j # i /\ k # i /\ x = at(j) /\ y = at(k)
      BY <1>7, <2>3
    <3>2. j # k /\ s[x] = q[j] /\ s[y] = q[k]
      BY <1>6, <3>1
    <3>3. QED
      BY <1>1, <3>2 DEF Distinct
  <2>4. QED
    BY <2>1, <2>2, <2>3
<1>12. DOMAIN s = 1 .. m
  BY <1>5
<1>13. ToSet(s) = ToSet(q)
  <2>1. ASSUME NEW x \in 1 .. m PROVE s[x] \in ToSet(q)
    BY <1>1, <1>6, <1>7, <1>9 DEF ToSet
  <2>2. ASSUME NEW k \in 1 .. m PROVE q[k] \in ToSet(s)
    BY <1>1, <1>4, <1>6, <1>9, <1>12 DEF ToSet
  <2>3. QED
    BY <1>1, <1>12, <2>1, <2>2 DEF ToSet
<1>14. Index(s, l) = p
  BY <1>4, <1>5, <1>9, <1>11, <1>12, IndexOfPlace
<1>15. ASSUME NEW j \in ToSet(q) \ {l}
       PROVE  /\ Index(q, j) \in 1 .. m /\ Index(q, j) # i
              /\ Index(s, j) = at(Index(q, j))
  <2>1. Index(q, j) \in 1 .. m /\ q[Index(q, j)] = j
    BY <1>1, IndexOfItem
  <2>2. Index(q, j) # i
    BY <1>1, <2>1
  <2>3. at(Index(q, j)) \in DOMAIN s /\ s[at(Index(q, j))] = j
    BY <1>6, <1>12, <2>1, <2>2
  <2>4. QED
    BY <1>5, <1>11, <2>1, <2>2, <2>3, IndexOfPlace
<1>16. \A j, k \in ToSet(q) \ {l} : Index(q, j) < Index(q, k) => Index(s, j) < Index(s, k)
  BY <1>8, <1>15
<1>17. QED
  BY <1>3, <1>5, <1>11, <1>13, <1>14, <1>16 DEF s, m

-----------------------------------------------------------------------------
(* moveColumn, moveStage, createColumn, createStage *)

LEMMA StartMoveInv ==
    ASSUME LayoutInv, NEW c \in Clients, StartMove(c)
    PROVE  LayoutInv'
<1>1. PICK b \in Boards, l \in Lanes, n \in 0 .. MaxLanes - 1 :
        /\ l \in LanesOf(b)
        /\ Start(c, "move", [Idle EXCEPT !.pc = "order", !.board = b, !.lane = l, !.n = n])
  BY DEF StartMove
<1> DEFINE r == [Idle EXCEPT !.pc = "order", !.board = b, !.lane = l, !.n = n]
<1>2. n \in Nat
  BY LayoutConstants
<1>3. r \in Request /\ r.pc = "order" /\ r.board = b /\ r.lane = l
  BY <1>2, IdleOK DEF Request, Stages, Idle
<1>4. ASSUME NEW q \in Request, q = [r EXCEPT !.op = "move"] PROVE RequestOK(q)
  <2>1. q.pc = "order" /\ q.board = b /\ q.lane = l
    BY <1>3, <1>4 DEF Request
  <2>2. MadeOn(lane, l, b)
    BY <1>1 DEF MadeOn, LanesOf
  <2>3. QED
    BY <2>1, <2>2 DEF RequestOK, Formed, TrashSeen, CalmOK, DeletePC, CountedPC, LookedPC, OrderedPC
<1> HIDE DEF r
<1>5. QED
  BY <1>1, <1>3, <1>4, StartKeepsInv DEF r

LEMMA ReadLanesInv ==
    ASSUME LayoutInv, NEW c \in Clients, ReadLanes(c)
    PROVE  LayoutInv'
<1> DEFINE L == LanesOf(req[c].board)
           l == req[c].lane
           n == req[c].n
<1>1. TypeOK /\ req[c] \in Request /\ RequestOK(req[c]) /\ req[c].pc = "order" /\ n \in Nat
  BY DEF LayoutInv, TypeOK, ReadLanes, At, Request
<1>2. CASE l \notin L
  BY <1>2, DoneKeepsInv DEF ReadLanes
<1>3. CASE l \in L
  <2>1. PICK q \in Ordered(L) : ReadOrder(c, "reorder", Spliced(q, l, n))
    BY <1>3 DEF ReadLanes
  <2>2. L \in SUBSET Lanes /\ L = LanesIn(lane, req[c].board) /\ IsFiniteSet(L)
    BY <1>1, LaneFacts
  <2>3. /\ q \in Seq(Lanes) /\ ToSet(q) = L /\ Distinct(q) /\ Len(q) = Cardinality(L)
        /\ \A j, k \in L : lane[j].pos < lane[k].pos => Index(q, j) < Index(q, k)
    BY <1>1, <2>2, OrderedLists
  <2> HIDE DEF l, n
  <2>4. PICK s : s = Spliced(q, l, n)
    OBVIOUS
  <2>5. /\ s \in Seq(Lanes) /\ Distinct(s) /\ ToSet(s) = L
        /\ Index(s, l) = IF n < Len(q) - 1 THEN n + 1 ELSE Len(q)
        /\ \A j, k \in L \ {l} : Index(q, j) < Index(q, k) => Index(s, j) < Index(s, k)
    BY <1>1, <1>3, <2>3, <2>4, SplicedLists
  <2>6. ReadOrder(c, "reorder", s)
    BY <2>1, <2>4
  <2> HIDE DEF L
  <2>7. TypeOK /\ s \in Seq(Lanes)
    BY <1>1, <2>5
  <2>8. PICK r \in Request : req' = [req EXCEPT ![c] = r] /\ HasRead(r, req[c], "reorder", s)
    BY <2>6, <2>7, ReadOrderStep DEF OrderedPC
  <2>9. Formed(r, kind, lane) /\ TrashSeen(r, item, late)
    <3>1. \A k \in L : MadeOn(lane, k, req[c].board)
      BY DEF MadeOn, LanesOf, L
    <3>2. QED
      BY <1>1, <2>5, <2>8, <3>1
         DEF HasRead, l, n, RequestOK, Formed, TrashSeen, DeletePC, CountedPC, LookedPC, OrderedPC
  <2>10. CalmOK(r, lane)
    <3>1. LanesIn(lane, r.board) = L /\ r.lane = l
      BY <2>2, <2>8 DEF HasRead, l
    <3>2. ASSUME NEW j \in L \ {l}, NEW k \in L \ {l}, lane[j].pos < lane[k].pos
          PROVE  Place(r, j) < Place(r, k)
      <4>1. Index(s, j) < Index(s, k) /\ Index(s, j) \in DOMAIN s /\ Index(s, k) \in DOMAIN s
        BY <2>3, <2>5, <3>2, IndexOfItem
      <4>2. QED
        BY <2>5, <2>8, <4>1 DEF HasRead, Place
    <3>3. Cardinality(L \ {l}) = Cardinality(L) - 1
      BY <1>3, <2>2, FS_RemoveElement
    <3>4. Place(r, l) = IF n < Cardinality(L \ {l}) THEN n ELSE Cardinality(L \ {l})
      <4>1. Len(q) \in Nat /\ Len(q) - 1 = Cardinality(L \ {l})
        BY <2>3, <3>3
      <4>2. Place(r, l) = Index(s, l) - 1
        BY <2>8 DEF HasRead, Place
      <4>3. QED
        BY <1>1, <2>5, <4>1, <4>2
    <3>5. OrderFresh(r, lane)
      BY <1>3, <2>2, <2>5, <2>8, <3>1, <3>2, <3>4 DEF HasRead, OrderFresh, Distinct, n, l
    <3>6. QED
      BY <3>5 DEF CalmOK
  <2>11. QED
    BY <1>1, <2>8, <2>9, <2>10, ReadKeepsInv DEF RequestOK, ReadLanes, TypeOK
<1>4. QED
  BY <1>2, <1>3

LEMMA CommitMoveInv ==
    ASSUME LayoutInv, NEW c \in Clients, CommitMove(c)
    PROVE  LayoutInv'
<1> DEFINE b == req[c].board
           v == Renumbered(req[c], Written(req[c], FALSE))
<1>1. /\ TypeOK /\ req[c] \in Request /\ RequestOK(req[c]) /\ req[c].pc = "reorder"
      /\ kind' = kind /\ board' = board /\ item' = item /\ started' = started /\ late' = late
      /\ unfiled' = unfiled /\ raced' = raced /\ lane' = v /\ req' = Disturbed(c, b)
  BY DEF LayoutInv, TypeOK, CommitMove, At
<1>2. /\ v \in [Lanes -> LaneRow]
      /\ \A k \in Lanes : v[k].st = lane[k].st /\ v[k].board = lane[k].board
      /\ \A k \in Lanes : k \notin ToSet(req[c].order) => v[k] = lane[k]
  BY <1>1, RenumberedLanes
<1>3. \A k \in ToSet(req[c].order) : MadeOn(lane, k, b)
  BY <1>1 DEF RequestOK, Formed, OrderedPC
<1>4. /\ req'[c] = Idle /\ req' \in [Clients -> Request]
      /\ \A d \in Clients \ {c} :
           req'[d] = IF req[d].board = b THEN [req[d] EXCEPT !.calm = FALSE] ELSE req[d]
  BY <1>1, DisturbStep
<1> HIDE DEF v, b
<1>5. \A e : LanesIn(lane', e) = LanesIn(lane, e)
  BY <1>1, <1>2 DEF LanesIn
<1>6. \A d \in Clients \ {c} : Aside(d)
  <2>1. SUFFICES ASSUME NEW d \in Clients \ {c}, req[d].board # b PROVE LanesSame(req[d].board)
    BY <1>4 DEF Aside
  <2>2. QED
    BY <1>1, <1>2, <1>3, <1>5, <2>1 DEF LanesSame, LanesIn, MadeOn
<1>7. LanesStay /\ TrashStays
  BY <1>1, <1>2 DEF LanesStay, TrashStays
<1>8. TypeOK' /\ OnMadeBoards' /\ AnswersFiled' /\ TrashKept'
  BY <1>1, <1>2, <1>4 DEF LayoutInv, TypeOK, OnMadeBoards, AnswersFiled, TrashKept
<1>9. LastOnesKept'
  <2>1. LiveBoards' = LiveBoards /\ \A e : LanesOf(e)' = LanesOf(e)
    BY <1>1, <1>5 DEF LiveBoards, LanesOf, LanesIn
  <2>2. QED
    BY <1>1, <2>1 DEF LayoutInv, LastOnesKept
<1>10. QED
  BY <1>1, <1>4, <1>6, <1>7, <1>8, <1>9, WriteKeepsInv

LEMMA StartLaneInv ==
    ASSUME LayoutInv, NEW c \in Clients, StartLane(c)
    PROVE  LayoutInv'
<1>1. PICK b \in LiveBoards : Start(c, "lane", [Idle EXCEPT !.pc = "last", !.board = b])
  BY DEF StartLane
<1> DEFINE r == [Idle EXCEPT !.pc = "last", !.board = b]
<1>2. b \in Boards
  BY DEF LiveBoards
<1>3. r \in Request /\ r.pc = "last" /\ r.board = b
  BY <1>2, IdleOK DEF Request, Stages, Idle
<1>4. ASSUME NEW q \in Request, q = [r EXCEPT !.op = "lane"] PROVE RequestOK(q)
  <2>1. q.pc = "last" /\ q.board = b
    BY <1>3, <1>4 DEF Request
  <2>2. QED
    BY <1>2, <2>1 DEF RequestOK, Formed, TrashSeen, CalmOK, DeletePC, CountedPC, LookedPC, OrderedPC
<1> HIDE DEF r
<1>5. QED
  BY <1>1, <1>3, <1>4, StartKeepsInv DEF r

LEMMA ReadLastInv ==
    ASSUME LayoutInv, NEW c \in Clients, ReadLast(c)
    PROVE  LayoutInv'
<1> DEFINE n == NextPos(req[c].board)
           r == [req[c] EXCEPT !.pc = "insert", !.n = n]
<1>1. TypeOK /\ req[c] \in Request /\ RequestOK(req[c]) /\ req[c].pc = "last"
  BY DEF LayoutInv, TypeOK, ReadLast, At
<1>2. n \in Nat
  BY <1>1, NextPosType
<1>3. req' = [req EXCEPT ![c] = r]
  BY <1>1 DEF ReadLast, TypeOK
<1> HIDE DEF n
<1>4. r \in Request /\ r.pc = "insert" /\ r.board = req[c].board
  BY <1>1, <1>2 DEF Request, Stages
<1>5. RequestOK(r)
  <2> HIDE DEF r
  <2>1. QED
    BY <1>1, <1>4 DEF RequestOK, Formed, TrashSeen, CalmOK, DeletePC, CountedPC, LookedPC, OrderedPC
<1>6. QED
  BY <1>1, <1>3, <1>4, <1>5, ReadKeepsInv DEF ReadLast, TypeOK

\* A new lane appears on its board and nowhere else.
LEMMA NewLane ==
    ASSUME TypeOK, NEW b \in Boards, NEW p \in Nat, NEW l \in FreshLanes,
           lane' = [lane EXCEPT ![l] = [st |-> "live", board |-> b, pos |-> p]]
    PROVE  /\ l \in Lanes /\ lane[l].st = "new"
           /\ lane' \in [Lanes -> LaneRow] /\ LanesStay
           /\ lane'[l].st = "live" /\ lane'[l].board = b
           /\ \A k \in Lanes : k # l => lane'[k] = lane[k]
           /\ \A e : LanesIn(lane', e) = IF e = b THEN LanesIn(lane, b) \cup {l} ELSE LanesIn(lane, e)
           /\ \A e : e # b => LanesSame(e)
<1>1. l \in Lanes /\ lane[l].st = "new"
  BY DEF FreshLanes, Fresh
<1>2. lane \in [Lanes -> LaneRow]
  BY DEF TypeOK
<1> DEFINE new == [st |-> "live", board |-> b, pos |-> p]
<1>3. new \in LaneRow /\ new.st = "live" /\ new.board = b
  BY DEF LaneRow
<1> HIDE DEF new
<1>4. lane' = [lane EXCEPT ![l] = new]
  BY DEF new
<1>5. /\ lane' \in [Lanes -> LaneRow]
      /\ lane'[l] = new /\ \A k \in Lanes : k # l => lane'[k] = lane[k]
  BY <1>1, <1>2, <1>3, <1>4
<1>6. LanesStay
  BY <1>1, <1>5 DEF LanesStay
<1>7. \A e : LanesIn(lane', e) = IF e = b THEN LanesIn(lane, b) \cup {l} ELSE LanesIn(lane, e)
  BY <1>1, <1>3, <1>5 DEF LanesIn
<1>8. \A e : e # b => LanesSame(e)
  BY <1>1, <1>5, <1>7 DEF LanesSame, LanesIn
<1>9. QED
  BY <1>1, <1>3, <1>5, <1>6, <1>7, <1>8

LEMMA InsertLaneInv ==
    ASSUME LayoutInv, NEW c \in Clients, InsertLane(c)
    PROVE  LayoutInv'
<1> DEFINE b == req[c].board
           n == req[c].n
<1>1. /\ TypeOK /\ req[c] \in Request /\ RequestOK(req[c]) /\ req[c].pc = "insert"
      /\ kind' = kind /\ board' = board /\ item' = item /\ started' = started /\ late' = late
      /\ unfiled' = unfiled /\ raced' = raced
  BY DEF LayoutInv, TypeOK, InsertLane, At
<1>2. b \in Boards /\ n \in Nat
  BY <1>1 DEF RequestOK, Formed, Request
<1>3. CASE board[b] # "live"
  BY <1>1, <1>3, DoneKeepsInv DEF InsertLane, rows
<1>4. CASE board[b] = "live"
  <2>1. PICK l \in FreshLanes :
          lane' = [lane EXCEPT ![l] = [st |-> "live", board |-> b, pos |-> n]]
    BY <1>4 DEF InsertLane
  <2>2. req' = Disturbed(c, b)
    BY <1>4 DEF InsertLane
  <2>3. /\ req'[c] = Idle /\ req' \in [Clients -> Request]
        /\ \A d \in Clients \ {c} :
             req'[d] = IF req[d].board = b THEN [req[d] EXCEPT !.calm = FALSE] ELSE req[d]
    BY <1>1, <2>2, DisturbStep
  <2> HIDE DEF b, n
  <2>4. /\ l \in Lanes /\ lane[l].st = "new"
        /\ lane' \in [Lanes -> LaneRow] /\ LanesStay
        /\ lane'[l].st = "live" /\ lane'[l].board = b
        /\ \A k \in Lanes : k # l => lane'[k] = lane[k]
        /\ \A e : LanesIn(lane', e) = IF e = b THEN LanesIn(lane, b) \cup {l} ELSE LanesIn(lane, e)
        /\ \A e : e # b => LanesSame(e)
    BY <1>1, <1>2, <2>1, NewLane
  <2>5. \A d \in Clients \ {c} : Aside(d)
    BY <2>3, <2>4 DEF Aside
  <2>6. TrashStays
    BY <1>1 DEF TrashStays
  <2>7. TypeOK' /\ AnswersFiled' /\ TrashKept'
    BY <1>1, <2>3, <2>4 DEF LayoutInv, TypeOK, AnswersFiled, TrashKept
  <2>8. OnMadeBoards'
    BY <1>1, <1>4, <2>4 DEF LayoutInv, OnMadeBoards
  <2>9. LastOnesKept'
    <3>1. LiveBoards' = LiveBoards /\ \A e : LanesOf(e) \subseteq LanesOf(e)'
      BY <1>1, <2>4 DEF LiveBoards, LanesOf, LanesIn
    <3>2. QED
      BY <1>1, <3>1 DEF LayoutInv, LastOnesKept
  <2>10. QED
    BY <1>1, <2>3, <2>4, <2>5, <2>6, <2>7, <2>8, <2>9, WriteKeepsInv
<1>5. QED
  BY <1>3, <1>4

-----------------------------------------------------------------------------
(* createBoard, createFunnel, ensureDefaultFunnel, deleteBoard *)

\* Nobody is ordering the lanes of a board that is new.
LEMMA MakeBoardStep ==
    ASSUME LayoutInv, NEW b \in Fresh(Boards, board), MakeBoard(b),
           UNCHANGED <<kind, item, late, unfiled>>, started' \in Nat,
           req' \in [Clients -> Request], raced' \in BOOLEAN, raced => raced'
    PROVE  /\ TypeOK' /\ OnMadeBoards' /\ LastOnesKept' /\ AnswersFiled' /\ TrashKept'
           /\ LanesStay /\ TrashStays
           /\ \A d \in Clients : req'[d] = req[d] => Aside(d)
<1>1. TypeOK
  BY DEF LayoutInv
<1>2. b \in Boards /\ board[b] = "new"
  BY DEF Fresh
<1>3. board' = [board EXCEPT ![b] = "live"]
  BY DEF MakeBoard
<1>4. PICK l \in FreshLanes :
        lane' = [lane EXCEPT ![l] = [st |-> "live", board |-> b, pos |-> 0]]
  BY DEF MakeBoard
<1>5. /\ l \in Lanes /\ lane[l].st = "new"
      /\ lane' \in [Lanes -> LaneRow] /\ LanesStay
      /\ lane'[l].st = "live" /\ lane'[l].board = b
      /\ \A k \in Lanes : k # l => lane'[k] = lane[k]
      /\ \A e : LanesIn(lane', e) = IF e = b THEN LanesIn(lane, b) \cup {l} ELSE LanesIn(lane, e)
      /\ \A e : e # b => LanesSame(e)
  BY <1>1, <1>2, <1>4, NewLane
<1>6. /\ board' \in [Boards -> {"new", "live", "gone"}] /\ board'[b] = "live"
      /\ \A e \in Boards : e # b => board'[e] = board[e]
  BY <1>1, <1>2, <1>3 DEF TypeOK
<1>7. TypeOK' /\ AnswersFiled' /\ TrashKept'
  BY <1>5, <1>6 DEF LayoutInv, TypeOK, AnswersFiled, TrashKept
<1>8. OnMadeBoards'
  BY <1>1, <1>5, <1>6 DEF LayoutInv, OnMadeBoards, TypeOK, LaneRow
<1>9. LastOnesKept'
  <2>1. LiveBoards' = LiveBoards \cup {b}
    BY <1>2, <1>6 DEF LiveBoards
  <2>2. l \in LanesOf(b)' /\ \A e : LanesOf(e) \subseteq LanesOf(e)'
    BY <1>5 DEF LanesOf, LanesIn
  <2>3. QED
    BY <2>1, <2>2 DEF LayoutInv, LastOnesKept
<1>10. TrashStays
  BY DEF TrashStays
<1>11. ASSUME NEW d \in Clients, req'[d] = req[d] PROVE Aside(d)
  <2>1. SUFFICES ASSUME req[d].pc \in OrderedPC PROVE LanesSame(req[d].board)
    BY <1>11 DEF Aside
  <2>2. MadeOn(lane, req[d].lane, req[d].board)
    BY <2>1 DEF LayoutInv, RequestOK, Formed, OrderedPC, DeletePC
  <2>3. board[req[d].board] # "new"
    BY <2>2 DEF LayoutInv, OnMadeBoards, MadeOn
  <2>4. QED
    BY <1>2, <1>5, <2>3
<1>12. QED
  BY <1>5, <1>7, <1>8, <1>9, <1>10, <1>11

LEMMA CreateBoardInv ==
    ASSUME LayoutInv, NEW c \in Clients, CreateBoard(c)
    PROVE  LayoutInv'
<1>1. PICK b \in Fresh(Boards, board) : MakeBoard(b)
  BY DEF CreateBoard
<1>2. UNCHANGED <<kind, item, req, raced, late, unfiled>> /\ started' \in Nat /\ TypeOK
  BY DEF CreateBoard, LayoutInv, TypeOK
<1>3. req' \in [Clients -> Request] /\ raced' \in BOOLEAN /\ raced' = raced
  BY <1>2 DEF TypeOK
<1>4. /\ TypeOK' /\ OnMadeBoards' /\ LastOnesKept' /\ AnswersFiled' /\ TrashKept'
      /\ LanesStay /\ TrashStays /\ \A d \in Clients : req'[d] = req[d] => Aside(d)
  BY <1>1, <1>2, <1>3, MakeBoardStep
<1>5. \A d \in Clients : RequestOK(req[d])'
  BY <1>2, <1>4, OthersKeep DEF LayoutInv
<1>6. QED
  BY <1>4, <1>5 DEF LayoutInv

LEMMA ListFunnelsInv ==
    ASSUME LayoutInv, NEW c \in Clients, ListFunnels(c)
    PROVE  LayoutInv'
<1> DEFINE r == [Idle EXCEPT !.pc = "default"]
<1>1. Start(c, "default", r)
  BY DEF ListFunnels
<1>2. r \in Request /\ r.pc = "default"
  BY IdleOK DEF Request, Stages, Idle
<1>3. ASSUME NEW q \in Request, q = [r EXCEPT !.op = "default"] PROVE RequestOK(q)
  <2>1. q.pc = "default"
    BY <1>2, <1>3 DEF Request
  <2>2. QED
    BY <2>1 DEF RequestOK, Formed, TrashSeen, CalmOK, DeletePC, CountedPC, LookedPC, OrderedPC
<1> HIDE DEF r
<1>4. QED
  BY <1>1, <1>2, <1>3, StartKeepsInv

LEMMA MakeDefaultInv ==
    ASSUME LayoutInv, NEW c \in Clients, MakeDefault(c)
    PROVE  LayoutInv'
<1>1. PICK b \in Fresh(Boards, board) : MakeBoard(b)
  BY DEF MakeDefault
<1>2. UNCHANGED <<kind, item, late, unfiled>> /\ started' \in Nat /\ TypeOK
  BY DEF MakeDefault, LayoutInv, TypeOK
<1>3. /\ req'[c] = Idle /\ req' \in [Clients -> Request]
      /\ \A d \in Clients \ {c} : req'[d] = req[d]
  BY <1>2, DoneStep DEF MakeDefault
<1>4. raced' = (raced \/ LiveBoards # {})
  BY DEF MakeDefault
<1>5. raced' \in BOOLEAN /\ (raced => raced')
  BY <1>4
<1>6. /\ TypeOK' /\ OnMadeBoards' /\ LastOnesKept' /\ AnswersFiled' /\ TrashKept'
      /\ LanesStay /\ TrashStays /\ \A d \in Clients : req'[d] = req[d] => Aside(d)
  BY <1>1, <1>2, <1>3, <1>5, MakeBoardStep
<1>7. QED
  BY <1>2, <1>3, <1>6, WriteKeepsInv

LEMMA StartUnboardInv ==
    ASSUME LayoutInv, NEW c \in Clients, StartUnboard(c)
    PROVE  LayoutInv'
<1>1. PICK b \in LiveBoards : Start(c, "unboard", [Idle EXCEPT !.pc = "boards", !.board = b])
  BY DEF StartUnboard
<1> DEFINE r == [Idle EXCEPT !.pc = "boards", !.board = b]
<1>2. b \in Boards /\ kind = "boards"
  BY DEF LiveBoards, StartUnboard
<1>3. r \in Request /\ r.pc = "boards" /\ r.board = b
  BY <1>2, IdleOK DEF Request, Stages, Idle
<1>4. ASSUME NEW q \in Request, q = [r EXCEPT !.op = "unboard"] PROVE RequestOK(q)
  <2>1. q.pc = "boards" /\ q.board = b
    BY <1>3, <1>4 DEF Request
  <2>2. QED
    BY <1>2, <2>1 DEF RequestOK, Formed, TrashSeen, CalmOK, DeletePC, CountedPC, LookedPC, OrderedPC
<1> HIDE DEF r
<1>5. QED
  BY <1>1, <1>3, <1>4, StartKeepsInv DEF r

LEMMA CountBoardsInv ==
    ASSUME LayoutInv, NEW c \in Clients, CountBoards(c)
    PROVE  LayoutInv'
<1> DEFINE n == Cardinality(LiveBoards)
           r == [req[c] EXCEPT !.pc = "unboard", !.n = n]
<1>1. TypeOK /\ req[c] \in Request /\ RequestOK(req[c]) /\ req[c].pc = "boards"
  BY DEF LayoutInv, TypeOK, CountBoards, At
<1>2. n \in Nat
  BY <1>1, LaneFacts
<1>3. CASE LastOne(n)
  BY <1>3, DoneKeepsInv DEF CountBoards
<1>4. CASE ~LastOne(n)
  <2>1. req' = [req EXCEPT ![c] = r]
    BY <1>1, <1>4 DEF CountBoards, TypeOK
  <2>2. r \in Request /\ r.pc = "unboard" /\ r.n = n /\ r.board = req[c].board
    BY <1>1, <1>2 DEF Request, Stages
  <2>3. n >= 2
    BY <1>2, <1>4 DEF LastOne
  <2> HIDE DEF r, n
  <2>4. RequestOK(r)
    BY <1>1, <2>2, <2>3 DEF RequestOK, Formed, TrashSeen, CalmOK, DeletePC, CountedPC, LookedPC, OrderedPC
  <2>5. QED
    BY <1>1, <2>1, <2>2, <2>4, ReadKeepsInv DEF CountBoards, TypeOK
<1>5. QED
  BY <1>3, <1>4

LEMMA DeleteBoardInv ==
    ASSUME LayoutInv, NEW c \in Clients, DeleteBoard(c)
    PROVE  LayoutInv'
<1> DEFINE b == req[c].board
<1>1. /\ TypeOK /\ req[c] \in Request /\ RequestOK(req[c]) /\ req[c].pc = "unboard"
      /\ kind' = kind /\ started' = started /\ late' = late /\ unfiled' = unfiled
  BY DEF LayoutInv, TypeOK, DeleteBoard, At
<1>2. CASE Done(c) /\ UNCHANGED <<rows, raced>>
  BY <1>1, <1>2, DoneKeepsInv
<1>3. CASE /\ board[b] = "live"
           /\ board' = [board EXCEPT ![b] = "gone"]
           /\ lane' = [l \in Lanes |-> IF l \in LanesOf(b) THEN [lane[l] EXCEPT !.st = "gone"]
                                                           ELSE lane[l]]
           /\ item' = [i \in Items |-> IF item[i].st \in {"live", "trashed"}
                                          /\ item[i].lane \in LanesOf(b)
                                       THEN [item[i] EXCEPT !.st = "swept"] ELSE item[i]]
           /\ raced' = (raced \/ Cardinality(LiveBoards) < req[c].n)
           /\ req' = Disturbed(c, b)
  <2>1. b \in Boards /\ req[c].n >= 2 /\ req[c].n \in Nat /\ kind = "boards"
    BY <1>1 DEF RequestOK, Formed, Request, CountedPC
  <2>2. /\ req'[c] = Idle /\ req' \in [Clients -> Request]
        /\ \A d \in Clients \ {c} :
             req'[d] = IF req[d].board = b THEN [req[d] EXCEPT !.calm = FALSE] ELSE req[d]
    <3>1. TypeOK /\ req' = Disturbed(c, b)
      BY <1>1, <1>3
    <3>2. QED
      BY <3>1, DisturbStep
  <2> HIDE DEF b
  <2>3. /\ board' \in [Boards -> {"new", "live", "gone"}] /\ board'[b] = "gone"
        /\ \A e \in Boards : e # b => board'[e] = board[e]
    BY <1>1, <1>3, <2>1 DEF TypeOK
  <2>4. \A l \in Lanes :
          /\ lane'[l] \in LaneRow /\ lane'[l].board = lane[l].board /\ lane'[l].pos = lane[l].pos
          /\ lane'[l].st = IF l \in LanesOf(b) THEN "gone" ELSE lane[l].st
    BY <1>1, <1>3 DEF TypeOK, LaneRow
  <2>5. lane' \in [Lanes -> LaneRow]
    BY <1>3, <2>4
  <2>6. \A e : LanesIn(lane', e) = IF e = b THEN {} ELSE LanesIn(lane, e)
    BY <2>4 DEF LanesIn, LanesOf
  <2>7. \A i \in Items :
          /\ item'[i] \in ItemRow /\ item'[i].lane = item[i].lane
          /\ item'[i].st \in {item[i].st, "swept"}
    BY <1>1, <1>3 DEF TypeOK, ItemRow
  <2>8. item' \in [Items -> ItemRow]
    BY <1>3, <2>7
  <2>9. LanesStay
    BY <2>4 DEF LanesStay, LanesOf
  <2>10. TrashStays
    BY <1>1, <2>7 DEF TrashStays
  <2>11. \A d \in Clients \ {c} : Aside(d)
    <3>1. SUFFICES ASSUME NEW d \in Clients \ {c}, req[d].board # b PROVE LanesSame(req[d].board)
      BY <2>2 DEF Aside
    <3>2. QED
      BY <2>4, <2>6, <3>1 DEF LanesSame, LanesIn
  <2>12. raced' \in BOOLEAN /\ (raced => raced')
    BY <1>3
  <2>13. TypeOK'
    BY <1>1, <2>2, <2>3, <2>5, <2>8, <2>12 DEF TypeOK
  <2>14. OnMadeBoards'
    <3>1. \A l \in Lanes : lane'[l].st # "new" => lane[l].st # "new"
      BY <2>4 DEF LanesOf
    <3>2. \A e \in Boards : board[e] # "new" => board'[e] # "new"
      BY <2>3
    <3>3. \A l \in Lanes : lane[l].board \in Boards
      BY <1>1 DEF TypeOK, LaneRow
    <3>4. QED
      BY <2>4, <3>1, <3>2, <3>3 DEF LayoutInv, OnMadeBoards
  <2>15. AnswersFiled' /\ TrashKept'
    BY <1>1, <2>7, <2>12 DEF LayoutInv, AnswersFiled, TrashKept
  <2>16. LastOnesKept'
    <3>1. SUFFICES ASSUME ~raced'
                   PROVE  /\ \A e \in LiveBoards' : LanesOf(e)' # {}
                          /\ LiveBoards' # {}
      BY DEF LastOnesKept
    <3>2. ~raced /\ ~(Cardinality(LiveBoards) < req[c].n)
      BY <1>3, <3>1
    <3>3. LiveBoards' = LiveBoards \ {b}
      BY <2>1, <2>3 DEF LiveBoards
    <3>4. LiveBoards' # {}
      BY <1>1, <2>1, <3>2, <3>3, LaneFacts, OneIsLeft
    <3>5. \A e : e # b => LanesOf(e)' = LanesOf(e)
      BY <2>6 DEF LanesOf, LanesIn
    <3>6. QED
      BY <3>2, <3>3, <3>4, <3>5 DEF LayoutInv, LastOnesKept
  <2>17. QED
    BY <1>1, <2>2, <2>9, <2>10, <2>11, <2>13, <2>14, <2>15, <2>16, WriteKeepsInv
<1>4. QED
  BY <1>2, <1>3 DEF DeleteBoard

-----------------------------------------------------------------------------
(* Items *)

LEMMA StartAddInv ==
    ASSUME LayoutInv, NEW c \in Clients, StartAdd(c)
    PROVE  LayoutInv'
<1>1. PICK b \in Boards : \E l \in LanesOf(b) :
        Start(c, "add", [Idle EXCEPT !.pc = "put", !.lane = l])
  BY DEF StartAdd
<1>2. PICK l \in LanesOf(b) : Start(c, "add", [Idle EXCEPT !.pc = "put", !.lane = l])
  BY <1>1
<1> DEFINE r == [Idle EXCEPT !.pc = "put", !.lane = l]
<1>3. l \in Lanes
  BY DEF LanesOf
<1>4. r \in Request /\ r.pc = "put" /\ r.lane = l
  BY <1>3, IdleOK DEF Request, Stages, Idle
<1>5. ASSUME NEW q \in Request, q = [r EXCEPT !.op = "add"] PROVE RequestOK(q)
  <2>1. q.pc = "put" /\ q.lane = l
    BY <1>4, <1>5 DEF Request
  <2>2. QED
    BY <1>3, <2>1 DEF RequestOK, Formed, TrashSeen, CalmOK, DeletePC, CountedPC, LookedPC, OrderedPC
<1> HIDE DEF r
<1>6. QED
  BY <1>2, <1>4, <1>5, StartKeepsInv DEF r

\* A step that ends the request of c and changes items only.
LEMMA ItemKeepsInv ==
    ASSUME LayoutInv, NEW c \in Clients, Done(c),
           UNCHANGED <<kind, board, lane, started, raced, unfiled>>,
           item' \in [Items -> ItemRow], late' \subseteq Items, TrashStays, TrashKept'
    PROVE  LayoutInv'
<1>1. TypeOK
  BY DEF LayoutInv
<1>2. /\ req'[c] = Idle /\ req' \in [Clients -> Request]
      /\ \A d \in Clients \ {c} : req'[d] = req[d]
  BY <1>1, DoneStep
<1>3. \A d \in Clients \ {c} : Aside(d)
  BY <1>2 DEF Aside, LanesSame
<1>4. LanesStay
  BY DEF LanesStay
<1>5. TypeOK' /\ OnMadeBoards' /\ LastOnesKept' /\ AnswersFiled'
  BY <1>2 DEF LayoutInv, TypeOK, OnMadeBoards, LastOnesKept, AnswersFiled, LiveBoards, LanesOf
<1>6. QED
  BY <1>2, <1>3, <1>4, <1>5, WriteKeepsInv

\* A new item is live.
LEMMA NewItem ==
    ASSUME LayoutInv, NEW i \in NewItems, NEW l \in Lanes, late' = late,
           item' = [item EXCEPT ![i] = [st |-> "live", lane |-> l]]
    PROVE  item' \in [Items -> ItemRow] /\ TrashStays /\ TrashKept'
<1> DEFINE new == [st |-> "live", lane |-> l]
<1>1. i \in Items /\ item \in [Items -> ItemRow]
  BY DEF NewItems, LayoutInv, TypeOK
<1>2. new \in ItemRow /\ new.st = "live"
  BY DEF ItemRow
<1> HIDE DEF new
<1>3. item' = [item EXCEPT ![i] = new]
  BY DEF new
<1>4. /\ item' \in [Items -> ItemRow]
      /\ item'[i].st = "live" /\ \A j \in Items : j # i => item'[j] = item[j]
  BY <1>1, <1>2, <1>3
<1>5. QED
  BY <1>4 DEF LayoutInv, TrashStays, TrashKept

LEMMA AddItemInv ==
    ASSUME LayoutInv, NEW c \in Clients, AddItem(c)
    PROVE  LayoutInv'
<1> DEFINE l == req[c].lane
<1>1. /\ Done(c) /\ UNCHANGED <<kind, board, lane, started, raced, unfiled>> /\ late' = late
      /\ TypeOK /\ l \in Lanes
  BY DEF AddItem, LayoutInv, At, RequestOK, Formed
<1>2. CASE UNCHANGED item
  BY <1>1, <1>2, DoneKeepsInv DEF rows
<1>3. CASE \E i \in NewItems : item' = [item EXCEPT ![i] = [st |-> "live", lane |-> l]]
  <2>1. PICK i \in NewItems : item' = [item EXCEPT ![i] = [st |-> "live", lane |-> l]]
    BY <1>3
  <2> HIDE DEF l
  <2>2. item' \in [Items -> ItemRow] /\ TrashStays /\ TrashKept'
    BY <1>1, <2>1, NewItem
  <2>3. late' \subseteq Items
    BY <1>1 DEF TypeOK
  <2>4. QED
    BY <1>1, <2>2, <2>3, ItemKeepsInv
<1>4. QED
  BY <1>2, <1>3 DEF AddItem

LEMMA StartItemInv ==
    ASSUME LayoutInv, NEW c \in Clients, StartItem(c)
    PROVE  LayoutInv'
<1> DEFINE W == {"carry", "trash", "restore", "purge"}
           r(i, l) == [Idle EXCEPT !.pc = "item", !.item = i, !.lane = l]
<1>1. PICK i \in Items, op \in W, l \in Lanes : Start(c, op, r(i, l))
  BY DEF StartItem
<1> DEFINE s == r(i, l)
<1>2. s \in Request /\ s.pc = "item" /\ s.item = i /\ s.lane = l
  BY IdleOK DEF Request, Stages, Idle
<1>3. ASSUME NEW q \in Request, q = [s EXCEPT !.op = op] PROVE RequestOK(q)
  <2>1. q.pc = "item" /\ q.op = op /\ q.lane = l /\ q.item = i
    BY <1>2, <1>3 DEF Request
  <2>2. QED
    BY <2>1 DEF RequestOK, Formed, TrashSeen, CalmOK, DeletePC, CountedPC, LookedPC, OrderedPC
<1>4. Start(c, op, s)
  BY <1>1
<1> HIDE DEF s
<1>5. QED
  BY <1>2, <1>3, <1>4, StartKeepsInv

LEMMA ChangeItemInv ==
    ASSUME LayoutInv, NEW c \in Clients, ChangeItem(c)
    PROVE  LayoutInv'
<1> DEFINE i == req[c].item
           op == req[c].op
           l == IF op = "carry" THEN req[c].lane ELSE item[i].lane
           new == After(op, i, l)
<1>1. /\ Done(c) /\ UNCHANGED <<kind, board, lane, started, raced, unfiled>>
      /\ TypeOK /\ i \in Items /\ op \in {"carry", "trash", "restore", "purge"}
      /\ req[c].lane \in Lanes
  BY DEF ChangeItem, LayoutInv, At, RequestOK, Formed
<1>2. CASE UNCHANGED <<item, late>>
  BY <1>1, <1>2, DoneKeepsInv DEF rows
<1>3. CASE /\ item[i].st \in {"live", "trashed"}
           /\ item' = [item EXCEPT ![i] = new]
           /\ late' = IF new.st # "trashed" \/ Deleting(l) THEN late \cup {i}
                      ELSE IF item[i].st = "live" THEN late \ {i} ELSE late
  <2>1. item \in [Items -> ItemRow] /\ item[i] \in ItemRow /\ l \in Lanes /\ late \subseteq Items
    BY <1>1 DEF TypeOK, ItemRow
  <2>2. new \in ItemRow /\ new.lane = l /\ new.st # "lost"
    <3>1. CASE op = "carry"
      BY <1>3, <2>1, <3>1 DEF After, ItemRow
    <3>2. CASE op = "trash"
      BY <1>3, <2>1, <3>2 DEF After, ItemRow
    <3>3. CASE op = "restore"
      BY <1>3, <2>1, <3>3 DEF After, ItemRow
    <3>4. CASE op = "purge"
      BY <1>3, <2>1, <3>4 DEF After, ItemRow
    <3>5. QED
      BY <1>1, <3>1, <3>2, <3>3, <3>4
  <2> HIDE DEF new, l, op, i
  <2>3. /\ item' \in [Items -> ItemRow]
        /\ item'[i] = new /\ \A j \in Items : j # i => item'[j] = item[j]
    BY <1>1, <1>3, <2>1, <2>2
  <2>4. late' \subseteq Items /\ \A j \in Items : j # i => (j \in late' <=> j \in late)
    BY <1>1, <1>3, <2>1
  <2>5. TrashKept'
    BY <1>1, <2>2, <2>3, <2>4 DEF LayoutInv, TrashKept
  <2>6. TrashStays
    <3>1. SUFFICES ASSUME NEW j \in Items, item'[j].st = "trashed"
                   PROVE  \/ j \in late'
                          \/ item[j].st = "trashed" /\ item'[j].lane = item[j].lane /\ j \notin late
                          \/ ~Deleting(item'[j].lane)
      BY DEF TrashStays
    <3>2. CASE j = i
      BY <1>3, <2>2, <2>3, <3>1, <3>2
    <3>3. CASE j # i
      BY <2>3, <2>4, <3>1, <3>3
    <3>4. QED
      BY <3>2, <3>3
  <2>7. QED
    BY <1>1, <2>3, <2>4, <2>5, <2>6, ItemKeepsInv
<1>4. QED
  BY <1>2, <1>3 DEF ChangeItem

-----------------------------------------------------------------------------
(* Forms and imports *)

LEMMA SubmitInv ==
    ASSUME LayoutInv, NEW c \in Clients, Submit(c)
    PROVE  LayoutInv'
<1> DEFINE r == [Idle EXCEPT !.pc = "pick"]
<1>1. Start(c, "submit", r) /\ kind = "boards"
  BY DEF Submit
<1>2. r \in Request /\ r.pc = "pick"
  BY IdleOK DEF Request, Stages, Idle
<1>3. ASSUME NEW q \in Request, q = [r EXCEPT !.op = "submit"] PROVE RequestOK(q)
  <2>1. q.pc = "pick"
    BY <1>2, <1>3 DEF Request
  <2>2. QED
    BY <1>1, <2>1 DEF RequestOK, Formed, TrashSeen, CalmOK, DeletePC, CountedPC, LookedPC, OrderedPC
<1> HIDE DEF r
<1>4. QED
  BY <1>1, <1>2, <1>3, StartKeepsInv

LEMMA PickColumnInv ==
    ASSUME LayoutInv, NEW c \in Clients, PickColumn(c)
    PROVE  LayoutInv'
<1>1. /\ TypeOK /\ req[c] \in Request /\ RequestOK(req[c]) /\ req[c].pc = "pick"
      /\ UNCHANGED <<kind, rows, started, raced, late>>
  BY DEF LayoutInv, TypeOK, PickColumn, At
<1>2. CASE \E b \in LiveBoards : \E l \in FirstLanes(b) :
             /\ req' = [req EXCEPT ![c].pc = "put", ![c].lane = l]
             /\ UNCHANGED unfiled
  <2>1. PICK l \in Lanes : req' = [req EXCEPT ![c].pc = "put", ![c].lane = l] /\ UNCHANGED unfiled
    BY <1>2 DEF FirstLanes, LanesOf
  <2> DEFINE r == [req[c] EXCEPT !.pc = "put", !.lane = l]
  <2>2. r \in Request /\ r.pc = "put" /\ r.lane = l
    BY <1>1 DEF Request, Stages
  <2>3. req' = [req EXCEPT ![c] = r]
    BY <1>1, <2>1 DEF TypeOK
  <2> HIDE DEF r
  <2>4. RequestOK(r)
    BY <2>2 DEF RequestOK, Formed, TrashSeen, CalmOK, DeletePC, CountedPC, LookedPC, OrderedPC
  <2>5. QED
    BY <1>1, <2>1, <2>2, <2>3, <2>4, ReadKeepsInv DEF TypeOK
<1>3. CASE /\ LiveBoards = {} \/ \E b \in LiveBoards : FirstLanes(b) = {}
           /\ Done(c)
           /\ unfiled' = TRUE
  <2>1. kind = "boards"
    BY <1>1 DEF RequestOK, Formed
  <2>2. raced
    BY <1>1, <1>3, <2>1, FirstLaneExists DEF LayoutInv, LastOnesKept
  <2>3. /\ req'[c] = Idle /\ req' \in [Clients -> Request]
        /\ \A d \in Clients \ {c} : req'[d] = req[d]
    BY <1>1, <1>3, DoneStep
  <2>4. \A d \in Clients \ {c} : Aside(d)
    BY <1>1, <2>3 DEF Aside, LanesSame, rows
  <2>5. LanesStay /\ TrashStays
    BY <1>1 DEF LanesStay, TrashStays, rows
  <2>6. TypeOK' /\ OnMadeBoards' /\ LastOnesKept' /\ AnswersFiled' /\ TrashKept'
    BY <1>1, <1>3, <2>2, <2>3
       DEF LayoutInv, TypeOK, OnMadeBoards, LastOnesKept, AnswersFiled, TrashKept, rows,
           LiveBoards, LanesOf
  <2>7. QED
    BY <1>1, <2>3, <2>4, <2>5, <2>6, WriteKeepsInv
<1>4. QED
  BY <1>2, <1>3 DEF PickColumn

LEMMA StartImportInv ==
    ASSUME LayoutInv, NEW c \in Clients, StartImport(c)
    PROVE  LayoutInv'
<1>1. PICK b \in LiveBoards : Start(c, "import", [Idle EXCEPT !.pc = "columns", !.board = b])
  BY DEF StartImport
<1> DEFINE r == [Idle EXCEPT !.pc = "columns", !.board = b]
<1>2. b \in Boards
  BY DEF LiveBoards
<1>3. r \in Request /\ r.pc = "columns" /\ r.board = b
  BY <1>2, IdleOK DEF Request, Stages, Idle
<1>4. ASSUME NEW q \in Request, q = [r EXCEPT !.op = "import"] PROVE RequestOK(q)
  <2>1. q.pc = "columns" /\ q.board = b
    BY <1>3, <1>4 DEF Request
  <2>2. QED
    BY <1>2, <2>1 DEF RequestOK, Formed, TrashSeen, CalmOK, DeletePC, CountedPC, LookedPC, OrderedPC
<1> HIDE DEF r
<1>5. QED
  BY <1>1, <1>3, <1>4, StartKeepsInv DEF r

LEMMA ReadColumnsInv ==
    ASSUME LayoutInv, NEW c \in Clients, ReadColumns(c)
    PROVE  LayoutInv'
<1> DEFINE n == NextPos(req[c].board)
<1>1. /\ TypeOK /\ req[c] \in Request /\ RequestOK(req[c]) /\ req[c].pc = "columns"
      /\ UNCHANGED <<kind, rows, started, raced, late, unfiled>>
  BY DEF LayoutInv, TypeOK, ReadColumns, At
<1>2. PICK l \in Lanes \cup {0} :
        req' = [req EXCEPT ![c].pc = "import", ![c].lane = l, ![c].n = n]
  BY DEF ReadColumns, LanesOf
<1>3. n \in Nat
  BY <1>1, NextPosType
<1> DEFINE r == [req[c] EXCEPT !.pc = "import", !.lane = l, !.n = n]
<1>4. req' = [req EXCEPT ![c] = r]
  BY <1>1, <1>2 DEF TypeOK
<1> HIDE DEF n
<1>5. r \in Request /\ r.pc = "import" /\ r.board = req[c].board
  BY <1>1, <1>3 DEF Request, Stages
<1> HIDE DEF r
<1>6. RequestOK(r)
  BY <1>1, <1>5 DEF RequestOK, Formed, TrashSeen, CalmOK, DeletePC, CountedPC, LookedPC, OrderedPC
<1>7. QED
  BY <1>1, <1>4, <1>5, <1>6, ReadKeepsInv DEF TypeOK

LEMMA CommitImportInv ==
    ASSUME LayoutInv, NEW c \in Clients, CommitImport(c)
    PROVE  LayoutInv'
<1> DEFINE b == req[c].board
           l == req[c].lane
           n == req[c].n
<1>1. /\ TypeOK /\ req[c] \in Request /\ RequestOK(req[c]) /\ req[c].pc = "import"
      /\ kind' = kind /\ board' = board /\ started' = started /\ late' = late
      /\ unfiled' = unfiled /\ raced' = raced
  BY DEF LayoutInv, TypeOK, CommitImport, At
<1>2. b \in Boards /\ n \in Nat /\ (l # 0 => l \in Lanes)
  BY <1>1 DEF RequestOK, Formed, Request
<1>3. CASE Done(c) /\ UNCHANGED <<lane, item>>
  BY <1>1, <1>3, DoneKeepsInv DEF rows
<1>4. CASE /\ l # 0
           /\ \E i \in NewItems : item' = [item EXCEPT ![i] = [st |-> "live", lane |-> l]]
           /\ Done(c)
           /\ UNCHANGED lane
  <2>1. PICK i \in NewItems : item' = [item EXCEPT ![i] = [st |-> "live", lane |-> l]]
    BY <1>4
  <2> HIDE DEF l
  <2>2. item' \in [Items -> ItemRow] /\ TrashStays /\ TrashKept' /\ late' \subseteq Items
    BY <1>1, <1>2, <1>4, <2>1, NewItem DEF TypeOK
  <2>3. QED
    BY <1>1, <1>4, <2>2, ItemKeepsInv
<1>5. CASE /\ board[b] = "live"
           /\ \E k \in FreshLanes, i \in NewItems :
                /\ lane' = [lane EXCEPT ![k] = [st |-> "live", board |-> b, pos |-> n]]
                /\ item' = [item EXCEPT ![i] = [st |-> "live", lane |-> k]]
           /\ req' = Disturbed(c, b)
  <2>1. PICK k \in FreshLanes, i \in NewItems :
          /\ lane' = [lane EXCEPT ![k] = [st |-> "live", board |-> b, pos |-> n]]
          /\ item' = [item EXCEPT ![i] = [st |-> "live", lane |-> k]]
    BY <1>5
  <2>2. /\ req'[c] = Idle /\ req' \in [Clients -> Request]
        /\ \A d \in Clients \ {c} :
             req'[d] = IF req[d].board = b THEN [req[d] EXCEPT !.calm = FALSE] ELSE req[d]
    BY <1>1, <1>5, DisturbStep
  <2> HIDE DEF b, n, l
  <2>3. /\ k \in Lanes /\ lane[k].st = "new"
        /\ lane' \in [Lanes -> LaneRow] /\ LanesStay
        /\ lane'[k].st = "live" /\ lane'[k].board = b
        /\ \A j \in Lanes : j # k => lane'[j] = lane[j]
        /\ \A e : LanesIn(lane', e) = IF e = b THEN LanesIn(lane, b) \cup {k} ELSE LanesIn(lane, e)
        /\ \A e : e # b => LanesSame(e)
    BY <1>1, <1>2, <2>1, NewLane
  <2>4. item' \in [Items -> ItemRow] /\ TrashStays /\ TrashKept'
    BY <1>1, <2>1, <2>3, NewItem
  <2>5. \A d \in Clients \ {c} : Aside(d)
    BY <2>2, <2>3 DEF Aside
  <2>6. TypeOK' /\ AnswersFiled'
    BY <1>1, <2>2, <2>3, <2>4 DEF LayoutInv, TypeOK, AnswersFiled
  <2>7. OnMadeBoards'
    BY <1>1, <1>5, <2>3 DEF LayoutInv, OnMadeBoards
  <2>8. LastOnesKept'
    <3>1. LiveBoards' = LiveBoards /\ \A e : LanesOf(e) \subseteq LanesOf(e)'
      BY <1>1, <2>3 DEF LiveBoards, LanesOf, LanesIn
    <3>2. QED
      BY <1>1, <3>1 DEF LayoutInv, LastOnesKept
  <2>9. QED
    BY <1>1, <2>2, <2>3, <2>4, <2>5, <2>6, <2>7, <2>8, WriteKeepsInv
<1>6. QED
  BY <1>3, <1>4, <1>5 DEF CommitImport

LEMMA AbortInv ==
    ASSUME LayoutInv, NEW c \in Clients, Abort(c)
    PROVE  LayoutInv'
BY DoneKeepsInv DEF Abort

-----------------------------------------------------------------------------
(* The invariant *)

LEMMA InitInv ==
    ASSUME Init
    PROVE  LayoutInv
<1>1. PICK s \in Starts :
        /\ kind = s.kind
        /\ board = [b \in Boards |-> IF b \in s.boards THEN "live" ELSE "new"]
        /\ lane = [l \in Lanes |-> IF s.on[l] = 0 THEN [st |-> "new", board |-> 1, pos |-> 0] ELSE
                     [st |-> "live", board |-> s.on[l],
                      pos |-> Cardinality({k \in Lanes : k < l /\ s.on[k] = s.on[l]})]]
  BY DEF Init
<1>2. /\ item = [i \in Items |-> [st |-> "new", lane |-> 1]]
      /\ req = [c \in Clients |-> Idle]
      /\ started = 0 /\ raced = FALSE /\ late = {} /\ unfiled = FALSE
  BY DEF Init
<1> HIDE DEF Init
<1>3. /\ s.kind \in {"boards", "funnels"} /\ s.boards \subseteq Boards
      /\ \A l \in Lanes : s.on[l] \in Boards \cup {0}
      /\ {s.on[l] : l \in Lanes} \ {0} = s.boards
      /\ s.kind = "boards" => s.boards # {}
  BY LayoutConstants
<1>4. 1 \in Boards /\ 1 \in Lanes /\ 0 \notin Boards /\ IsFiniteSet(Lanes)
  BY LayoutConstants, FS_Interval DEF Boards, Lanes
<1>5. \A l \in Lanes : Cardinality({k \in Lanes : k < l /\ s.on[k] = s.on[l]}) \in Nat
  <2> TAKE l \in Lanes
  <2>1. {k \in Lanes : k < l /\ s.on[k] = s.on[l]} \subseteq Lanes
    OBVIOUS
  <2>2. QED
    BY <1>4, <2>1, FS_Subset, FS_CardinalityType
<1>6. \A l \in Lanes :
        /\ lane[l] \in LaneRow
        /\ lane[l].st = IF s.on[l] = 0 THEN "new" ELSE "live"
        /\ s.on[l] # 0 => lane[l].board = s.on[l]
  <2> TAKE l \in Lanes
  <2> DEFINE p == Cardinality({k \in Lanes : k < l /\ s.on[k] = s.on[l]})
  <2>1. p \in Nat /\ s.on[l] \in Boards \cup {0}
    BY <1>3, <1>5
  <2>2. lane[l] = IF s.on[l] = 0 THEN [st |-> "new", board |-> 1, pos |-> 0]
                  ELSE [st |-> "live", board |-> s.on[l], pos |-> p]
    BY <1>1
  <2> HIDE DEF p
  <2>3. QED
    BY <1>4, <2>1, <2>2 DEF LaneRow
<1>7. lane \in [Lanes -> LaneRow]
  BY <1>1, <1>6
<1>8. /\ board \in [Boards -> {"new", "live", "gone"}]
      /\ \A b \in Boards : board[b] = IF b \in s.boards THEN "live" ELSE "new"
  BY <1>1
<1>9. item \in [Items -> ItemRow] /\ \A i \in Items : item[i].st = "new"
  BY <1>2, <1>4 DEF ItemRow
<1>10. req \in [Clients -> Request] /\ \A c \in Clients : req[c] = Idle
  BY <1>2, IdleOK
<1>11. TypeOK
  BY <1>1, <1>2, <1>3, <1>7, <1>8, <1>9, <1>10 DEF TypeOK
<1>12. OnMadeBoards
  BY <1>3, <1>6, <1>8 DEF OnMadeBoards
<1>13. LastOnesKept
  <2>1. LiveBoards = s.boards
    BY <1>3, <1>8 DEF LiveBoards
  <2>2. ASSUME NEW b \in s.boards PROVE LanesOf(b) # {}
    <3>1. PICK l \in Lanes : s.on[l] = b /\ b # 0
      BY <1>3
    <3>2. QED
      BY <1>6, <3>1 DEF LanesOf
  <2>3. QED
    BY <1>1, <1>3, <2>1, <2>2 DEF LastOnesKept
<1>14. AnswersFiled /\ TrashKept
  BY <1>2, <1>9 DEF AnswersFiled, TrashKept
<1>15. QED
  BY <1>10, <1>11, <1>12, <1>13, <1>14, IdleOK DEF LayoutInv

LEMMA StutterInv ==
    ASSUME LayoutInv, UNCHANGED vars
    PROVE  LayoutInv'
BY DEF LayoutInv, TypeOK, OnMadeBoards, LastOnesKept, AnswersFiled, TrashKept, RequestOK,
       LiveBoards, LanesOf, vars, rows

LEMMA NextInv ==
    ASSUME LayoutInv, [Next]_vars
    PROVE  LayoutInv'
<1>1. CASE UNCHANGED vars
  BY <1>1, StutterInv
<1>2. ASSUME NEW c \in Clients, DeleteLane(c) PROVE LayoutInv'
  BY <1>2, StartDeleteInv, CountLanesInv, CountTrashInv, DropLaneInv, ReadRemainingInv,
     CommitDeleteInv, DeadlockVictimInv DEF DeleteLane
<1>3. ASSUME NEW c \in Clients, ArrangeLane(c) PROVE LayoutInv'
  BY <1>3, StartMoveInv, ReadLanesInv, CommitMoveInv, StartLaneInv, ReadLastInv, InsertLaneInv
     DEF ArrangeLane
<1>4. ASSUME NEW c \in Clients, BoardOf(c) PROVE LayoutInv'
  BY <1>4, CreateBoardInv, ListFunnelsInv, MakeDefaultInv, StartUnboardInv, CountBoardsInv,
     DeleteBoardInv DEF BoardOf
<1>5. ASSUME NEW c \in Clients, ItemOf(c) PROVE LayoutInv'
  BY <1>5, StartAddInv, AddItemInv, StartItemInv, ChangeItemInv DEF ItemOf
<1>6. ASSUME NEW c \in Clients, Inflow(c) PROVE LayoutInv'
  BY <1>6, SubmitInv, PickColumnInv, StartImportInv, ReadColumnsInv, CommitImportInv DEF Inflow
<1>7. QED
  BY <1>1, <1>2, <1>3, <1>4, <1>5, <1>6, AbortInv DEF Next

\* The types of all variables, what a request relies on at each of its stages,
\* and the three properties below, which hold together or not at all.
THEOREM LayoutInvariant == Spec => []LayoutInv
<1>1. Init => LayoutInv
  BY InitInv
<1>2. LayoutInv /\ [Next]_vars => LayoutInv'
  BY NextInv
<1>3. QED
  BY <1>1, <1>2, PTL DEF Spec

\* In particular no position of a column or stage is ever negative.
THEOREM LayoutTypeCorrect == Spec => []TypeOK
<1>1. LayoutInv => TypeOK
  BY DEF LayoutInv
<1>2. QED
  BY <1>1, LayoutInvariant, PTL

\* deleteColumn, deleteStage and deleteBoard count before they delete, outside
\* of the transaction: a board loses its last column, or a workspace its last
\* board, only to a request whose count was too high when it was acted upon.
THEOREM LastOnesAreKept == Spec => []LastOnesKept
<1>1. LayoutInv => LastOnesKept
  BY DEF LayoutInv
<1>2. QED
  BY <1>1, LayoutInvariant, PTL

\* A column that has items in the trash is not deleted: what is deleted from the
\* trash along with its column came there while the deletion was under way.
THEOREM TrashIsKept == Spec => []TrashKept
<1>1. LayoutInv => TrashKept
  BY DEF LayoutInv
<1>2. QED
  BY <1>1, LayoutInvariant, PTL

\* submitPublicForm finds a column for the task of every answer, as long as no
\* deletions overlapped.
THEOREM AnswersAreFiled == Spec => []AnswersFiled
<1>1. LayoutInv => AnswersFiled
  BY DEF LayoutInv
<1>2. QED
  BY <1>1, LayoutInvariant, PTL

-----------------------------------------------------------------------------
(* What a deletion and a move leave behind *)

\* The places of a list without repetitions are 0, 1, 2, ...
LEMMA PlacesOfOrder ==
    ASSUME NEW r \in Request, Distinct(r.order), NEW K, K = ToSet(r.order)
    PROVE  {Place(r, k) : k \in K} = 0 .. Cardinality(K) - 1
<1> DEFINE q == r.order
           m == Len(q)
<1>1. q \in Seq(Lanes) /\ m \in Nat /\ DOMAIN q = 1 .. m /\ q \in [1 .. m -> Lanes]
  BY DEF Request
<1>2. q \in Bijection(1 .. m, K)
  BY <1>1 DEF Distinct, ToSet, Bijection, Injection, IsInjective, Surjection
<1>3. Cardinality(K) = m
  <2>1. IsFiniteSet(1 .. m) /\ Cardinality(1 .. m) = m
    BY <1>1, FS_Interval
  <2>2. QED
    BY <1>2, <2>1, FS_Bijection DEF ExistsBijection
<1>4. \A k \in K : Index(q, k) \in 1 .. m
  BY <1>1, IndexOfItem
<1>5. \A i \in 1 .. m : q[i] \in K /\ Index(q, q[i]) = i
  BY <1>1, IndexOfPlace DEF ToSet
<1> HIDE DEF q, m
<1>6. \A k \in K : Place(r, k) = Index(q, k) - 1
  BY DEF Place, q
<1>7. ASSUME NEW x \in 0 .. m - 1 PROVE \E k \in K : Place(r, k) = x
  <2>1. x + 1 \in 1 .. m /\ (x + 1) - 1 = x
    BY <1>1
  <2>2. q[x + 1] \in K /\ Index(q, q[x + 1]) = x + 1
    BY <1>5, <2>1
  <2>3. QED
    BY <1>6, <2>1, <2>2
<1>8. \A k \in K : Place(r, k) \in 0 .. m - 1
  BY <1>1, <1>4, <1>6
<1>9. QED
  BY <1>3, <1>7, <1>8

\* A request that is not overtaken writes the order it has read the lanes for.
LEMMA CommitDeleteMends ==
    ASSUME LayoutInv, NEW c \in Clients, CommitDelete(c), req[c].calm, lane' # lane,
           NEW b, NEW l, NEW n, b = req[c].board, l = req[c].lane, n = req[c].n
    PROVE  Mended(b, l, n, FALSE)
<1> DEFINE r == req[c]
           all == (kind = "funnels")
           v == Renumbered(r, Written(r, all))
           others == LanesOf(b) \ {l}
<1>1. TypeOK /\ r \in Request /\ RequestOK(r) /\ r.pc = "renumber" /\ lane' = [v EXCEPT ![l].st = "gone"]
  BY DEF LayoutInv, TypeOK, CommitDelete, At
<1>2. /\ v \in [Lanes -> LaneRow]
      /\ \A k \in Lanes : v[k].st = lane[k].st /\ v[k].board = lane[k].board
      /\ \A k \in ToSet(r.order) :
           lane[k].st = "live" /\ r.seen[k] = lane[k].pos => v[k].pos = Place(r, k)
  BY <1>1, RenumberedLanes
<1>3. OrderFresh(r, lane) /\ LanesOf(b) = LanesIn(lane, b)
  BY <1>1, LaneFacts DEF RequestOK, CalmOK, OrderedPC
<1>4. /\ Distinct(r.order) /\ ToSet(r.order) = others
      /\ \A k \in LanesOf(b) : r.seen[k] = lane[k].pos
      /\ \A j, k \in others : lane[j].pos < lane[k].pos => Place(r, j) < Place(r, k)
  BY <1>1, <1>3 DEF OrderFresh, Distinct
<1>5. l \in Lanes /\ lane[l].board = b
  BY <1>1 DEF RequestOK, Formed, MadeOn, DeletePC
<1> HIDE DEF v, r, all
<1>6. \A k \in Lanes : /\ lane'[k].board = lane[k].board
                       /\ lane'[k].st = IF k = l THEN "gone" ELSE lane[k].st
                       /\ k # l => lane'[k].pos = v[k].pos
  BY <1>1, <1>2, <1>5 DEF LaneRow
<1>7. LanesOf(b)' = others
  BY <1>5, <1>6 DEF LanesOf
<1>8. \A k \in others : lane'[k].pos = Place(r, k)
  BY <1>2, <1>4, <1>6 DEF LanesOf
<1>9. {Place(r, k) : k \in others} = 0 .. Cardinality(others) - 1
  BY <1>1, <1>4, PlacesOfOrder
<1>10. others \subseteq Lanes
  BY DEF LanesOf
<1> DEFINE after == [k \in Lanes |-> lane'[k].pos]
<1> HIDE DEF others
<1>11. \A k \in others : after[k] = Place(r, k)
  BY <1>8, <1>10
<1> HIDE DEF after
<1>12. {after[k] : k \in others} = 0 .. Cardinality(others) - 1
  BY <1>9, <1>11
<1>13. \A j, k \in others : lane[j].pos < lane[k].pos => after[j] < after[k]
  BY <1>4, <1>11
<1>14. QED
  BY <1>7, <1>12, <1>13 DEF Mended, others, after

LEMMA CommitMoveMends ==
    ASSUME LayoutInv, NEW c \in Clients, CommitMove(c), req[c].calm,
           NEW b, NEW l, NEW n, b = req[c].board, l = req[c].lane, n = req[c].n
    PROVE  Mended(b, l, n, TRUE)
<1> DEFINE r == req[c]
           v == Renumbered(r, Written(r, FALSE))
           L == LanesOf(b)
           others == L \ {l}
<1>1. TypeOK /\ r \in Request /\ RequestOK(r) /\ r.pc = "reorder" /\ lane' = v
  BY DEF LayoutInv, TypeOK, CommitMove, At
<1>2. /\ v \in [Lanes -> LaneRow]
      /\ \A k \in Lanes : v[k].st = lane[k].st /\ v[k].board = lane[k].board
      /\ \A k \in ToSet(r.order) :
           lane[k].st = "live" /\ r.seen[k] = lane[k].pos => v[k].pos = Place(r, k)
  BY <1>1, RenumberedLanes
<1>3. OrderFresh(r, lane) /\ L = LanesIn(lane, b)
  BY <1>1, LaneFacts DEF RequestOK, CalmOK, OrderedPC
<1>4. /\ Distinct(r.order) /\ ToSet(r.order) = L /\ l \in L
      /\ \A k \in L : r.seen[k] = lane[k].pos
      /\ \A j, k \in others : lane[j].pos < lane[k].pos => Place(r, j) < Place(r, k)
      /\ Place(r, l) = IF r.n < Cardinality(others) THEN r.n ELSE Cardinality(others)
  BY <1>1, <1>3 DEF OrderFresh, Distinct
<1> HIDE DEF v, r
<1>5. LanesOf(b)' = LanesOf(b)
  BY <1>1, <1>2 DEF LanesOf
<1>6. \A k \in L : lane'[k].pos = Place(r, k) /\ k \in Lanes
  BY <1>1, <1>2, <1>4 DEF LanesOf
<1>7. {Place(r, k) : k \in L} = 0 .. Cardinality(L) - 1
  BY <1>1, <1>4, PlacesOfOrder
<1>8. others \cup {l} = L
  BY <1>4
<1> DEFINE after == [k \in Lanes |-> lane'[k].pos]
<1>9. \A k \in L : after[k] = Place(r, k)
  BY <1>6
<1> HIDE DEF after, L
<1>10. {after[k] : k \in L} = 0 .. Cardinality(L) - 1
  BY <1>7, <1>9
<1>11. \A j, k \in others : lane[j].pos < lane[k].pos => after[j] < after[k]
  BY <1>4, <1>9
<1> HIDE DEF others
<1>12. after[l] = IF n < Cardinality(others) THEN n ELSE Cardinality(others)
  BY <1>4, <1>9 DEF r
<1>13. LanesOf(b)' = others \cup {l}
  BY <1>5, <1>8 DEF L
<1>14. {after[k] : k \in others \cup {l}} = 0 .. Cardinality(others \cup {l}) - 1
  BY <1>8, <1>10
<1>15. QED
  BY <1>11, <1>12, <1>13, <1>14 DEF Mended, others, after, L

\* Seven actions change lanes.
LEMMA LaneWriters ==
    ASSUME Next, lane' # lane
    PROVE  \E c \in Clients : \/ CommitDelete(c) \/ CommitMove(c) \/ InsertLane(c) \/ CreateBoard(c)
                              \/ MakeDefault(c) \/ DeleteBoard(c) \/ CommitImport(c)
<1>1. PICK c \in Clients : \/ DeleteLane(c) \/ ArrangeLane(c) \/ BoardOf(c) \/ ItemOf(c)
                           \/ Inflow(c) \/ Abort(c)
  BY DEF Next
<1>2. CASE DeleteLane(c)
  BY <1>2 DEF DeleteLane, StartDelete, Start, CountLanes, CountTrash, DropLane, ReadRemaining,
              DeadlockVictim, rows
<1>3. CASE ArrangeLane(c)
  BY <1>3 DEF ArrangeLane, StartMove, Start, ReadLanes, StartLane, ReadLast, rows
<1>4. CASE BoardOf(c)
  BY <1>4 DEF BoardOf, ListFunnels, Start, StartUnboard, CountBoards, rows
<1>5. CASE ItemOf(c)
  BY <1>5 DEF ItemOf, StartAdd, Start, AddItem, StartItem, ChangeItem, rows
<1>6. CASE Inflow(c)
  BY <1>6 DEF Inflow, Submit, Start, PickColumn, StartImport, ReadColumns, rows
<1>7. CASE Abort(c)
  BY <1>7 DEF Abort, rows
<1>8. QED
  BY <1>1, <1>2, <1>3, <1>4, <1>5, <1>6, <1>7

\* Nobody else ends the request of c.
LEMMA StageStays ==
    ASSUME TypeOK, NEW c \in Clients, NEW d \in Clients, d # c,
           Done(d) \/ (\E b : req' = Disturbed(d, b)) \/ req' = req
    PROVE  req'[c].pc = req[c].pc
<1>1. CASE Done(d)
  BY <1>1, DoneStep
<1>2. CASE \E b : req' = Disturbed(d, b)
  <2>1. PICK b : req' = Disturbed(d, b)
    BY <1>2
  <2>2. req'[c] = IF req[c].board = b THEN [req[c] EXCEPT !.calm = FALSE] ELSE req[c]
    BY <2>1, DisturbStep
  <2>3. QED
    BY <2>2 DEF TypeOK, Request
<1>3. QED
  BY <1>1, <1>2

LEMMA WritersAre ==
    ASSUME LayoutInv, Next, NEW c \in Clients, Undisturbed(c)
    PROVE  CommitDelete(c) \/ CommitMove(c)
<1>1. TypeOK /\ lane' # lane /\ req'[c].pc = "idle" /\ req[c].pc \in OrderedPC
  BY DEF LayoutInv, Undisturbed, Idle, OrderedPC
<1>2. PICK d \in Clients :
        \/ CommitDelete(d) \/ CommitMove(d) \/ InsertLane(d) \/ CreateBoard(d)
        \/ MakeDefault(d) \/ DeleteBoard(d) \/ CommitImport(d)
  BY <1>1, LaneWriters
<1>3. Done(d) \/ (\E b : req' = Disturbed(d, b)) \/ req' = req
  BY <1>2 DEF CommitDelete, CommitMove, InsertLane, CreateBoard, MakeDefault, DeleteBoard,
              CommitImport
<1>4. d = c
  BY <1>1, <1>3, StageStays DEF OrderedPC
<1>5. QED
  BY <1>1, <1>2, <1>4
     DEF InsertLane, CreateBoard, MakeDefault, DeleteBoard, CommitImport, At, OrderedPC

\* deleteColumn, deleteStage, moveColumn and moveStage number the lanes of their
\* board anew in every case in which nobody else has changed them meanwhile: no
\* gap and no doubled position survives, wherever it came from.
THEOREM OrderIsMended == Spec => Mends
<1> DEFINE A == \A c \in Clients, b \in Boards, l \in Lanes, n \in 0 .. MaxLanes :
                  Undisturbed(c) /\ b = req[c].board /\ l = req[c].lane /\ n = req[c].n =>
                    Mended(b, l, n, At(c, "reorder"))
<1>1. ASSUME LayoutInv, Next PROVE A
  <2>1. SUFFICES ASSUME NEW c \in Clients, Undisturbed(c), NEW b, NEW l, NEW n,
                        b = req[c].board, l = req[c].lane, n = req[c].n
                 PROVE  Mended(b, l, n, At(c, "reorder"))
    OBVIOUS
  <2>2. req[c].calm /\ lane' # lane
    BY <2>1 DEF Undisturbed
  <2>3. CASE CommitDelete(c)
    <3>1. Mended(b, l, n, FALSE) /\ At(c, "reorder") = FALSE
      BY <1>1, <2>1, <2>2, <2>3, CommitDeleteMends DEF CommitDelete, At
    <3>2. QED
      BY <3>1
  <2>4. CASE CommitMove(c)
    <3>1. Mended(b, l, n, TRUE) /\ At(c, "reorder") = TRUE
      BY <1>1, <2>1, <2>2, <2>4, CommitMoveMends DEF CommitMove, At
    <3>2. QED
      BY <3>1
  <2>5. QED
    BY <1>1, <2>1, <2>3, <2>4, WritersAre
<1>2. LayoutInv /\ [Next]_vars => [A]_vars
  BY <1>1
<1> HIDE DEF A
<1>3. Spec => [][A]_vars
  BY <1>2, LayoutInvariant, PTL DEF Spec
<1>4. QED
  BY <1>3 DEF A, Mends

=============================================================================
