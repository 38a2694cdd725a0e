-------------------------- MODULE BoardOrder_proofs --------------------------
(* Positions of the tasks in their columns: they are typed, in particular     *)
(* never negative, and distinct where no request was overtaken; a request     *)
(* that nobody overtakes keeps the order of the tasks it does not move and    *)
(* puts the task it moves where it was asked to.                              *)
EXTENDS BoardOrder, FiniteSetTheorems, SequenceTheorems, TLAPS

-----------------------------------------------------------------------------
(* Orders of tasks *)

\* A list without repetitions.
Distinct(q) == \A i, j \in DOMAIN q : i # j => q[i] # q[j]

\* As many different members of S as S has list all of S.
LEMMA ListsAll ==
    ASSUME NEW S, IsFiniteSet(S), NEW q \in [1 .. Cardinality(S) -> S],
           \A i, j \in DOMAIN q : i < j => q[i] # q[j]
    PROVE  /\ q \in Seq(S) /\ DOMAIN q = 1 .. Len(q) /\ Len(q) \in Nat
           /\ Len(q) = Cardinality(S) /\ Items(q) = S /\ Distinct(q)
<1> DEFINE n == Cardinality(S)
<1>1. n \in Nat
  BY FS_CardinalityType
<1>2. q \in Seq(S) /\ Len(q) = n /\ DOMAIN q = 1 .. n
  BY <1>1
<1>3. Distinct(q)
  <2> SUFFICES ASSUME NEW i \in 1 .. n, NEW j \in 1 .. n, i # j PROVE q[i] # q[j]
    BY <1>2 DEF Distinct
  <2>1. i < j \/ j < i
    BY <1>1
  <2>2. QED
    BY <1>2, <2>1
<1>4. q \in Injection(1 .. n, S)
  BY <1>2, <1>3 DEF Distinct, Injection, IsInjective
<1>5. IsFiniteSet(1 .. n) /\ Cardinality(1 .. n) = n
  BY <1>1, FS_Interval
<1>6. q \in Surjection(1 .. n, S)
  BY <1>4, <1>5, FS_Injection
<1>7. Items(q) = S
  BY <1>2, <1>6 DEF Surjection, Items
<1>8. QED
  BY <1>1, <1>2, <1>3, <1>7

\* What `orderBy: position` returns lists the tasks of S, each once, by position.
LEMMA SortedLists ==
    ASSUME NEW S, IsFiniteSet(S), NEW v, NEW q \in Sorted(v, S)
    PROVE  /\ q \in Seq(S) /\ DOMAIN q = 1 .. Len(q) /\ Len(q) \in Nat
           /\ Items(q) = S /\ Distinct(q)
           /\ \A i, j \in DOMAIN q : i < j => v[q[i]].pos <= v[q[j]].pos
<1>1. /\ q \in [1 .. Cardinality(S) -> S]
      /\ \A i, j \in DOMAIN q : i < j => q[i] # q[j] /\ v[q[i]].pos <= v[q[j]].pos
  BY DEF Sorted
<1>2. QED
  BY <1>1, ListsAll

\* IndexOf is the place of a task, counted from 0.
LEMMA IndexOfItem ==
    ASSUME NEW S, NEW q \in Seq(S), NEW t \in Items(q)
    PROVE  /\ IndexOf(q, t) \in Nat /\ IndexOf(q, t) < Len(q)
           /\ IndexOf(q, t) + 1 \in DOMAIN q
           /\ q[IndexOf(q, t) + 1] = t
<1>1. DOMAIN q = 1 .. Len(q) /\ Len(q) \in Nat
  OBVIOUS
<1>2. \E i \in DOMAIN q : q[i] = t
  BY DEF Items
<1> DEFINE i == CHOOSE k \in DOMAIN q : q[k] = t
<1>3. i \in DOMAIN q /\ q[i] = t
  BY <1>2
<1>4. IndexOf(q, t) = i - 1
  BY DEF IndexOf
<1> HIDE DEF i
<1>5. QED
  BY <1>1, <1>3, <1>4

\* In a list without repetitions the place of the task at i is i.
LEMMA IndexOfPlace ==
    ASSUME NEW S, NEW q \in Seq(S), Distinct(q), NEW i \in DOMAIN q
    PROVE  q[i] \in Items(q) /\ IndexOf(q, q[i]) = i - 1
<1>1. q[i] \in Items(q)
  BY DEF Items
<1>2. IndexOf(q, q[i]) + 1 = i
  BY <1>1, IndexOfItem DEF Distinct
<1>3. DOMAIN q = 1 .. Len(q)
  OBVIOUS
<1>4. QED
  BY <1>1, <1>2, <1>3, IndexOfItem

\* Different tasks have different places.
LEMMA IndexOfDiffers ==
    ASSUME NEW S, NEW q \in Seq(S), NEW t \in Items(q), NEW u \in Items(q), t # u
    PROVE  IndexOf(q, t) # IndexOf(q, u)
BY IndexOfItem

\* splice puts t at the index asked for, or at the end, and keeps the order of
\* the others.
LEMMA SplicedLists ==
    ASSUME NEW S, NEW q \in Seq(S), Distinct(q), NEW p \in Nat, NEW t \in S, t \notin Items(q)
    PROVE  LET s == Spliced(q, p, t) IN
           /\ s \in Seq(S) /\ Len(s) = Len(q) + 1 /\ Distinct(s)
           /\ Items(s) = Items(q) \cup {t}
           /\ IndexOf(s, t) = IF p <= Len(q) THEN p ELSE Len(q)
           /\ \A u, w \in Items(q) :
                IndexOf(s, u) < IndexOf(s, w) <=> IndexOf(q, u) < IndexOf(q, w)
<1> DEFINE m == Len(q)
           n == IF p <= m THEN p ELSE m
           s == Spliced(q, p, t)
           a == SubSeq(q, 1, n)
           b == SubSeq(q, n + 1, m)
           at(i) == IF i <= n THEN i ELSE i + 1
<1>1. m \in Nat /\ n \in Nat /\ n <= m /\ DOMAIN q = 1 .. m /\ \A i \in 1 .. m : q[i] \in S
  OBVIOUS
<1>2. a \in Seq(S) /\ Len(a) = n /\ \A i \in 1 .. n : a[i] = q[i]
  BY <1>1, SubSeqProperties
<1>3. b \in Seq(S) /\ Len(b) = m - n /\ \A i \in 1 .. m - n : b[i] = q[n + i]
  <2>1. n + 1 \in Int /\ m \in Int /\ \A i \in n + 1 .. m : q[i] \in S
    BY <1>1
  <2> HIDE DEF n, m
  <2>2. /\ b \in Seq(S) /\ Len(b) = IF n + 1 <= m THEN m - (n + 1) + 1 ELSE 0
        /\ \A i \in 1 .. m - (n + 1) + 1 : b[i] = q[(n + 1) + i - 1]
    BY <2>1, SubSeqProperties
  <2>3. m - (n + 1) + 1 = m - n /\ \A i \in 1 .. m - n : (n + 1) + i - 1 = n + i
    BY <1>1
  <2>4. QED
    BY <1>1, <2>2, <2>3
<1>4. s = a \o <<t>> \o b
  BY <1>1 DEF Spliced
<1> HIDE DEF n, a, b
<1>5. /\ a \o <<t>> \in Seq(S) /\ Len(a \o <<t>>) = n + 1
      /\ (a \o <<t>>)[n + 1] = t /\ \A i \in 1 .. n : (a \o <<t>>)[i] = q[i]
  BY <1>1, <1>2
<1>6. /\ s \in Seq(S) /\ Len(s) = m + 1
      /\ \A i \in 1 .. m + 1 : s[i] = IF i <= n + 1 THEN (a \o <<t>>)[i] ELSE b[i - (n + 1)]
  <2> DEFINE h == a \o <<t>>
  <2>1. h \in Seq(S) /\ Len(h) = n + 1
    BY <1>5
  <2>2. s = h \o b
    BY <1>4
  <2> HIDE DEF h, s
  <2>3. /\ h \o b \in Seq(S) /\ Len(h \o b) = Len(h) + Len(b)
        /\ \A i \in 1 .. Len(h) + Len(b) : (h \o b)[i] = IF i <= Len(h) THEN h[i] ELSE b[i - Len(h)]
    BY <1>3, <2>1, ConcatProperties
  <2>4. Len(h) + Len(b) = m + 1
    BY <1>1, <1>3, <2>1
  <2>5. s \in Seq(S) /\ Len(s) = m + 1
        /\ \A i \in 1 .. m + 1 : s[i] = IF i <= n + 1 THEN h[i] ELSE b[i - (n + 1)]
    BY <2>1, <2>2, <2>3, <2>4
  <2>6. QED
    BY <2>5 DEF h
<1> HIDE DEF s
<1>7. s[n + 1] = t /\ \A i \in 1 .. m : at(i) \in 1 .. m + 1 /\ s[at(i)] = q[i]
  <2>1. s[n + 1] = t
    BY <1>1, <1>5, <1>6
  <2>2. ASSUME NEW i \in 1 .. m, i <= n PROVE s[at(i)] = q[i]
    <3>1. i \in 1 .. n /\ i \in 1 .. m + 1 /\ i <= n + 1 /\ at(i) = i
      BY <1>1, <2>2
    <3> HIDE DEF at
    <3>2. s[i] = (a \o <<t>>)[i] /\ (a \o <<t>>)[i] = q[i]
      BY <1>5, <1>6, <3>1
    <3>3. QED
      BY <3>1, <3>2
  <2>3. ASSUME NEW i \in 1 .. m, ~(i <= n) PROVE s[at(i)] = q[i]
    <3>1. i + 1 \in 1 .. m + 1 /\ ~(i + 1 <= n + 1) /\ (i + 1) - (n + 1) = i - n /\ i - n \in 1 .. m - n
      BY <1>1, <2>3
    <3>2. s[i + 1] = b[i - n]
      BY <1>6, <3>1
    <3>3. b[i - n] = q[n + (i - n)]
      BY <1>3, <3>1
    <3>4. QED
      BY <1>1, <2>3, <3>2, <3>3
  <2>4. QED
    BY <1>1, <2>1, <2>2, <2>3
<1>8. \A k \in 1 .. m + 1 : k = n + 1 \/ \E i \in 1 .. m : k = at(i)
  <2> TAKE k \in 1 .. m + 1
  <2>1. CASE k <= n
    BY <1>1, <2>1
  <2>2. CASE k > n + 1
    <3>1. k - 1 \in 1 .. m /\ at(k - 1) = k
      BY <1>1, <2>2
    <3>2. QED
      BY <3>1
  <2>3. QED
    BY <1>1, <2>1, <2>2
<1>9. \A i, j \in 1 .. m : i < j <=> at(i) < at(j)
  BY <1>1
<1> HIDE DEF at
<1>10. \A i \in 1 .. m : q[i] # t /\ q[i] \in Items(q)
  BY <1>1 DEF Items
<1>11. Distinct(s)
  <2> SUFFICES ASSUME NEW k \in 1 .. m + 1, NEW l \in 1 .. m + 1, k # l PROVE s[k] # s[l]
    BY <1>6 DEF Distinct
  <2>1. CASE k = n + 1
    BY <1>7, <1>8, <1>10, <2>1
  <2>2. CASE l = n + 1
    BY <1>7, <1>8, <1>10, <2>2
  <2>3. CASE k # n + 1 /\ l # n + 1
    <3>1. PICK i \in 1 .. m, j \in 1 .. m : k = at(i) /\ l = at(j)
      BY <1>8, <2>3
    <3>2. i # j /\ s[k] = q[i] /\ s[l] = q[j]
      BY <1>7, <3>1
    <3>3. QED
      BY <1>1, <3>2 DEF Distinct
  <2>4. QED
    BY <2>1, <2>2, <2>3
<1>12. DOMAIN s = 1 .. m + 1
  BY <1>6
<1>13. Items(s) = Items(q) \cup {t}
  <2>1. t \in Items(s)
    BY <1>1, <1>7, <1>12 DEF Items
  <2>2. ASSUME NEW i \in 1 .. m PROVE q[i] \in Items(s)
    BY <1>7, <1>12 DEF Items
  <2>3. ASSUME NEW k \in 1 .. m + 1 PROVE s[k] \in Items(q) \cup {t}
    BY <1>7, <1>8, <1>10
  <2>4. QED
    BY <1>1, <1>12, <2>1, <2>2, <2>3 DEF Items
<1>14. IndexOf(s, t) = n
  <2>1. n + 1 \in DOMAIN s /\ s[n + 1] = t
    BY <1>1, <1>7, <1>12
  <2>2. IndexOf(s, s[n + 1]) = (n + 1) - 1
    BY <1>6, <1>11, <2>1, IndexOfPlace
  <2>3. QED
    BY <1>1, <2>1, <2>2
<1>15. ASSUME NEW u \in Items(q)
       PROVE  /\ IndexOf(q, u) + 1 \in 1 .. m /\ IndexOf(q, u) \in Nat
              /\ IndexOf(s, u) = at(IndexOf(q, u) + 1) - 1 /\ IndexOf(s, u) \in Int
  <2>1. PICK i \in 1 .. m : u = q[i]
    BY <1>1 DEF Items
  <2>2. IndexOf(q, u) = i - 1
    BY <1>1, <2>1, IndexOfPlace
  <2>3. IndexOf(s, u) = at(i) - 1
    BY <1>6, <1>7, <1>11, <1>12, <2>1, IndexOfPlace
  <2>4. at(i) \in 1 .. m + 1
    BY <1>7
  <2>5. QED
    BY <1>1, <2>2, <2>3, <2>4
<1>16. ASSUME NEW u \in Items(q), NEW w \in Items(q)
       PROVE  IndexOf(s, u) < IndexOf(s, w) <=> IndexOf(q, u) < IndexOf(q, w)
  <2>1. /\ at(IndexOf(q, u) + 1) \in 1 .. m + 1 /\ at(IndexOf(q, w) + 1) \in 1 .. m + 1
        /\ (IndexOf(q, u) + 1 < IndexOf(q, w) + 1 <=> at(IndexOf(q, u) + 1) < at(IndexOf(q, w) + 1))
    BY <1>7, <1>9, <1>15
  <2>2. QED
    BY <1>1, <1>15, <2>1
<1>17. QED
  BY <1>6, <1>11, <1>13, <1>14, <1>16 DEF n, s

-----------------------------------------------------------------------------
(* The inductive invariant *)

\* The rows an open transaction of c has written.
Own(c) == {t \in Tasks : owner[t] = c}

\* Row t as row `new` has it, but for the position.
SamePlace(new, old) == new.status = old.status /\ new.col = old.col

\* A restored task is not live yet, and the position read is still free.
AppendInv(c) == LET r == req[c] IN
    /\ Own(c) = {}
    /\ Isolated(c) =>
         /\ row[r.task].status # "live"
         /\ ~r.new => row[r.task].col = r.to
         /\ \A u \in In(row, r.to) : row[u].pos < r.pos

\* The task is where it was read, and after the first statement in the trash.
RemoveInv(c) == LET r == req[c] IN
    /\ At(c, "delete") => Own(c) = {}
    /\ At(c, "deleteGap") => /\ Own(c) = {r.task}
                             /\ work[r.task] = [row[r.task] EXCEPT !.status = "trashed"]
    /\ Isolated(c) => row[r.task] = [status |-> "live", col |-> r.from, pos |-> r.was]

MoveInv(c) == LET r == req[c] IN
    /\ Own(c) = {}
    /\ At(c, "closeGap") <=> r.from # r.to
    /\ Isolated(c) => row[r.task] = [status |-> "live", col |-> r.from, pos |-> r.was]

\* What the move has written: the gap closed in other columns, space made in
\* the target; if it is alone, exactly behind the task and from the position on.
ShiftInv(c) == LET r == req[c] IN
    /\ \A t \in Own(c) :
         /\ row[t].status = "live" /\ SamePlace(work[t], row[t])
         /\ At(c, "makeSpace") => row[t].col # r.to
         /\ work[t].pos = IF row[t].col = r.to THEN row[t].pos + 1 ELSE row[t].pos - 1
    /\ Isolated(c) =>
         /\ row[r.task].status = "live" /\ row[r.task].col # r.to
         /\ \A t \in Tasks : t \in Own(c) <=>
              \/ t \in GapRows(row, row[r.task].col, row[r.task].pos)
              \/ At(c, "place") /\ t \in SpaceRows(row, r.to, r.pos)

\* The order is one of the whole column, by position but for the moved task,
\* which is at the index asked for.
RenumberInv(c) == LET r == req[c] IN
    /\ Own(c) = {}
    /\ r.changed \subseteq Items(r.order)
    /\ Isolated(c) =>
         /\ Items(r.order) = In(row, r.to) /\ r.task \in In(row, r.to)
         /\ Distinct(r.order)
         /\ r.changed = {t \in In(row, r.to) : row[t].pos # IndexOf(r.order, t)}
         /\ IndexOf(r.order, r.task) = IF r.pos < Len(r.order) THEN r.pos ELSE Len(r.order) - 1
         /\ \A t, u \in In(row, r.to) \ {r.task} :
              row[t].pos < row[u].pos => IndexOf(r.order, t) < IndexOf(r.order, u)

\* Those not moved that share a column keep their order in what c sees.
StayInOrder(c, ids) == \A t, u \in Tasks \ ids :
    /\ row[t].status = "live" /\ row[u].status = "live" /\ row[t].col = row[u].col
    /\ row[t].pos < row[u].pos
    => View(c)[t].pos < View(c)[u].pos

\* A list of those that stay in column k, by position.
StayList(stay, k, ids) ==
    /\ Items(stay) = In(row, k) \ ids
    /\ Distinct(stay)
    /\ \A i, j \in DOMAIN stay : i < j => row[stay[i]].pos <= row[stay[j]].pos

\* The moved tasks are where they were, and not written yet.
BulkMoves(c) == LET r   == req[c]
                    ids == Items(r.ids) IN
    /\ Distinct(r.ids) /\ r.arriving \subseteq ids
    /\ r.to \notin r.sources /\ r.todo \subseteq r.sources
    /\ req[c].pc \in {"bulkLast", "bulkPlace"} => r.todo = {}
    /\ \A t \in ids : /\ row[t].status = "live" /\ t \notin Own(c)
                      /\ row[t].col \in r.sources \cup {r.to}

\* What is written lies in the columns read so far.
BulkWrites(c) == \A t \in Own(c) :
    /\ row[t].status = "live" /\ SamePlace(work[t], row[t])
    /\ row[t].col \in req[c].sources \cup {req[c].to} /\ row[t].col \notin req[c].todo
    /\ row[t].col = req[c].to => At(c, "bulkPlace")

\* The columns read so far are numbered, but for the one whose list is in hand.
BulkNumbers(c) == \A t, u \in Tasks \ Items(req[c].ids) :
    /\ t # u /\ row[t].status = "live" /\ row[u].status = "live"
    /\ row[t].col = row[u].col /\ row[t].col \in req[c].sources \ req[c].todo
    /\ At(c, "bulkWrite") => t \notin Items(req[c].stay)
    => View(c)[t].pos # View(c)[u].pos

\* The list in hand; at last the target is numbered.
BulkList(c) == LET r   == req[c]
                   ids == Items(r.ids) IN
    /\ At(c, "bulkWrite") => /\ \E k \in r.sources \ r.todo : StayList(r.stay, k, ids)
                             /\ Items(r.stay) \cap Own(c) = {}
    /\ At(c, "bulkLast") => StayList(r.stay, r.to, ids)
    /\ At(c, "bulkPlace") => \A t \in In(row, r.to) \ ids :
         /\ View(c)[t].pos < Len(r.stay)
         /\ \A u \in In(row, r.to) \ ids : t # u => View(c)[t].pos # View(c)[u].pos

BulkInv(c) ==
    Isolated(c) => /\ BulkMoves(c) /\ BulkWrites(c) /\ BulkNumbers(c) /\ BulkList(c)
                   /\ StayInOrder(c, Items(req[c].ids))

LandedInv(c) ==
    /\ Own(c) = {}
    /\ Isolated(c) => \A t \in req[c].due : row[t].status = "live"

\* Where the tasks to be put back were read.
Due(c) == \A d \in req[c].due : row[d[1]] = [status |-> "live", col |-> d[2], pos |-> d[3]]

RecurInv(c) == Own(c) = {} /\ (Isolated(c) => Due(c))

\* What a return has written: a gap closed, and perhaps space made again.
ReturnInv(c) == LET r == req[c] IN
    /\ \A t \in Own(c) :
         /\ row[t].status = "live" /\ SamePlace(work[t], row[t])
         /\ work[t].pos \in row[t].pos - 1 .. row[t].pos + 1
         /\ ~At(c, "recurPlace") => work[t].pos = row[t].pos - 1
         /\ \A u \in Own(c) : row[t].col = row[u].col /\ row[t].pos < row[u].pos
                                => work[t].pos <= work[u].pos
    /\ Isolated(c) =>
         /\ row[r.task].status = "live" /\ Due(c)
         /\ Own(c) = GapRows(row, row[r.task].col, row[r.task].pos)
         /\ \A t \in Own(c) : work[t].pos = row[t].pos - 1
         /\ ~At(c, "recurLast") => \A u \in In(View(c), Origin) : View(c)[u].pos < r.pos

RequestInv(c) ==
    /\ At(c, "idle") => Own(c) = {}
    /\ At(c, "append") => AppendInv(c)
    /\ req[c].pc \in {"delete", "deleteGap"} => RemoveInv(c)
    /\ req[c].pc \in {"closeGap", "readColumn"} => MoveInv(c)
    /\ req[c].pc \in {"makeSpace", "place"} => ShiftInv(c)
    /\ At(c, "renumber") => RenumberInv(c)
    /\ req[c].pc \in {"bulkRead", "bulkWrite", "bulkLast", "bulkPlace"} => BulkInv(c)
    /\ At(c, "landed") => LandedInv(c)
    /\ At(c, "recur") => RecurInv(c)
    /\ req[c].pc \in {"recurLast", "recurSpace", "recurPlace"} => ReturnInv(c)

OrderInv ==
    /\ TypeOK
    /\ UniqueUnlessRaced
    /\ \A c \in Clients : RequestInv(c)

-----------------------------------------------------------------------------
(* The kinds of requests *)

\* The stage of a request says what it remembers.
LEMMA Kinds ==
    ASSUME NEW r \in Request
    PROVE  /\ r.pc = "idle" => r = Idle
           /\ r.pc = "append" => r \in Appending
           /\ r.pc \in {"delete", "deleteGap"} => r \in Removing
           /\ r.pc \in {"closeGap", "readColumn"} => r \in Moving
           /\ r.pc \in {"makeSpace", "place"} => r \in Shifting
           /\ r.pc = "renumber" => r \in Renumbering
           /\ r.pc \in {"bulkRead", "bulkWrite", "bulkLast", "bulkPlace"} => r \in BulkMoving
           /\ r.pc = "landed" => r \in Landing
           /\ r.pc = "recur" => r \in Recurring
           /\ r.pc \in {"recurLast", "recurSpace", "recurPlace"} => r \in Returning
BY DEF Request, Idle, Appending, Removing, Moving, Shifting, Renumbering, BulkMoving, Landing,
       Recurring, Returning

\* A request that is overtaken forgets nothing else.
LEMMA OvertakenRequest ==
    ASSUME NEW r \in Request, r.pc # "idle"
    PROVE  LET o == [r EXCEPT !.raced = TRUE] IN
           /\ o \in Request /\ o.pc = r.pc /\ o.raced
           /\ r.pc = "append" => o.task = r.task /\ o.new = r.new /\ o.to = r.to /\ o.pos = r.pos
           /\ r.pc \in {"delete", "deleteGap"} =>
                o.task = r.task /\ o.from = r.from /\ o.was = r.was
           /\ r.pc \in {"closeGap", "readColumn"} =>
                o.task = r.task /\ o.from = r.from /\ o.was = r.was /\ o.to = r.to
           /\ r.pc \in {"makeSpace", "place"} => o.task = r.task /\ o.to = r.to /\ o.pos = r.pos
           /\ r.pc = "renumber" => o.order = r.order /\ o.changed = r.changed
<1> DEFINE o == [r EXCEPT !.raced = TRUE]
<1>1. CASE r \in Appending
  BY <1>1 DEF Request, Appending
<1>2. CASE r \in Removing
  BY <1>2 DEF Request, Removing
<1>3. CASE r \in Moving
  BY <1>3 DEF Request, Moving
<1>4. CASE r \in Shifting
  BY <1>4 DEF Request, Shifting
<1>5. CASE r \in Renumbering
  BY <1>5 DEF Request, Renumbering
<1>6. CASE r \in BulkMoving
  BY <1>6 DEF Request, BulkMoving
<1>7. CASE r \in Landing
  BY <1>7 DEF Request, Landing
<1>8. CASE r \in Recurring
  BY <1>8 DEF Request, Recurring
<1>9. CASE r \in Returning
  BY <1>9 DEF Request, Returning
<1>10. QED
  BY <1>1, <1>2, <1>3, <1>4, <1>5, <1>6, <1>7, <1>8, <1>9 DEF Request, Idle

-----------------------------------------------------------------------------
(* Statements *)

\* What a step of c leaves to the others: their rows, their versions of them,
\* and their requests but for being overtaken when rows are committed.
Others(c) ==
    /\ \A t \in Tasks : owner[t] \notin {c, NoOne} =>
         owner'[t] = owner[t] /\ work'[t] = work[t] /\ row'[t] = row[t]
    /\ \A t \in Tasks : owner'[t] \notin {c, NoOne} => owner'[t] = owner[t]
    /\ \A d \in Clients \ {c} :
         \/ row' = row /\ req'[d] = req[d]
         \/ req'[d] = IF At(d, "idle") THEN Idle ELSE [req[d] EXCEPT !.raced = TRUE]

LEMMA ViewType ==
    ASSUME TypeOK, NEW c
    PROVE  View(c) \in [Tasks -> Row]
BY DEF TypeOK, View

LEMMA ReadStep ==
    ASSUME TypeOK, NEW c \in Clients, NEW r \in Request, Read(c, r), UNCHANGED mix
    PROVE  TypeOK' /\ Others(c) /\ req'[c] = r /\ row' = row /\ work' = work /\ owner' = owner
BY DEF TypeOK, Read, Goto, Others

LEMMA WriteStep ==
    ASSUME TypeOK, NEW c \in Clients, NEW W \in SUBSET Tasks, NEW f,
           \A t \in W : f[t] \in Row, NEW r \in Request, Write(c, W, f, r), UNCHANGED mix
    PROVE  /\ TypeOK' /\ Others(c) /\ req'[c] = r /\ row' = row
           /\ Own(c)' = Own(c) \cup W
           /\ \A t \in W : work'[t] = f[t] /\ View(c)'[t] = f[t]
           /\ \A t \in Tasks \ W : work'[t] = work[t] /\ View(c)'[t] = View(c)[t]
<1>1. /\ work' = [t \in Tasks |-> IF t \in W THEN f[t] ELSE work[t]]
      /\ owner' = [t \in Tasks |-> IF t \in W THEN c ELSE owner[t]]
      /\ req' = [req EXCEPT ![c] = r] /\ row' = row /\ tangled' = tangled
      /\ \A t \in W : owner[t] \in {NoOne, c}
  BY DEF Write, CanWrite, Updated, Goto
<1>2. NoOne \notin Clients
  BY OrderConstantsOK
<1>3. TypeOK'
  BY <1>1, <1>2 DEF TypeOK
<1>4. Others(c) /\ req'[c] = r
  BY <1>1, <1>2 DEF TypeOK, Others
<1>5. Own(c)' = Own(c) \cup W
  BY <1>1 DEF Own
<1>6. \A t \in W : View(c)'[t] = f[t]
  BY <1>1 DEF View
<1>7. \A t \in Tasks \ W : View(c)'[t] = View(c)[t]
  BY <1>1 DEF View
<1>8. QED
  BY <1>1, <1>3, <1>4, <1>5, <1>6, <1>7

LEMMA CommitEffect ==
    ASSUME TypeOK, NEW c \in Clients, NEW W \in SUBSET Tasks, NEW f, NEW rebuilt \in SUBSET Columns,
           \A t \in W : f[t] \in Row, NEW r \in Request, Commit(c, W, f, rebuilt, r), UNCHANGED mix
    PROVE  /\ TypeOK' /\ Others(c) /\ req'[c] = r /\ Own(c)' = {}
           /\ \A t \in W : row'[t] = f[t]
           /\ \A t \in Tasks \ W : row'[t] = View(c)[t]
           /\ Isolated(c) => tangled' = tangled \ rebuilt
           /\ ~Isolated(c) => tangled' = tangled \cup {row[t].col : t \in W \cup Own(c)}
                                                \cup {row'[t].col : t \in W \cup Own(c)}
<1> DEFINE mine == W \cup {t \in Tasks : owner[t] = c}
           new(t) == IF t \in W THEN f[t] ELSE work[t]
           hit == {row[t].col : t \in mine} \cup {new(t).col : t \in mine}
<1>1. /\ work' = [t \in Tasks |-> new(t)]
      /\ row' = [t \in Tasks |-> IF t \in mine THEN new(t) ELSE row[t]]
      /\ owner' = [t \in Tasks |-> IF t \in mine THEN NoOne ELSE owner[t]]
      /\ \A t \in W : owner[t] \in {NoOne, c}
      /\ req' = [d \in Clients |-> IF d = c THEN r
                                   ELSE IF At(d, "idle") THEN Idle ELSE [req[d] EXCEPT !.raced = TRUE]]
  BY DEF Commit, CanWrite, Updated
<1>2. tangled' = IF Isolated(c) THEN tangled \ rebuilt ELSE tangled \cup hit
  BY DEF Commit, Updated
<1>3. NoOne \notin Clients
  BY OrderConstantsOK
<1>4. \A t \in Tasks : new(t) \in Row
  BY DEF TypeOK
<1>5. hit \subseteq Columns
  BY <1>4 DEF TypeOK, Row
<1>6. \A d \in Clients : req[d] \in Request /\ Idle \in Request
  BY DEF TypeOK, Request
<1>7. req' \in [Clients -> Request]
  BY <1>1, <1>6, OvertakenRequest DEF At
<1>8. TypeOK'
  <2>1. row' \in [Tasks -> Row] /\ work' \in [Tasks -> Row] /\ owner' \in [Tasks -> Clients \cup {NoOne}]
    BY <1>1, <1>4 DEF TypeOK
  <2>2. \A t \in Tasks : owner'[t] = NoOne => work'[t] = row'[t]
    BY <1>1 DEF TypeOK
  <2>3. tangled' \in SUBSET Columns
    BY <1>2, <1>5 DEF TypeOK
  <2>4. QED
    BY <1>7, <2>1, <2>2, <2>3 DEF TypeOK
<1>9. Others(c) /\ req'[c] = r
  BY <1>1, <1>3 DEF TypeOK, Others
<1>10. Own(c)' = {}
  BY <1>1, <1>3 DEF Own
<1>11. (\A t \in W : row'[t] = f[t]) /\ \A t \in Tasks \ W : row'[t] = View(c)[t]
  BY <1>1 DEF View
<1>12. \A t \in mine : row'[t] = new(t)
  BY <1>1
<1>13. mine = W \cup Own(c)
  BY DEF Own
<1>14. hit = {row[t].col : t \in W \cup Own(c)} \cup {row'[t].col : t \in W \cup Own(c)}
  BY <1>12, <1>13
<1>15. QED
  BY <1>2, <1>8, <1>9, <1>10, <1>11, <1>14

\* What c itself sees of its commit.
LEMMA CommitStep ==
    ASSUME TypeOK, NEW c \in Clients, NEW W \in SUBSET Tasks, NEW f, NEW rebuilt \in SUBSET Columns,
           \A t \in W : f[t] \in Row, NEW r \in Request, Commit(c, W, f, rebuilt, r), UNCHANGED mix
    PROVE  /\ req'[c] = r /\ Own(c)' = {}
           /\ \A t \in W : row'[t] = f[t]
           /\ \A t \in Tasks \ W : row'[t] = View(c)[t]
<1> DEFINE mine == W \cup {t \in Tasks : owner[t] = c}
<1>1. /\ row' = [t \in Tasks |-> IF t \in mine THEN IF t \in W THEN f[t] ELSE work[t] ELSE row[t]]
      /\ owner' = [t \in Tasks |-> IF t \in mine THEN NoOne ELSE owner[t]]
      /\ req'[c] = r
  BY DEF Commit, Updated
<1>2. Own(c)' = {}
  BY <1>1, OrderConstantsOK DEF Own
<1>3. QED
  BY <1>1, <1>2 DEF View

LEMMA RollbackStep ==
    ASSUME TypeOK, NEW c \in Clients, Rollback(c), UNCHANGED mix
    PROVE  TypeOK' /\ Others(c) /\ req'[c] = Idle /\ row' = row /\ tangled' = tangled /\ Own(c)' = {}
<1>1. NoOne \notin Clients
  BY OrderConstantsOK
<1>2. Idle \in Request
  BY DEF Request
<1>3. TypeOK'
  BY <1>1, <1>2 DEF TypeOK, Rollback, Goto
<1>4. QED
  BY <1>1, <1>3 DEF TypeOK, Rollback, Goto, Others, Own

-----------------------------------------------------------------------------
(* What every step of a request leaves true *)

\* What is said of d's request depends on its rows and the committed ones.
LEMMA SameRowsKeepInv ==
    ASSUME NEW d, row' = row, req'[d] = req[d], Own(d)' = Own(d),
           \A t \in Own(d) : work'[t] = work[t], RequestInv(d)
    PROVE  RequestInv(d)'
<1>1. View(d)' = View(d)
  BY DEF View, Own
<1>2. AppendInv(d) => AppendInv(d)'
  BY DEF AppendInv, Isolated, In
<1>3. RemoveInv(d) => RemoveInv(d)'
  BY DEF RemoveInv, Isolated, At
<1>4. MoveInv(d) => MoveInv(d)'
  BY DEF MoveInv, Isolated, At
<1>5. ShiftInv(d) => ShiftInv(d)'
  BY DEF ShiftInv, Isolated, At, GapRows, SpaceRows, In, SamePlace
<1>6. RenumberInv(d) => RenumberInv(d)'
  BY DEF RenumberInv, Isolated, In
<1>7. BulkInv(d) => BulkInv(d)'
  <2>1. BulkMoves(d) => BulkMoves(d)'
    BY DEF BulkMoves
  <2>2. BulkWrites(d) => BulkWrites(d)'
    BY DEF BulkWrites, SamePlace, At
  <2>3. BulkNumbers(d) => BulkNumbers(d)'
    BY <1>1 DEF BulkNumbers, At
  <2>4. BulkList(d) => BulkList(d)'
    BY <1>1 DEF BulkList, StayList, At, In
  <2>5. StayInOrder(d, Items(req[d].ids)) => StayInOrder(d, Items(req[d].ids))'
    BY <1>1 DEF StayInOrder
  <2>6. QED
    BY <2>1, <2>2, <2>3, <2>4, <2>5 DEF BulkInv, Isolated
<1>8. LandedInv(d) => LandedInv(d)'
  BY DEF LandedInv, Isolated
<1>9. RecurInv(d) => RecurInv(d)'
  BY DEF RecurInv, Isolated, Due
<1>10. ReturnInv(d) => ReturnInv(d)'
  BY <1>1 DEF ReturnInv, Isolated, At, Due, GapRows, In, SamePlace
<1>11. QED
  BY <1>2, <1>3, <1>4, <1>5, <1>6, <1>7, <1>8, <1>9, <1>10 DEF RequestInv, At

\* The facts about d's request survive what others do.
LEMMA OthersKeepInv ==
    ASSUME TypeOK, TypeOK', NEW c \in Clients, Others(c), NEW d \in Clients \ {c}, RequestInv(d)
    PROVE  RequestInv(d)'
<1> DEFINE r == req[d]
<1>1. NoOne \notin Clients /\ r \in Request /\ d # c /\ d \in Clients
  BY OrderConstantsOK DEF TypeOK
<1>2. Own(d)' = Own(d)
  BY <1>1 DEF Others, Own
<1>3. \A t \in Own(d) : work'[t] = work[t] /\ row'[t] = row[t]
  BY <1>1 DEF Others, Own
<1>4. Own(d) \subseteq Tasks
  BY DEF Own
<1>5. CASE row' = row /\ req'[d] = req[d]
  BY <1>1, <1>2, <1>3, <1>5, SameRowsKeepInv
<1>6. CASE req'[d] = IF At(d, "idle") THEN Idle ELSE [req[d] EXCEPT !.raced = TRUE]
  <2>1. CASE At(d, "idle")
    <3>1. req'[d].pc = "idle"
      BY <1>6, <2>1 DEF Idle
    <3>2. QED
      BY <1>2, <2>1, <3>1 DEF RequestInv, At
  <2>2. CASE ~At(d, "idle")
    <3>1. r.pc # "idle" /\ req'[d] = [r EXCEPT !.raced = TRUE]
      BY <1>6, <2>2 DEF At
    <3> DEFINE o == req'[d]
    <3>2. o.pc = r.pc /\ ~Isolated(d)'
      BY <1>1, <3>1, OvertakenRequest DEF Isolated
    <3>3. r.pc = "append" /\ AppendInv(d) => AppendInv(d)'
      BY <1>2, <3>2 DEF AppendInv
    <3>4. r.pc \in {"delete", "deleteGap"} /\ RemoveInv(d) => RemoveInv(d)'
      <4> SUFFICES ASSUME r.pc \in {"delete", "deleteGap"}, RemoveInv(d) PROVE RemoveInv(d)'
        OBVIOUS
      <4>1. o.task = r.task
        BY <1>1, <3>1, OvertakenRequest
      <4>2. QED
        BY <1>2, <1>3, <3>2, <4>1 DEF RemoveInv, At
    <3>5. r.pc \in {"closeGap", "readColumn"} /\ MoveInv(d) => MoveInv(d)'
      <4> SUFFICES ASSUME r.pc \in {"closeGap", "readColumn"}, MoveInv(d) PROVE MoveInv(d)'
        OBVIOUS
      <4>1. o.from = r.from /\ o.to = r.to
        BY <1>1, <3>1, OvertakenRequest
      <4>2. QED
        BY <1>2, <3>2, <4>1 DEF MoveInv, At
    <3>6. r.pc \in {"makeSpace", "place"} /\ ShiftInv(d) => ShiftInv(d)'
      <4> SUFFICES ASSUME r.pc \in {"makeSpace", "place"}, ShiftInv(d) PROVE ShiftInv(d)'
        OBVIOUS
      <4>1. o.to = r.to
        BY <1>1, <3>1, OvertakenRequest
      <4>2. QED
        BY <1>2, <1>3, <3>2, <4>1 DEF ShiftInv, At, SamePlace
    <3>7. r.pc = "renumber" /\ RenumberInv(d) => RenumberInv(d)'
      <4> SUFFICES ASSUME r.pc = "renumber", RenumberInv(d) PROVE RenumberInv(d)'
        OBVIOUS
      <4>1. o.order = r.order /\ o.changed = r.changed
        BY <1>1, <3>1, OvertakenRequest
      <4>2. QED
        BY <1>2, <3>2, <4>1 DEF RenumberInv
    <3>8. BulkInv(d)'
      BY <3>2 DEF BulkInv
    <3>9. LandedInv(d) => LandedInv(d)'
      BY <1>2, <3>2 DEF LandedInv
    <3>10. RecurInv(d) => RecurInv(d)'
      BY <1>2, <3>2 DEF RecurInv
    <3>11. ReturnInv(d) => ReturnInv(d)'
      BY <1>2, <1>3, <3>2 DEF ReturnInv, At, SamePlace
    <3>12. QED
      BY <1>2, <3>2, <3>3, <3>4, <3>5, <3>6, <3>7, <3>8, <3>9, <3>10, <3>11 DEF RequestInv, At
  <2>3. QED
    BY <2>1, <2>2
<1>7. QED
  BY <1>1, <1>5, <1>6 DEF Others

\* A request that has ended is bound by nothing.
LEMMA IdleInv ==
    ASSUME NEW c, req'[c] = Idle, Own(c)' = {}
    PROVE  RequestInv(c)'
BY DEF RequestInv, At, Idle

\* No two tasks of column k of v share a position.
Unique(v, k) == \A t, u \in In(v, k) : t # u => v[t].pos # v[u].pos

\* A commit of a request that was overtaken tangles every column it writes in;
\* of any other request, only what it leaves behind is to be looked at.
LEMMA CommitKeepsUnique ==
    ASSUME TypeOK, UniqueUnlessRaced, NEW c \in Clients, NEW W \in SUBSET Tasks,
           NEW rebuilt \in SUBSET Columns,
           \A t \in Tasks : t \notin W /\ t \notin Own(c) => row'[t] = row[t],
           Isolated(c) => tangled' = tangled \ rebuilt,
           ~Isolated(c) => tangled' = tangled \cup {row[t].col : t \in W \cup Own(c)}
                                              \cup {row'[t].col : t \in W \cup Own(c)},
           Isolated(c) => \A k \in Columns : Unique(row, k) \/ k \in rebuilt => Unique(row', k)
    PROVE  UniqueUnlessRaced'
<1>1. CASE Isolated(c)
  BY <1>1 DEF UniqueUnlessRaced, Unique
<1>2. CASE ~Isolated(c)
  <2> SUFFICES ASSUME NEW k \in Columns \ tangled', NEW t \in In(row', k), NEW u \in In(row', k), t # u
               PROVE  row'[t].pos # row'[u].pos
    BY DEF UniqueUnlessRaced, In
  <2>1. k \in Columns \ tangled
    BY <1>2
  <2>2. ASSUME NEW w \in In(row', k) PROVE w \in In(row, k) /\ row'[w] = row[w]
    <3>1. w \in Tasks /\ row'[w].col = k /\ row'[w].status = "live"
      BY DEF In
    <3>2. w \notin W \cup Own(c)
      BY <1>2, <3>1
    <3>3. QED
      BY <3>1, <3>2 DEF In
  <2>3. QED
    BY <2>1, <2>2 DEF UniqueUnlessRaced
<1>3. QED
  BY <1>1, <1>2

\* Nothing of the order is at stake when no row is committed.
LEMMA NoCommitKeepsUnique ==
    ASSUME UniqueUnlessRaced, row' = row, tangled' = tangled
    PROVE  UniqueUnlessRaced'
BY DEF UniqueUnlessRaced, In

\* A step preserves the invariant if it does so for the request that takes it
\* and, when it commits, for the order it leaves behind.
LEMMA ReadKeepsInv ==
    ASSUME OrderInv, NEW c \in Clients, NEW r \in Request, Read(c, r), UNCHANGED mix, RequestInv(c)'
    PROVE  OrderInv'
<1>1. tangled' = tangled
  BY DEF Read
<1>2. TypeOK' /\ Others(c) /\ row' = row
  BY ReadStep DEF OrderInv
<1>3. QED
  BY <1>1, <1>2, OthersKeepInv, NoCommitKeepsUnique DEF OrderInv

LEMMA WriteKeepsInv ==
    ASSUME OrderInv, NEW c \in Clients, NEW W \in SUBSET Tasks, NEW f,
           \A t \in W : f[t] \in Row, NEW r \in Request, Write(c, W, f, r), UNCHANGED mix,
           RequestInv(c)'
    PROVE  OrderInv'
<1>1. tangled' = tangled
  BY DEF Write
<1>2. TypeOK' /\ Others(c) /\ row' = row
  BY WriteStep DEF OrderInv
<1>3. QED
  BY <1>1, <1>2, OthersKeepInv, NoCommitKeepsUnique DEF OrderInv

LEMMA CommitKeepsInv ==
    ASSUME OrderInv, NEW c \in Clients, NEW W \in SUBSET Tasks, NEW f, NEW rebuilt \in SUBSET Columns,
           \A t \in W : f[t] \in Row, NEW r \in Request, Commit(c, W, f, rebuilt, r), UNCHANGED mix,
           RequestInv(c)',
           Isolated(c) => \A k \in Columns : Unique(row, k) \/ k \in rebuilt => Unique(row', k)
    PROVE  OrderInv'
<1>1. TypeOK /\ UniqueUnlessRaced
  BY DEF OrderInv
<1>2. /\ TypeOK' /\ Others(c)
      /\ \A t \in Tasks \ W : row'[t] = View(c)[t]
      /\ Isolated(c) => tangled' = tangled \ rebuilt
      /\ ~Isolated(c) => tangled' = tangled \cup {row[t].col : t \in W \cup Own(c)}
                                           \cup {row'[t].col : t \in W \cup Own(c)}
  BY <1>1, CommitEffect
<1>3. \A t \in Tasks : t \notin W /\ t \notin Own(c) => row'[t] = row[t]
  BY <1>2 DEF View, Own
<1>4. UniqueUnlessRaced'
  BY <1>1, <1>2, <1>3, CommitKeepsUnique
<1>5. QED
  BY <1>1, <1>2, <1>4, OthersKeepInv DEF OrderInv

LEMMA RollbackKeepsInv ==
    ASSUME OrderInv, NEW c \in Clients, Rollback(c), UNCHANGED mix
    PROVE  OrderInv'
<1>1. TypeOK' /\ Others(c) /\ req'[c] = Idle /\ row' = row /\ tangled' = tangled /\ Own(c)' = {}
  BY RollbackStep DEF OrderInv
<1>2. RequestInv(c)'
  BY <1>1, IdleInv
<1>3. QED
  BY <1>1, <1>2, OthersKeepInv, NoCommitKeepsUnique DEF OrderInv

-----------------------------------------------------------------------------
(* Positions *)

\* A finite set has a member that p puts highest: in a smallest set without one,
\* drop a member and compare it with the highest of the rest.
LEMMA HasHighest ==
    ASSUME NEW S, IsFiniteSet(S), S # {}, NEW p \in [S -> Nat]
    PROVE  \E m \in S : \A t \in S : p[t] <= p[m]
<1> DEFINE Topped(X) == \E m \in X : \A t \in X : p[t] <= p[m]
           Bad == {X \in SUBSET S : X # {} /\ ~Topped(X)}
<1>1. SUFFICES ASSUME Bad # {} PROVE FALSE
  OBVIOUS
<1>2. FiniteSubsetsOf(S) = SUBSET S
  BY FS_FiniteSubsetsOfFinite
<1>3. IsWellFoundedOn(StrictSubsetOrdering(S), SUBSET S)
  BY <1>2, FS_StrictSubsetOrderingWellFounded
<1>4. PICK X \in Bad : \A Y \in Bad : <<Y, X>> \notin StrictSubsetOrdering(S)
  BY <1>1, <1>3, WFMin
<1>5. PICK x \in X : TRUE
  OBVIOUS
<1>6. X \ {x} \notin Bad
  <2>1. <<X \ {x}, X>> \in StrictSubsetOrdering(S)
    BY <1>5 DEF StrictSubsetOrdering
  <2>2. QED
    BY <1>4, <2>1
<1>7. CASE X \ {x} = {}
  <2>1. \A t \in X : t = x
    BY <1>7
  <2>2. p[x] \in Nat
    OBVIOUS
  <2>3. Topped(X)
    BY <2>1, <2>2
  <2>4. QED
    BY <2>3
<1>8. CASE X \ {x} # {}
  <2>1. PICK m \in X \ {x} : \A t \in X \ {x} : p[t] <= p[m]
    BY <1>6, <1>8
  <2>2. p[x] \in Nat /\ p[m] \in Nat /\ \A t \in X : p[t] \in Nat
    OBVIOUS
  <2>3. CASE p[x] <= p[m]
    BY <2>1, <2>3
  <2>4. CASE ~(p[x] <= p[m])
    <3>1. \A t \in X : p[t] <= p[x]
      BY <2>1, <2>2, <2>4
    <3>2. QED
      BY <3>1
  <2>5. QED
    BY <2>3, <2>4
<1>9. QED
  BY <1>7, <1>8

\* The position after the last is beyond every other one.
LEMMA NextPositionIsFree ==
    ASSUME NEW v \in [Tasks -> Row], NEW k
    PROVE  /\ NextPosition(v, k) \in Nat
           /\ \A t \in In(v, k) : v[t].pos < NextPosition(v, k)
<1>1. CASE In(v, k) = {}
  BY <1>1 DEF NextPosition
<1>2. CASE In(v, k) # {}
  <2> DEFINE S == In(v, k)
             p == [t \in S |-> v[t].pos]
             P == {v[t].pos : t \in S}
             last == CHOOSE q \in P : \A t \in S : v[t].pos <= q
  <2>1. S \subseteq Tasks /\ IsFiniteSet(S)
    BY OrderConstantsOK, FS_Subset DEF In
  <2>2. p \in [S -> Nat]
    BY <2>1 DEF Row
  <2>3. PICK m \in S : \A t \in S : p[t] <= p[m]
    BY <1>2, <2>1, <2>2, HasHighest
  <2>4. v[m].pos \in P /\ \A t \in S : v[t].pos <= v[m].pos
    BY <2>3
  <2>5. last \in P /\ \A t \in S : v[t].pos <= last
    BY <2>4
  <2>6. P \subseteq Nat
    BY <2>1 DEF Row
  <2>7. NextPosition(v, k) = 1 + last
    BY <1>2 DEF NextPosition
  <2> HIDE DEF last
  <2>8. \A t \in S : v[t].pos \in Nat /\ v[t].pos < 1 + last
    BY <2>1, <2>5, <2>6 DEF Row
  <2>9. QED
    BY <2>5, <2>6, <2>7, <2>8
<1>3. QED
  BY <1>1, <1>2

-----------------------------------------------------------------------------
(* create, duplicate, restore *)

LEMMA StartAppendInv ==
    ASSUME OrderInv, NEW c \in Clients, StartAppend(c), UNCHANGED mix
    PROVE  OrderInv'
<1>1. TypeOK /\ UniqueUnlessRaced /\ At(c, "idle") /\ Own(c) = {}
  BY DEF OrderInv, RequestInv, StartAppend, MayStart
<1>2. PICK t \in Tasks, k \in Columns :
        /\ row[t].status = "absent" \/ (row[t].status = "trashed" /\ row[t].col = k)
        /\ Read(c, [pc |-> "append", task |-> t, new |-> row[t].status = "absent", to |-> k,
                    pos |-> NextPosition(row, k), raced |-> FALSE])
  BY DEF StartAppend
<1> DEFINE r == [pc |-> "append", task |-> t, new |-> row[t].status = "absent", to |-> k,
                 pos |-> NextPosition(row, k), raced |-> FALSE]
<1>3. NextPosition(row, k) \in Nat /\ \A u \in In(row, k) : row[u].pos < NextPosition(row, k)
  BY <1>1, NextPositionIsFree DEF TypeOK
<1>4. r \in Request
  BY <1>3 DEF Request, Appending
<1>5. req'[c] = r /\ row' = row /\ work' = work /\ owner' = owner
  BY <1>1, <1>2, <1>4, ReadStep
<1>7. AppendInv(c)'
  <2>1. Own(c)' = {}
    BY <1>1, <1>5 DEF Own
  <2>2. In(row, k)' = In(row, k)
    BY <1>5 DEF In
  <2>3. r.task = t /\ r.to = k /\ r.pos = NextPosition(row, k) /\ (r.new <=> row[t].status = "absent")
    OBVIOUS
  <2> HIDE DEF r
  <2>4. row'[t].status # "live" /\ (~r.new => row'[t].col = k)
    BY <1>2, <1>5, <2>3
  <2>5. QED
    BY <1>3, <1>5, <2>1, <2>2, <2>3, <2>4 DEF AppendInv
<1>8. RequestInv(c)'
  BY <1>5, <1>7 DEF RequestInv, At
<1>9. QED
  BY <1>2, <1>4, <1>8, ReadKeepsInv

\* The task is appended behind all others.
LEMMA AppendTaskInv ==
    ASSUME OrderInv, NEW c \in Clients, AppendTask(c), UNCHANGED mix
    PROVE  OrderInv'
<1> DEFINE r == req[c]
           t == r.task
           k == IF r.new THEN r.to ELSE row[t].col
           f == [row EXCEPT ![t] = [status |-> "live", col |-> k, pos |-> r.pos]]
           W == {t}
<1>1. TypeOK /\ UniqueUnlessRaced /\ At(c, "append") /\ AppendInv(c)
  BY DEF OrderInv, RequestInv, AppendTask
<1>2. r \in Appending
  BY <1>1, Kinds DEF TypeOK, At
<1>3. t \in Tasks /\ k \in Columns /\ r.pos \in Nat
  BY <1>1, <1>2 DEF Appending, TypeOK, Row
<1>4. Commit(c, W, f, {}, Idle)
  BY DEF AppendTask
<1>5. f[t] = [status |-> "live", col |-> k, pos |-> r.pos] /\ f[t] \in Row
  BY <1>1, <1>3 DEF TypeOK, Row
<1>6. Idle \in Request
  BY DEF Request
<1>7. W \in SUBSET Tasks /\ {} \in SUBSET Columns /\ \A u \in W : f[u] \in Row
  BY <1>3, <1>5
<1>8. /\ req'[c] = Idle /\ Own(c)' = {}
      /\ \A u \in W : row'[u] = f[u]
      /\ \A u \in Tasks \ W : row'[u] = View(c)[u]
  <2> HIDE DEF f, t, W
  <2>1. QED
    BY <1>1, <1>4, <1>6, <1>7, CommitStep
<1>9. \A u \in Tasks : row'[u] = IF u = t THEN f[t] ELSE row[u]
  BY <1>1, <1>8 DEF View, AppendInv, Own
<1>10. ASSUME Isolated(c), NEW kk \in Columns, Unique(row, kk) PROVE Unique(row', kk)
  <2>1. row[t].status # "live" /\ k = r.to /\ \A u \in In(row, k) : row[u].pos < r.pos
    BY <1>1, <1>10 DEF AppendInv
  <2>2. \A u \in In(row', kk) : u = t \/ (u \in In(row, kk) /\ row'[u] = row[u])
    BY <1>9 DEF In
  <2>3. t \in In(row', kk) => kk = k /\ row'[t].pos = r.pos
    BY <1>5, <1>9 DEF In
  <2>4. \A u \in In(row, kk) : row[u].pos \in Nat
    BY <1>1 DEF In, TypeOK, Row
  <2>5. QED
    BY <1>3, <1>10, <2>1, <2>2, <2>3, <2>4 DEF Unique
<1>11. RequestInv(c)'
  BY <1>8, IdleInv
<1> HIDE DEF f, t, W
<1>12. QED
  BY <1>4, <1>6, <1>7, <1>10, <1>11, CommitKeepsInv

-----------------------------------------------------------------------------
(* remove *)

\* closeGap and makeSpace change positions only.
LEMMA ClosedGapRow ==
    ASSUME NEW v \in [Tasks -> Row], NEW k, NEW p \in Nat, NEW t \in GapRows(v, k, p)
    PROVE  /\ t \in Tasks
           /\ ClosedGap(v)[t] \in Row
           /\ ClosedGap(v)[t].status = v[t].status /\ ClosedGap(v)[t].col = v[t].col
           /\ ClosedGap(v)[t].pos = v[t].pos - 1
<1>1. t \in Tasks /\ v[t] \in Row /\ v[t].pos > p
  BY DEF GapRows, In
<1>2. v[t].pos - 1 \in Nat
  BY <1>1 DEF Row
<1>3. QED
  BY <1>1, <1>2 DEF ClosedGap, Row

LEMMA MadeSpaceRow ==
    ASSUME NEW v \in [Tasks -> Row], NEW k, NEW p \in Nat, NEW t \in SpaceRows(v, k, p)
    PROVE  /\ t \in Tasks
           /\ MadeSpace(v)[t] \in Row
           /\ MadeSpace(v)[t].status = v[t].status /\ MadeSpace(v)[t].col = v[t].col
           /\ MadeSpace(v)[t].pos = v[t].pos + 1
<1>1. t \in Tasks /\ v[t] \in Row
  BY DEF SpaceRows, In
<1>2. v[t].pos + 1 \in Nat
  BY <1>1 DEF Row
<1>3. QED
  BY <1>1, <1>2 DEF MadeSpace, Row

LEMMA StartRemoveInv ==
    ASSUME OrderInv, NEW c \in Clients, StartRemove(c), UNCHANGED mix
    PROVE  OrderInv'
<1>1. TypeOK /\ UniqueUnlessRaced /\ At(c, "idle") /\ Own(c) = {}
  BY DEF OrderInv, RequestInv, StartRemove, MayStart
<1>2. PICK t \in Tasks :
        /\ row[t].status = "live"
        /\ Read(c, [pc |-> "delete", task |-> t, from |-> row[t].col, was |-> row[t].pos,
                    raced |-> FALSE])
  BY DEF StartRemove
<1> DEFINE r == [pc |-> "delete", task |-> t, from |-> row[t].col, was |-> row[t].pos, raced |-> FALSE]
<1>3. row[t] \in Row
  BY <1>1 DEF TypeOK
<1>4. r \in Request
  BY <1>3 DEF Request, Removing, Row
<1>5. req'[c] = r /\ row' = row /\ work' = work /\ owner' = owner
  BY <1>1, <1>2, <1>4, ReadStep
<1>7. RemoveInv(c)'
  <2>1. Own(c)' = {}
    BY <1>1, <1>5 DEF Own
  <2>2. row[t] = [status |-> "live", col |-> row[t].col, pos |-> row[t].pos]
    BY <1>2, <1>3 DEF Row
  <2>3. QED
    BY <1>5, <2>1, <2>2 DEF RemoveInv, At
<1>8. RequestInv(c)'
  BY <1>5, <1>7 DEF RequestInv, At
<1>9. QED
  BY <1>2, <1>4, <1>8, ReadKeepsInv

LEMMA SoftDeleteInv ==
    ASSUME OrderInv, NEW c \in Clients, SoftDelete(c), UNCHANGED mix
    PROVE  OrderInv'
<1> DEFINE r == req[c]
           t == r.task
           f == [View(c) EXCEPT ![t].status = "trashed"]
           n == [r EXCEPT !.pc = "deleteGap"]
           W == {t}
<1>1. TypeOK /\ UniqueUnlessRaced /\ At(c, "delete") /\ RemoveInv(c) /\ r.pc = "delete"
  BY DEF OrderInv, RequestInv, SoftDelete, At
<1>2. r \in Removing
  BY <1>1, Kinds DEF TypeOK
<1>3. /\ n \in Request /\ n.pc = "deleteGap" /\ n.task = t /\ n.from = r.from /\ n.was = r.was
      /\ n.raced = r.raced
  BY <1>2 DEF Request, Removing
<1>4. t \in Tasks /\ Own(c) = {}
  BY <1>1, <1>2 DEF Removing, RemoveInv
<1>5. View(c)[t] = row[t] /\ row[t] \in Row
  BY <1>1, <1>4 DEF View, Own, TypeOK
<1>6. f[t] = [row[t] EXCEPT !.status = "trashed"] /\ f[t] \in Row
  <2>1. f[t] = [View(c)[t] EXCEPT !.status = "trashed"]
    BY <1>1, <1>4, ViewType
  <2>2. QED
    BY <1>5, <2>1 DEF Row
<1>7. Write(c, W, f, n)
  BY DEF SoftDelete
<1>8. W \in SUBSET Tasks /\ \A u \in W : f[u] \in Row
  BY <1>4, <1>6
<1>9. /\ req'[c] = n /\ row' = row
      /\ Own(c)' = Own(c) \cup W
      /\ \A u \in W : work'[u] = f[u] /\ View(c)'[u] = f[u]
      /\ \A u \in Tasks \ W : work'[u] = work[u] /\ View(c)'[u] = View(c)[u]
  <2>1. TypeOK /\ n \in Request
    BY <1>1, <1>3
  <2> HIDE DEF r, f, n, t, W
  <2>2. QED
    BY <1>7, <1>8, <2>1, WriteStep
<1> HIDE DEF f, n, t
<1>11. RemoveInv(c)'
  <2>1. Own(c)' = {n.task} /\ work'[n.task] = [row'[n.task] EXCEPT !.status = "trashed"]
    BY <1>3, <1>4, <1>6, <1>9
  <2>2. n.raced = r.raced /\ row' = row /\ req'[c] = n
    BY <1>3, <1>9
  <2>3. ~n.raced => row'[n.task] = [status |-> "live", col |-> n.from, pos |-> n.was]
    BY <1>1, <1>3, <2>2 DEF RemoveInv, Isolated, t
  <2> HIDE DEF r
  <2>4. QED
    BY <1>3, <1>9, <2>1, <2>3 DEF RemoveInv, At, Isolated
<1>12. RequestInv(c)'
  BY <1>3, <1>9, <1>11 DEF RequestInv, At
<1> HIDE DEF W, r
<1>13. QED
  BY <1>3, <1>7, <1>8, <1>12, WriteKeepsInv

\* The gap the task has left is closed: nobody is left at its position.
LEMMA CloseGapAfterDeleteInv ==
    ASSUME OrderInv, NEW c \in Clients, CloseGapAfterDelete(c), UNCHANGED mix
    PROVE  OrderInv'
<1> DEFINE r == req[c]
           t == r.task
           v == View(c)
           W == GapRows(v, r.from, r.was)
           f == ClosedGap(v)
<1>1. TypeOK /\ UniqueUnlessRaced /\ At(c, "deleteGap") /\ RemoveInv(c) /\ r.pc = "deleteGap"
  BY DEF OrderInv, RequestInv, CloseGapAfterDelete, At
<1>2. r \in Removing
  BY <1>1, Kinds DEF TypeOK
<1>3. /\ t \in Tasks /\ r.from \in Columns /\ r.was \in Nat /\ Own(c) = {t}
      /\ work[t] = [row[t] EXCEPT !.status = "trashed"]
  BY <1>1, <1>2 DEF Removing, RemoveInv
<1>4. v \in [Tasks -> Row]
  BY <1>1, ViewType
<1>5. v[t].status = "trashed" /\ \A u \in Tasks : u # t => v[u] = row[u]
  BY <1>1, <1>3 DEF View, Own, TypeOK, Row
<1> HIDE DEF v, f
<1>6. /\ W \in SUBSET Tasks
      /\ \A u \in W : /\ f[u] \in Row
                      /\ f[u].status = v[u].status /\ f[u].col = v[u].col
                      /\ f[u].pos = v[u].pos - 1
  <2> SUFFICES ASSUME NEW u \in W
               PROVE  /\ u \in Tasks /\ f[u] \in Row
                      /\ f[u].status = v[u].status /\ f[u].col = v[u].col
                      /\ f[u].pos = v[u].pos - 1
    OBVIOUS
  <2>1. r.was \in Nat
    BY <1>3
  <2> HIDE DEF r
  <2>2. QED
    BY <1>4, <2>1, ClosedGapRow DEF f
<1>7. Commit(c, W, f, {}, Idle) /\ Idle \in Request /\ {} \in SUBSET Columns
  BY DEF CloseGapAfterDelete, v, f, Request
<1>8. /\ req'[c] = Idle /\ Own(c)' = {}
      /\ \A u \in W : row'[u] = f[u]
      /\ \A u \in Tasks \ W : row'[u] = View(c)[u]
  <2>1. W \in SUBSET Tasks /\ \A u \in W : f[u] \in Row
    BY <1>6
  <2> HIDE DEF W, r, t
  <2>2. QED
    BY <1>1, <1>7, <2>1, CommitStep
<1>10. ASSUME Isolated(c), NEW k \in Columns, Unique(row, k) PROVE Unique(row', k)
  <2>1. row[t] = [status |-> "live", col |-> r.from, pos |-> r.was]
    BY <1>1, <1>10 DEF RemoveInv
  <2> SUFFICES ASSUME NEW u \in In(row', k), NEW w \in In(row', k), u # w
               PROVE  row'[u].pos # row'[w].pos
    BY DEF Unique
  <2>2. ASSUME NEW x \in In(row', k)
        PROVE  /\ x \in In(row, k) /\ x # t /\ row[x].pos \in Nat
               /\ row'[x].pos = IF k = r.from /\ row[x].pos > r.was THEN row[x].pos - 1 ELSE row[x].pos
    <3>1. x \in Tasks /\ row'[x].status = "live" /\ row'[x].col = k
      BY DEF In
    <3>2. v[x].status = "live" /\ v[x].col = k
      BY <1>6, <1>8, <3>1 DEF v
    <3>3. x # t /\ v[x] = row[x] /\ row[x] \in Row
      BY <1>1, <1>5, <3>1, <3>2 DEF TypeOK
    <3>4. x \in W <=> k = r.from /\ row[x].pos > r.was
      BY <3>1, <3>2, <3>3 DEF GapRows, In
    <3>5. QED
      BY <1>6, <1>8, <3>1, <3>2, <3>3, <3>4 DEF In, Row, v
  <2>3. row[u].pos # row[w].pos
    BY <1>10, <2>2 DEF Unique
  <2>4. k = r.from => row[u].pos # r.was /\ row[w].pos # r.was
    <3>1. k = r.from => t \in In(row, k) /\ row[t].pos = r.was
      BY <1>3, <2>1 DEF In
    <3>2. QED
      BY <1>10, <2>2, <3>1 DEF Unique
  <2>5. QED
    BY <1>3, <2>2, <2>3, <2>4
<1>11. RequestInv(c)'
  BY <1>8, IdleInv
<1>12. W \in SUBSET Tasks /\ \A u \in W : f[u] \in Row
  BY <1>6
<1> HIDE DEF W, r, t
<1>13. QED
  BY <1>7, <1>10, <1>11, <1>12, CommitKeepsInv

-----------------------------------------------------------------------------
(* move *)

\* Without writes of its own a request sees the committed rows.
LEMMA ViewOfNone ==
    ASSUME TypeOK, NEW c, Own(c) = {}
    PROVE  View(c) = row
BY DEF TypeOK, View, Own

\* What is left of a move when its tasks have landed.
LEMMA AfterLandingType ==
    ASSUME NEW r, r.raced \in BOOLEAN, NEW S \in SUBSET Tasks
    PROVE  AfterLanding(r, S) \in Request
BY DEF AfterLanding, Request, Landing

LEMMA AfterLandingInv ==
    ASSUME NEW c, NEW r, r.raced \in BOOLEAN, NEW S \in SUBSET Tasks,
           req'[c] = AfterLanding(r, S), Own(c)' = {},
           ~r.raced => \A t \in S : row'[t].status = "live"
    PROVE  RequestInv(c)'
<1> DEFINE due == IF r.to = Done THEN S \cap mix.recurring ELSE {}
<1>1. CASE due = {}
  <2>1. req'[c] = Idle
    BY <1>1 DEF AfterLanding
  <2>2. QED
    BY <2>1, IdleInv
<1>2. CASE due # {}
  <2>1. req'[c] = [pc |-> "landed", due |-> due, raced |-> r.raced]
    BY <1>2 DEF AfterLanding
  <2>2. due \subseteq S
    OBVIOUS
  <2> HIDE DEF due
  <2>3. LandedInv(c)'
    BY <2>1, <2>2 DEF LandedInv, Isolated
  <2>4. QED
    BY <2>1, <2>3 DEF RequestInv, At
<1>3. QED
  BY <1>1, <1>2

LEMMA StartMoveInv ==
    ASSUME OrderInv, NEW c \in Clients, StartMove(c), UNCHANGED mix
    PROVE  OrderInv'
<1>1. TypeOK /\ At(c, "idle") /\ Own(c) = {}
  BY DEF OrderInv, RequestInv, StartMove, MayStart
<1>2. PICK t \in Tasks, k \in Columns, p \in 0 .. mix.maxRequest :
        /\ row[t].status = "live"
        /\ Read(c, [pc |-> IF row[t].col = k THEN "readColumn" ELSE "closeGap",
                    task |-> t, from |-> row[t].col, was |-> row[t].pos,
                    to |-> k, pos |-> p, raced |-> FALSE])
  BY DEF StartMove
<1> DEFINE r == [pc |-> IF row[t].col = k THEN "readColumn" ELSE "closeGap",
                 task |-> t, from |-> row[t].col, was |-> row[t].pos,
                 to |-> k, pos |-> p, raced |-> FALSE]
<1>3. row[t] \in Row /\ p \in Nat
  BY <1>1 DEF TypeOK
<1>4. r \in Request
  BY <1>3 DEF Request, Moving, Row
<1>5. req'[c] = r /\ row' = row /\ work' = work /\ owner' = owner
  BY <1>1, <1>2, <1>4, ReadStep
<1>6. MoveInv(c)'
  <2>1. Own(c)' = {}
    BY <1>1, <1>5 DEF Own
  <2>2. row[t] = [status |-> "live", col |-> row[t].col, pos |-> row[t].pos]
    BY <1>2, <1>3 DEF Row
  <2>3. QED
    BY <1>5, <2>1, <2>2 DEF MoveInv, At
<1>7. RequestInv(c)'
  BY <1>5, <1>6 DEF RequestInv, At
<1>8. QED
  BY <1>2, <1>4, <1>7, ReadKeepsInv

LEMMA CloseGapInv ==
    ASSUME OrderInv, NEW c \in Clients, CloseGap(c), UNCHANGED mix
    PROVE  OrderInv'
<1> DEFINE r == req[c]
           W == GapRows(row, r.from, r.was)
           f == ClosedGap(row)
           n == [pc |-> "makeSpace", task |-> r.task, to |-> r.to, pos |-> r.pos, raced |-> r.raced]
<1>1. TypeOK /\ At(c, "closeGap") /\ MoveInv(c) /\ r.pc = "closeGap"
  BY DEF OrderInv, RequestInv, CloseGap, At
<1>2. r \in Moving
  BY <1>1, Kinds DEF TypeOK
<1>3. r.was \in Nat /\ r.from # r.to /\ n \in Request
  BY <1>1, <1>2 DEF Moving, MoveInv, Request, Shifting
<1>4. Own(c) = {} /\ View(c) = row /\ row \in [Tasks -> Row]
  BY <1>1, ViewOfNone DEF MoveInv, TypeOK
<1>5. Write(c, W, f, n)
  BY <1>4 DEF CloseGap
<1>6. /\ W \in SUBSET Tasks
      /\ \A u \in W : /\ f[u] \in Row /\ f[u].status = row[u].status /\ f[u].col = row[u].col
                      /\ f[u].pos = row[u].pos - 1
  <2> SUFFICES ASSUME NEW u \in W
               PROVE  /\ u \in Tasks /\ f[u] \in Row /\ f[u].status = row[u].status
                      /\ f[u].col = row[u].col /\ f[u].pos = row[u].pos - 1
    OBVIOUS
  <2>1. r.was \in Nat
    BY <1>3
  <2> HIDE DEF r
  <2>2. QED
    BY <1>4, <2>1, ClosedGapRow
<1>7. \A u \in W : f[u] \in Row
  BY <1>6
<1>8. \A u \in W : row[u].status = "live" /\ row[u].col = r.from
  BY DEF GapRows, In
<1>9. Isolated(c) => /\ row[r.task] = [status |-> "live", col |-> r.from, pos |-> r.was]
                     /\ W = GapRows(row, row[r.task].col, row[r.task].pos)
  BY <1>1 DEF MoveInv
<1>10. /\ n.pc = "makeSpace" /\ n.task = r.task /\ n.to = r.to /\ n.pos = r.pos
       /\ n.raced = r.raced
  OBVIOUS
<1> HIDE DEF W, f, n
<1>11. req'[c] = n /\ row' = row /\ Own(c)' = W /\ \A u \in W : work'[u] = f[u]
  <2>1. TypeOK /\ n \in Request /\ W \in SUBSET Tasks
    BY <1>1, <1>3, <1>6
  <2> HIDE DEF r
  <2>2. req'[c] = n /\ row' = row /\ Own(c)' = Own(c) \cup W /\ \A u \in W : work'[u] = f[u]
    BY <1>5, <1>7, <2>1, WriteStep
  <2>3. QED
    BY <1>4, <2>2
<1>12. ShiftInv(c)'
  <2>1. \A u \in W : SamePlace(work'[u], row'[u]) /\ work'[u].pos = row'[u].pos - 1
    BY <1>6, <1>11 DEF SamePlace
  <2>2. \A u \in W : row'[u].status = "live" /\ row'[u].col # n.to
    BY <1>3, <1>8, <1>10, <1>11
  <2>3. ~n.raced => row'[n.task].status = "live" /\ row'[n.task].col # n.to
    BY <1>3, <1>9, <1>10, <1>11 DEF Isolated
  <2>4. ~n.raced => W = GapRows(row', row'[n.task].col, row'[n.task].pos)
    BY <1>9, <1>10, <1>11 DEF Isolated
  <2> HIDE DEF r
  <2>5. W \subseteq Tasks
    BY <1>6
  <2>6. QED
    BY <1>10, <1>11, <2>1, <2>2, <2>3, <2>4, <2>5 DEF ShiftInv, At, Isolated
<1>13. RequestInv(c)'
  BY <1>10, <1>11, <1>12 DEF RequestInv, At
<1>14. QED
  BY <1>3, <1>5, <1>6, <1>7, <1>13, WriteKeepsInv
LEMMA MakeSpaceInv ==
    ASSUME OrderInv, NEW c \in Clients, MakeSpace(c), UNCHANGED mix
    PROVE  OrderInv'
<1> DEFINE r == req[c]
           v == View(c)
           W == SpaceRows(v, r.to, r.pos)
           f == MadeSpace(v)
           n == [r EXCEPT !.pc = "place"]
<1>1. TypeOK /\ At(c, "makeSpace") /\ ShiftInv(c) /\ r.pc = "makeSpace"
  BY DEF OrderInv, RequestInv, MakeSpace, At
<1>2. r \in Shifting
  BY <1>1, Kinds DEF TypeOK
<1>3. /\ r.to \in Columns /\ r.pos \in Nat /\ n \in Request /\ n.pc = "place"
      /\ n.task = r.task /\ n.to = r.to /\ n.pos = r.pos /\ n.raced = r.raced
  BY <1>1, <1>2 DEF Shifting, Request
<1>4. v \in [Tasks -> Row] /\ \A u \in Tasks : v[u] = IF u \in Own(c) THEN work[u] ELSE row[u]
  BY <1>1, ViewType DEF View, Own
<1>5. Write(c, W, f, n)
  BY DEF MakeSpace
<1> HIDE DEF v
<1>6. /\ W \in SUBSET Tasks
      /\ \A u \in W : /\ f[u] \in Row /\ f[u].status = v[u].status /\ f[u].col = v[u].col
                      /\ f[u].pos = v[u].pos + 1
  <2> SUFFICES ASSUME NEW u \in W
               PROVE  /\ u \in Tasks /\ f[u] \in Row /\ f[u].status = v[u].status
                      /\ f[u].col = v[u].col /\ f[u].pos = v[u].pos + 1
    OBVIOUS
  <2>1. r.pos \in Nat
    BY <1>3
  <2> HIDE DEF r
  <2>2. QED
    BY <1>4, <2>1, MadeSpaceRow
<1>7. W \in SUBSET Tasks /\ \A u \in W : f[u] \in Row
  BY <1>6
<1>8. \A u \in Own(c) : u \in Tasks /\ v[u].col = row[u].col /\ row[u].col # r.to
  BY <1>1, <1>4 DEF ShiftInv, SamePlace, Own
<1>9. \A u \in Tasks : u \in W <=> u \in SpaceRows(row, r.to, r.pos)
  BY <1>4, <1>8 DEF SpaceRows, In
<1>10. \A u \in W : u \notin Own(c) /\ v[u] = row[u] /\ row[u].status = "live" /\ row[u].col = r.to
  BY <1>4, <1>8 DEF SpaceRows, In
<1>11. /\ req'[c] = n /\ row' = row /\ Own(c)' = Own(c) \cup W
       /\ \A u \in W : work'[u] = f[u]
       /\ \A u \in Tasks \ W : work'[u] = work[u]
  <2>1. TypeOK /\ n \in Request
    BY <1>1, <1>3
  <2> HIDE DEF W, f, n, r
  <2>2. QED
    BY <1>5, <1>7, <2>1, WriteStep
<1> HIDE DEF W, f, n
<1>12. ShiftInv(c)'
  <2>1. \A u \in Own(c) : /\ row'[u].status = "live" /\ row'[u].col # n.to
                          /\ SamePlace(work'[u], row'[u]) /\ work'[u].pos = row'[u].pos - 1
    <3> TAKE u \in Own(c)
    <3>1. u \in Tasks /\ u \notin W /\ row[u].col # r.to
      BY <1>8, <1>10
    <3>2. row[u].status = "live" /\ SamePlace(work[u], row[u]) /\ work[u].pos = row[u].pos - 1
      BY <1>1, <3>1 DEF ShiftInv
    <3>3. QED
      BY <1>3, <1>11, <3>1, <3>2
  <2>2. \A u \in W : /\ row'[u].status = "live" /\ row'[u].col = n.to
                     /\ SamePlace(work'[u], row'[u]) /\ work'[u].pos = row'[u].pos + 1
    BY <1>3, <1>6, <1>10, <1>11 DEF SamePlace
  <2>3. ~n.raced => /\ row'[n.task].status = "live" /\ row'[n.task].col # n.to
                    /\ \A u \in Tasks : u \in Own(c) <=>
                         u \in GapRows(row', row'[n.task].col, row'[n.task].pos)
    BY <1>1, <1>3, <1>11 DEF ShiftInv, Isolated, At
  <2>4. \A u \in Tasks : u \in W <=> u \in SpaceRows(row', n.to, n.pos)
    BY <1>3, <1>9, <1>11
  <2> HIDE DEF r
  <2>5. QED
    BY <1>3, <1>7, <1>11, <2>1, <2>2, <2>3, <2>4 DEF ShiftInv, At, Isolated
<1>13. RequestInv(c)'
  BY <1>3, <1>11, <1>12 DEF RequestInv, At
<1> HIDE DEF r
<1>14. QED
  BY <1>3, <1>5, <1>7, <1>13, WriteKeepsInv

\* The task takes the place where space was made, and its gap is closed.
LEMMA PlaceInv ==
    ASSUME OrderInv, NEW c \in Clients, Place(c), UNCHANGED mix
    PROVE  OrderInv'
<1> DEFINE r == req[c]
           t == r.task
           W == {t}
           f == [View(c) EXCEPT ![t].col = r.to, ![t].pos = r.pos]
           n == AfterLanding(r, W)
<1>1. TypeOK /\ At(c, "place") /\ ShiftInv(c) /\ r.pc = "place"
  BY DEF OrderInv, RequestInv, Place, At
<1>2. r \in Shifting
  BY <1>1, Kinds DEF TypeOK
<1>3. t \in Tasks /\ r.to \in Columns /\ r.pos \in Nat /\ r.raced \in BOOLEAN
  BY <1>2 DEF Shifting
<1>4. View(c) \in [Tasks -> Row] /\ \A u \in Tasks : View(c)[u] = IF u \in Own(c) THEN work[u] ELSE row[u]
  BY <1>1, ViewType DEF View, Own
<1>5. Commit(c, W, f, {}, n)
  BY DEF Place
<1>6. f[t] \in Row /\ f[t].col = r.to /\ f[t].pos = r.pos /\ f[t].status = View(c)[t].status
  BY <1>3, <1>4 DEF Row
<1>7. W \in SUBSET Tasks /\ {} \in SUBSET Columns /\ \A u \in W : f[u] \in Row
  BY <1>3, <1>6
<1>8. n \in Request
  <2> HIDE DEF r
  <2>1. QED
    BY <1>3, <1>7, AfterLandingType
<1>9. /\ req'[c] = n /\ Own(c)' = {}
      /\ \A u \in W : row'[u] = f[u]
      /\ \A u \in Tasks \ W : row'[u] = View(c)[u]
  <2> HIDE DEF f, t, W, n
  <2>1. QED
    BY <1>1, <1>5, <1>7, <1>8, CommitStep
<1>10. row'[t] = f[t] /\ \A u \in Tasks : u # t => row'[u] = View(c)[u]
  BY <1>9
<1> HIDE DEF f
<1>11. ASSUME Isolated(c)
       PROVE  /\ row[t].status = "live" /\ row[t].col # r.to /\ t \notin Own(c)
              /\ \A u \in Tasks : u # t =>
                   /\ SamePlace(row'[u], row[u])
                   /\ row'[u].pos = IF row[u].status # "live" THEN row[u].pos
                                    ELSE IF row[u].col = row[t].col /\ row[u].pos > row[t].pos
                                      THEN row[u].pos - 1
                                    ELSE IF row[u].col = r.to /\ row[u].pos >= r.pos
                                      THEN row[u].pos + 1
                                    ELSE row[u].pos
  <2>1. /\ row[t].status = "live" /\ row[t].col # r.to
        /\ \A u \in Tasks : u \in Own(c) <=>
             \/ u \in GapRows(row, row[t].col, row[t].pos)
             \/ u \in SpaceRows(row, r.to, r.pos)
    BY <1>1, <1>11 DEF ShiftInv
  <2>2. row \in [Tasks -> Row]
    BY <1>1 DEF TypeOK
  <2>3. \A u \in Tasks : u \in Own(c) <=>
          /\ row[u].status = "live"
          /\ \/ row[u].col = row[t].col /\ row[u].pos > row[t].pos
             \/ row[u].col = r.to /\ row[u].pos >= r.pos
    BY <2>1 DEF GapRows, SpaceRows, In
  <2>4. t \notin Own(c)
    BY <1>3, <2>1, <2>2, <2>3 DEF Row
  <2>5. \A u \in Own(c) : SamePlace(work[u], row[u])
                         /\ work[u].pos = IF row[u].col = r.to THEN row[u].pos + 1 ELSE row[u].pos - 1
    BY <1>1 DEF ShiftInv
  <2> SUFFICES ASSUME NEW u \in Tasks, u # t
               PROVE  /\ SamePlace(row'[u], row[u])
                      /\ row'[u].pos = IF row[u].status # "live" THEN row[u].pos
                                       ELSE IF row[u].col = row[t].col /\ row[u].pos > row[t].pos
                                         THEN row[u].pos - 1
                                       ELSE IF row[u].col = r.to /\ row[u].pos >= r.pos
                                         THEN row[u].pos + 1
                                       ELSE row[u].pos
    BY <2>1, <2>4
  <2>6. CASE u \in Own(c)
    <3>1. row'[u] = work[u]
      BY <1>4, <1>10, <2>6
    <3>2. QED
      BY <2>1, <2>3, <2>5, <2>6, <3>1
  <2>7. CASE u \notin Own(c)
    <3>1. row'[u] = row[u]
      BY <1>4, <1>10, <2>7
    <3>2. QED
      BY <2>1, <2>3, <2>7, <3>1 DEF SamePlace
  <2>8. QED
    BY <2>6, <2>7
<1>12. ASSUME Isolated(c), NEW k \in Columns, Unique(row, k) PROVE Unique(row', k)
  <2> SUFFICES ASSUME NEW u \in In(row', k), NEW w \in In(row', k), u # w
               PROVE  row'[u].pos # row'[w].pos
    BY DEF Unique
  <2> DEFINE from == row[t].col
             was  == row[t].pos
  <2>1. was \in Nat /\ from # r.to /\ row[t].status = "live"
    BY <1>1, <1>3, <1>11, <1>12 DEF TypeOK, Row
  <2>2. ASSUME NEW x \in In(row', k), x # t
        PROVE  /\ x \in In(row, k) /\ row[x].pos \in Nat
               /\ row'[x].pos = IF k = from /\ row[x].pos > was THEN row[x].pos - 1
                                ELSE IF k = r.to /\ row[x].pos >= r.pos THEN row[x].pos + 1
                                ELSE row[x].pos
    <3>1. x \in Tasks /\ row'[x].status = "live" /\ row'[x].col = k
      BY DEF In
    <3>2. row[x].status = "live" /\ row[x].col = k /\ row[x] \in Row
      BY <1>1, <1>11, <1>12, <2>2, <3>1 DEF SamePlace, TypeOK
    <3>3. QED
      BY <1>11, <1>12, <2>2, <3>1, <3>2 DEF In, Row
  <2>3. t \in In(row', k) => k = r.to /\ row'[t].pos = r.pos
    BY <1>6, <1>10 DEF In
  <2>4. k = from => \A x \in In(row, k) : x # t => row[x].pos # was
    BY <1>3, <1>12, <2>1 DEF Unique, In
  <2>5. CASE u # t /\ w # t
    <3>1. row[u].pos # row[w].pos
      BY <1>12, <2>2, <2>5 DEF Unique
    <3>2. QED
      BY <1>3, <2>1, <2>2, <2>4, <2>5, <3>1
  <2>6. CASE u = t \/ w = t
    BY <1>3, <2>1, <2>2, <2>3, <2>6
  <2>7. QED
    BY <2>5, <2>6
<1>13. RequestInv(c)'
  <2>1. ~r.raced => \A u \in W : row'[u].status = "live"
    BY <1>4, <1>6, <1>10, <1>11, <1>3 DEF Isolated
  <2> HIDE DEF r, W
  <2>2. QED
    BY <1>3, <1>7, <1>9, <2>1, AfterLandingInv
<1> HIDE DEF r, W, n, t
<1>14. QED
  BY <1>5, <1>7, <1>8, <1>12, <1>13, CommitKeepsInv

-----------------------------------------------------------------------------
(* reorder within a column *)

\* A numbered list changes positions only.
LEMMA NumberedRow ==
    ASSUME NEW v \in [Tasks -> Row], NEW q \in Seq(Tasks), NEW base \in Nat, NEW t \in Items(q)
    PROVE  /\ t \in Tasks
           /\ Numbered(v, q, base)[t] \in Row
           /\ Numbered(v, q, base)[t].status = v[t].status
           /\ Numbered(v, q, base)[t].col = v[t].col
           /\ Numbered(v, q, base)[t].pos = base + IndexOf(q, t)
<1>1. IndexOf(q, t) \in Nat /\ t \in Tasks
  BY IndexOfItem DEF Items
<1>2. Numbered(v, q, base)[t] = [v[t] EXCEPT !.pos = base + IndexOf(q, t)]
  BY <1>1 DEF Numbered
<1>3. base + IndexOf(q, t) \in Nat /\ v[t] \in Row
  BY <1>1
<1>4. QED
  BY <1>1, <1>2, <1>3 DEF Row

\* The order is that of the column as it is read, with the task spliced in.
LEMMA ReadColumnInv ==
    ASSUME OrderInv, NEW c \in Clients, ReadColumn(c), UNCHANGED mix
    PROVE  OrderInv'
<1> DEFINE r == req[c]
           S == In(row, r.to)
<1>1. TypeOK /\ At(c, "readColumn") /\ MoveInv(c) /\ r.pc = "readColumn"
  BY DEF OrderInv, RequestInv, ReadColumn, At
<1>2. r \in Moving
  BY <1>1, Kinds DEF TypeOK
<1>3. r.task \in Tasks /\ r.to \in Columns /\ r.pos \in Nat /\ r.raced \in BOOLEAN /\ r.from = r.to
  BY <1>1, <1>2 DEF Moving, MoveInv, At
<1>4. Own(c) = {} /\ View(c) = row /\ row \in [Tasks -> Row]
  BY <1>1, ViewOfNone DEF MoveInv, TypeOK
<1>5. Isolated(c) => r.task \in S
  BY <1>1, <1>3 DEF MoveInv, In
<1>6. CASE r.task \notin S
  <2> DEFINE W == {}
             B == {}
             X == {r.task}
             n == AfterLanding(r, X)
  <2>1. Commit(c, W, work, B, n)
    BY <1>6 DEF ReadColumn
  <2>2. W \in SUBSET Tasks /\ B \in SUBSET Columns /\ X \in SUBSET Tasks /\ \A u \in W : work[u] \in Row
    BY <1>3
  <2>3. n \in Request
    <3> HIDE DEF r, X
    <3>1. QED
      BY <1>3, <2>2, AfterLandingType
  <2>4. req'[c] = n /\ Own(c)' = {} /\ \A u \in Tasks \ W : row'[u] = View(c)[u]
    <3> HIDE DEF W, B, n, X, r
    <3>1. TypeOK /\ (\A u \in W : work[u] \in Row) /\ Commit(c, W, work, B, n) /\ UNCHANGED mix
      BY <1>1, <2>1, <2>2
    <3>2. QED
      BY <2>2, <2>3, <3>1, CommitStep
  <2>5. RequestInv(c)'
    <3>1. ~r.raced => \A u \in X : row'[u].status = "live"
      BY <1>5, <1>6 DEF Isolated
    <3>2. req'[c] = AfterLanding(r, X) /\ Own(c)' = {}
      BY <2>4
    <3> HIDE DEF r, X
    <3>3. QED
      BY <1>3, <2>2, <3>1, <3>2, AfterLandingInv
  <2>6. ~Isolated(c)
    BY <1>5, <1>6
  <2> HIDE DEF W, B, n, X, r
  <2>7. QED
    BY <2>1, <2>2, <2>3, <2>5, <2>6, CommitKeepsInv
<1>7. CASE r.task \in S
  <2> DEFINE R == S \ {r.task}
  <2>1. PICK q \in Sorted(row, R) :
          Read(c, [pc |-> "renumber", task |-> r.task, to |-> r.to, pos |-> r.pos,
                   order |-> Spliced(q, r.pos, r.task),
                   changed |-> {t \in S : row[t].pos # IndexOf(Spliced(q, r.pos, r.task), t)},
                   raced |-> r.raced])
    BY <1>7 DEF ReadColumn
  <2> DEFINE all == Spliced(q, r.pos, r.task)
             changed == {t \in S : row[t].pos # IndexOf(all, t)}
             n == [pc |-> "renumber", task |-> r.task, to |-> r.to, pos |-> r.pos, order |-> all,
                   changed |-> changed, raced |-> r.raced]
  <2>2. R \subseteq Tasks /\ IsFiniteSet(R)
    BY OrderConstantsOK, FS_Subset DEF In
  <2>3. /\ q \in Seq(R) /\ Items(q) = R /\ Distinct(q) /\ DOMAIN q = 1 .. Len(q) /\ Len(q) \in Nat
        /\ \A i, j \in DOMAIN q : i < j => row[q[i]].pos <= row[q[j]].pos
    <3> HIDE DEF R
    <3>1. QED
      BY <2>2, SortedLists
  <2>4. q \in Seq(Tasks) /\ r.task \notin Items(q)
    BY <2>2, <2>3
  <2>5. /\ all \in Seq(Tasks) /\ Len(all) = Len(q) + 1 /\ Distinct(all)
        /\ Items(all) = Items(q) \cup {r.task}
        /\ IndexOf(all, r.task) = IF r.pos <= Len(q) THEN r.pos ELSE Len(q)
        /\ \A u, w \in Items(q) : IndexOf(all, u) < IndexOf(all, w) <=> IndexOf(q, u) < IndexOf(q, w)
    <3> HIDE DEF R, r, S
    <3>1. QED
      BY <1>3, <2>3, <2>4, SplicedLists
  <2> HIDE DEF all
  <2>6. Items(all) = S /\ changed \subseteq S /\ changed \subseteq Tasks
    BY <1>7, <2>3, <2>5 DEF In
  <2>7. IndexOf(all, r.task) = IF r.pos < Len(all) THEN r.pos ELSE Len(all) - 1
    BY <1>3, <2>3, <2>5
  <2>8. ASSUME NEW t \in R, NEW u \in R, row[t].pos < row[u].pos
        PROVE  IndexOf(all, t) < IndexOf(all, u)
    <3>1. /\ IndexOf(q, t) + 1 \in DOMAIN q /\ q[IndexOf(q, t) + 1] = t /\ IndexOf(q, t) \in Nat
          /\ IndexOf(q, u) + 1 \in DOMAIN q /\ q[IndexOf(q, u) + 1] = u /\ IndexOf(q, u) \in Nat
      BY <2>3, IndexOfItem
    <3>2. row[t].pos \in Nat /\ row[u].pos \in Nat
      BY <1>4, <2>2 DEF Row
    <3>3. ~(IndexOf(q, u) + 1 < IndexOf(q, t) + 1)
      BY <2>3, <2>8, <3>1, <3>2
    <3>4. IndexOf(q, u) # IndexOf(q, t)
      BY <2>8, <3>1, <3>2
    <3>5. IndexOf(q, t) < IndexOf(q, u)
      BY <3>1, <3>3, <3>4
    <3>6. QED
      BY <2>3, <2>5, <3>5
  <2>9. n \in Request
    <3> HIDE DEF changed, S, r
    <3>1. QED
      BY <1>3, <2>5, <2>6 DEF Request, Renumbering
  <2>10. Read(c, n)
    BY <2>1 DEF all
  <2>11. req'[c] = n /\ row' = row /\ work' = work /\ owner' = owner
    <3> HIDE DEF n
    <3>1. QED
      BY <1>1, <2>9, <2>10, ReadStep
  <2>12. /\ n.pc = "renumber" /\ n.task = r.task /\ n.to = r.to /\ n.pos = r.pos
         /\ n.order = all /\ n.changed = changed /\ n.raced = r.raced
    OBVIOUS
  <2> HIDE DEF n
  <2>13. RenumberInv(c)'
    <3>1. Own(c)' = {}
      BY <1>4, <2>11 DEF Own
    <3>2. In(row', n.to) = S
      BY <2>11, <2>12 DEF In
    <3>3. \A t, u \in S \ {n.task} : row'[t].pos < row'[u].pos => IndexOf(all, t) < IndexOf(all, u)
      BY <2>8, <2>11, <2>12
    <3>4. changed = {t \in S : row'[t].pos # IndexOf(all, t)}
      BY <2>11
    <3>5. n.task \in S /\ IndexOf(all, n.task) = IF n.pos < Len(all) THEN n.pos ELSE Len(all) - 1
      BY <1>7, <2>7, <2>12
    <3>6. n.changed \subseteq Items(n.order)
      BY <2>6, <2>12
    <3> HIDE DEF changed, S, r
    <3>7. /\ Items(n.order) = In(row', n.to) /\ n.task \in In(row', n.to)
          /\ Distinct(n.order)
          /\ n.changed = {t \in In(row', n.to) : row'[t].pos # IndexOf(n.order, t)}
      BY <2>5, <2>6, <2>12, <3>2, <3>4, <3>5
    <3>8. IndexOf(n.order, n.task) = IF n.pos < Len(n.order) THEN n.pos ELSE Len(n.order) - 1
      BY <2>12, <3>5
    <3>9. \A t, u \in In(row', n.to) \ {n.task} :
            row'[t].pos < row'[u].pos => IndexOf(n.order, t) < IndexOf(n.order, u)
      BY <2>12, <3>2, <3>3
    <3>10. QED
      BY <2>11, <3>1, <3>6, <3>7, <3>8, <3>9 DEF RenumberInv
  <2>14. RequestInv(c)'
    BY <2>11, <2>12, <2>13 DEF RequestInv, At
  <2>15. QED
    BY <2>9, <2>10, <2>14, ReadKeepsInv
<1>8. QED
  BY <1>6, <1>7

\* Each task of the column is at its place in the order.
LEMMA RenumberKeepsInv ==
    ASSUME OrderInv, NEW c \in Clients, Renumber(c), UNCHANGED mix
    PROVE  OrderInv'
<1> DEFINE r == req[c]
           W == r.changed
           X == {r.task}
           B == {r.to}
           f == Numbered(View(c), r.order, 0)
           n == AfterLanding(r, X)
<1>1. TypeOK /\ At(c, "renumber") /\ RenumberInv(c) /\ r.pc = "renumber"
  BY DEF OrderInv, RequestInv, Renumber, At
<1>2. r \in Renumbering
  BY <1>1, Kinds DEF TypeOK
<1>3. /\ r.task \in Tasks /\ r.to \in Columns /\ r.pos \in Nat /\ r.raced \in BOOLEAN
      /\ r.order \in Seq(Tasks) /\ W \subseteq Items(r.order) /\ W \in SUBSET Tasks
  BY <1>1, <1>2 DEF Renumbering, RenumberInv
<1>4. Own(c) = {} /\ View(c) = row /\ row \in [Tasks -> Row]
  BY <1>1, ViewOfNone DEF RenumberInv, TypeOK
<1>5. Commit(c, W, f, B, n)
  BY DEF Renumber
<1>6. \A u \in Items(r.order) :
        /\ f[u] \in Row /\ f[u].status = row[u].status /\ f[u].col = row[u].col
        /\ f[u].pos = IndexOf(r.order, u) /\ IndexOf(r.order, u) \in Nat
  <2> TAKE u \in Items(r.order)
  <2>1. /\ f[u] \in Row /\ f[u].status = row[u].status /\ f[u].col = row[u].col
        /\ f[u].pos = 0 + IndexOf(r.order, u)
    <3>1. f = Numbered(row, r.order, 0)
      BY <1>4
    <3> HIDE DEF f, r
    <3>2. QED
      BY <1>3, <1>4, <3>1, NumberedRow
  <2>2. IndexOf(r.order, u) \in Nat
    <3> HIDE DEF r
    <3>1. QED
      BY <1>3, IndexOfItem
  <2> HIDE DEF f, r
  <2>3. QED
    BY <2>1, <2>2
<1> HIDE DEF f
<1>7. B \in SUBSET Columns /\ X \in SUBSET Tasks /\ \A u \in W : f[u] \in Row
  BY <1>3, <1>6
<1>8. n \in Request
  <2> HIDE DEF r, X
  <2>1. QED
    BY <1>3, <1>7, AfterLandingType
<1>9. /\ req'[c] = n /\ Own(c)' = {}
      /\ \A u \in W : row'[u] = f[u]
      /\ \A u \in Tasks \ W : row'[u] = View(c)[u]
  <2> HIDE DEF r, W, n, B
  <2>1. QED
    BY <1>1, <1>3, <1>5, <1>7, <1>8, CommitStep
<1>10. /\ \A u \in W : row'[u] = f[u]
       /\ \A u \in Tasks \ W : row'[u] = row[u]
  BY <1>4, <1>9
<1>11. ASSUME Isolated(c), NEW k \in Columns, Unique(row, k) \/ k \in B PROVE Unique(row', k)
  <2>1. /\ Items(r.order) = In(row, r.to) /\ Distinct(r.order)
        /\ W = {t \in In(row, r.to) : row[t].pos # IndexOf(r.order, t)}
    BY <1>1, <1>11 DEF RenumberInv
  <2> SUFFICES ASSUME NEW u \in In(row', k), NEW w \in In(row', k), u # w
               PROVE  row'[u].pos # row'[w].pos
    BY DEF Unique
  <2>2. ASSUME NEW x \in In(row', k)
        PROVE  x \in In(row, k) /\ row'[x].pos = IF k = r.to THEN IndexOf(r.order, x) ELSE row[x].pos
    <3>1. x \in Tasks /\ row'[x].status = "live" /\ row'[x].col = k
      BY DEF In
    <3>2. CASE x \in W
      <4>1. x \in In(row, r.to) /\ row[x].col = r.to
        BY <2>1, <3>2 DEF In
      <4>2. QED
        BY <1>3, <1>6, <1>10, <2>1, <3>1, <3>2, <4>1 DEF In
    <3>3. CASE x \notin W
      BY <1>10, <2>1, <3>1, <3>3 DEF In
    <3>4. QED
      BY <3>2, <3>3
  <2>3. CASE k = r.to
    <3>1. u \in Items(r.order) /\ w \in Items(r.order)
      BY <2>1, <2>2, <2>3
    <3>2. IndexOf(r.order, u) # IndexOf(r.order, w)
      <4> HIDE DEF r
      <4>1. QED
        BY <1>3, <3>1, IndexOfDiffers
    <3>3. QED
      BY <2>2, <2>3, <3>2
  <2>4. CASE k # r.to
    BY <1>11, <2>2, <2>4 DEF Unique
  <2>5. QED
    BY <2>3, <2>4
<1>12. RequestInv(c)'
  <2>1. ~r.raced => \A u \in X : row'[u].status = "live"
    <3> SUFFICES ASSUME ~r.raced PROVE row'[r.task].status = "live"
      OBVIOUS
    <3>1. r.task \in In(row, r.to) /\ Items(r.order) = In(row, r.to)
      BY <1>1 DEF RenumberInv, Isolated
    <3>2. r.task \in W \/ row'[r.task] = row[r.task]
      BY <1>3, <1>10
    <3>3. QED
      BY <1>6, <1>10, <3>1, <3>2 DEF In
  <2> HIDE DEF r, X
  <2>2. QED
    BY <1>3, <1>7, <1>9, <2>1, AfterLandingInv
<1> HIDE DEF r, W, n, X, B
<1>13. QED
  BY <1>3, <1>5, <1>7, <1>8, <1>11, <1>12, CommitKeepsInv

-----------------------------------------------------------------------------
(* bulkUpdate *)

\* A bulk move that runs alone has moved nothing to another column yet.
LEMMA BulkView ==
    ASSUME TypeOK, NEW c, BulkInv(c), Isolated(c)
    PROVE  /\ \A t \in Tasks : SamePlace(View(c)[t], row[t]) /\ (t \notin Own(c) => View(c)[t] = row[t])
           /\ \A k : In(View(c), k) = In(row, k)
<1>1. \A t \in Tasks : t \notin Own(c) => View(c)[t] = row[t]
  BY DEF View, Own
<1>2. \A t \in Own(c) : View(c)[t] = work[t] /\ SamePlace(work[t], row[t])
  <2>1. \A t \in Own(c) : SamePlace(work[t], row[t])
    BY DEF BulkInv, BulkWrites
  <2>2. QED
    BY <2>1 DEF View, Own
<1>3. \A t \in Tasks : SamePlace(View(c)[t], row[t])
  BY <1>1, <1>2 DEF SamePlace
<1>4. QED
  BY <1>1, <1>3 DEF SamePlace, In

\* A list by position of those that stay: whoever was before is before.
LEMMA StayListOrder ==
    ASSUME TypeOK, NEW stay \in Seq(Tasks), NEW k, NEW ids, StayList(stay, k, ids),
           NEW t \in Items(stay), NEW u \in Items(stay)
    PROVE  /\ row[t].pos < row[u].pos => IndexOf(stay, t) < IndexOf(stay, u)
           /\ t # u => IndexOf(stay, t) # IndexOf(stay, u)
           /\ IndexOf(stay, t) \in Nat /\ IndexOf(stay, t) < Len(stay)
<1>1. /\ IndexOf(stay, t) + 1 \in DOMAIN stay /\ stay[IndexOf(stay, t) + 1] = t
      /\ IndexOf(stay, t) \in Nat /\ IndexOf(stay, t) < Len(stay)
      /\ IndexOf(stay, u) + 1 \in DOMAIN stay /\ stay[IndexOf(stay, u) + 1] = u
      /\ IndexOf(stay, u) \in Nat
  BY IndexOfItem
<1>2. t \in Tasks /\ u \in Tasks
  BY DEF Items
<1>3. row[t].pos \in Nat /\ row[u].pos \in Nat
  BY <1>2 DEF TypeOK, Row
<1>4. \A i, j \in DOMAIN stay : i < j => row[stay[i]].pos <= row[stay[j]].pos
  BY DEF StayList
<1>5. ASSUME row[t].pos < row[u].pos PROVE IndexOf(stay, t) < IndexOf(stay, u)
  <2>1. ~(IndexOf(stay, u) + 1 < IndexOf(stay, t) + 1)
    BY <1>1, <1>3, <1>4, <1>5
  <2>2. IndexOf(stay, u) # IndexOf(stay, t)
    BY <1>1, <1>3, <1>5
  <2>3. QED
    BY <1>1, <2>1, <2>2
<1>6. QED
  BY <1>1, <1>5

LEMMA StartBulkInv ==
    ASSUME OrderInv, NEW c \in Clients, StartBulk(c), UNCHANGED mix
    PROVE  OrderInv'
<1>1. TypeOK /\ At(c, "idle") /\ Own(c) = {}
  BY DEF OrderInv, RequestInv, StartBulk, MayStart
<1> DEFINE Starts(ids, k, q) ==
             /\ \A i, j \in DOMAIN q : i < j => q[i] # q[j]
             /\ Read(c, [pc |-> "bulkRead", ids |-> q, to |-> k, stay |-> <<>>, raced |-> FALSE,
                         sources |-> {row[t].col : t \in ids} \ {k},
                         todo |-> {row[t].col : t \in ids} \ {k},
                         arriving |-> IF k = Done THEN {t \in ids : row[t].col # Done} ELSE {}])
<1>2. \E ids \in SUBSET {t \in Tasks : row[t].status = "live"} \ {{}}, k \in Columns :
         \E q \in [1 .. Cardinality(ids) -> ids] : Starts(ids, k, q)
  BY DEF StartBulk
<1> HIDE DEF Starts
<1>3. PICK ids \in SUBSET {t \in Tasks : row[t].status = "live"} \ {{}}, k \in Columns :
           \E q \in [1 .. Cardinality(ids) -> ids] : Starts(ids, k, q)
  BY <1>2
<1>4. PICK q \in [1 .. Cardinality(ids) -> ids] : Starts(ids, k, q)
  BY <1>3
<1> DEFINE from == {row[t].col : t \in ids} \ {k}
           arriving == IF k = Done THEN {t \in ids : row[t].col # Done} ELSE {}
           r == [pc |-> "bulkRead", ids |-> q, to |-> k, stay |-> <<>>, raced |-> FALSE,
                 sources |-> from, todo |-> from, arriving |-> arriving]
<1>5. ids \subseteq Tasks /\ (\A t \in ids : row[t].status = "live") /\ arriving \subseteq ids
  OBVIOUS
<1>6. q \in Seq(ids) /\ Items(q) = ids /\ Distinct(q)
  <2>1. \A i, j \in DOMAIN q : i < j => q[i] # q[j]
    BY <1>4 DEF Starts
  <2>2. QED
    BY <1>5, <2>1, OrderConstantsOK, FS_Subset, ListsAll
<1>7. q \in Seq(Tasks) /\ <<>> \in Seq(Tasks)
  BY <1>5, <1>6
<1>8. from \subseteq Columns /\ k \notin from /\ \A t \in ids : row[t].col \in from \cup {k}
  BY <1>1, <1>5 DEF TypeOK, Row
<1>9. Read(c, r)
  BY <1>4 DEF Starts
<1> HIDE DEF from, arriving
<1>10. r \in Request
  BY <1>5, <1>7, <1>8 DEF Request, BulkMoving
<1>11. req'[c] = r /\ row' = row /\ work' = work /\ owner' = owner
  <2> HIDE DEF r
  <2>1. QED
    BY <1>1, <1>9, <1>10, ReadStep
<1>12. BulkInv(c)'
  <2>1. Own(c)' = {} /\ View(c)' = row'
    BY <1>1, <1>11 DEF View, Own, TypeOK
  <2>2. /\ r.pc = "bulkRead" /\ r.ids = q /\ r.to = k /\ r.sources = from /\ r.todo = from
        /\ r.arriving = arriving
    OBVIOUS
  <2> HIDE DEF r
  <2>3. BulkMoves(c)'
    BY <1>5, <1>6, <1>8, <1>11, <2>1, <2>2 DEF BulkMoves
  <2>4. BulkWrites(c)' /\ BulkNumbers(c)' /\ BulkList(c)'
    BY <1>11, <2>1, <2>2 DEF BulkWrites, BulkNumbers, BulkList, At
  <2>5. StayInOrder(c, Items(req[c].ids))'
    BY <2>1 DEF StayInOrder
  <2>6. QED
    BY <2>3, <2>4, <2>5 DEF BulkInv
<1>13. RequestInv(c)'
  <2>1. r.pc = "bulkRead"
    OBVIOUS
  <2> HIDE DEF r
  <2>2. QED
    BY <1>11, <1>12, <2>1 DEF RequestInv, At
<1> HIDE DEF r
<1>14. QED
  BY <1>9, <1>10, <1>13, ReadKeepsInv

\* Reading a column for its list: it has not been numbered before.
LEMMA BulkReadInv ==
    ASSUME OrderInv, NEW c \in Clients, BulkRead(c), UNCHANGED mix
    PROVE  OrderInv'
<1> DEFINE r == req[c]
           ids == Items(r.ids)
           v == View(c)
<1>1. TypeOK /\ At(c, "bulkRead") /\ BulkInv(c) /\ r.pc = "bulkRead"
  BY DEF OrderInv, RequestInv, BulkRead, At
<1>2. r \in BulkMoving
  BY <1>1, Kinds DEF TypeOK
<1>3. r.to \in Columns /\ r.todo \subseteq Columns /\ r.sources \subseteq Columns
  BY <1>2 DEF BulkMoving
<1>4. PICK k \in (IF r.todo = {} THEN {r.to} ELSE r.todo) :
        \E q \in Sorted(v, In(v, k) \ ids) :
          Read(c, [r EXCEPT !.pc = IF r.todo = {} THEN "bulkLast" ELSE "bulkWrite",
                            !.todo = @ \ {k}, !.stay = q])
  BY DEF BulkRead
<1>5. PICK q \in Sorted(v, In(v, k) \ ids) :
          Read(c, [r EXCEPT !.pc = IF r.todo = {} THEN "bulkLast" ELSE "bulkWrite",
                            !.todo = @ \ {k}, !.stay = q])
  BY <1>4
<1> DEFINE n == [r EXCEPT !.pc = IF r.todo = {} THEN "bulkLast" ELSE "bulkWrite",
                          !.todo = @ \ {k}, !.stay = q]
           S == In(v, k) \ ids
<1>6. S \subseteq Tasks /\ IsFiniteSet(S)
  BY OrderConstantsOK, FS_Subset DEF In
<1>7. /\ q \in Seq(S) /\ Items(q) = S /\ Distinct(q)
      /\ \A i, j \in DOMAIN q : i < j => v[q[i]].pos <= v[q[j]].pos
  <2> HIDE DEF S, v
  <2>1. QED
    BY <1>5, <1>6, SortedLists DEF S
<1>8. q \in Seq(Tasks)
  BY <1>6, <1>7
<1>9. n \in Request
  <2>1. n \in BulkMoving
    BY <1>2, <1>8 DEF BulkMoving
  <2>2. QED
    BY <2>1 DEF Request
<1>10. Read(c, n)
  BY <1>5
<1>11. req'[c] = n /\ row' = row /\ work' = work /\ owner' = owner
  <2> HIDE DEF n
  <2>1. QED
    BY <1>1, <1>9, <1>10, ReadStep
<1>12. /\ n.pc = IF r.todo = {} THEN "bulkLast" ELSE "bulkWrite"
       /\ n.todo = r.todo \ {k} /\ n.stay = q
       /\ n.ids = r.ids /\ n.to = r.to /\ n.sources = r.sources /\ n.arriving = r.arriving
       /\ n.raced = r.raced
  BY <1>2 DEF BulkMoving
<1> HIDE DEF n
<1>13. ASSUME Isolated(c) PROVE BulkInv(c)'
  <2>1. /\ \A t \in Tasks : SamePlace(v[t], row[t]) /\ (t \notin Own(c) => v[t] = row[t])
        /\ In(v, k) = In(row, k)
    BY <1>1, <1>13, BulkView
  <2>2. /\ Distinct(r.ids) /\ r.arriving \subseteq ids
        /\ r.to \notin r.sources /\ r.todo \subseteq r.sources
        /\ \A t \in ids : /\ row[t].status = "live" /\ t \notin Own(c)
                          /\ row[t].col \in r.sources \cup {r.to}
    BY <1>1, <1>13 DEF BulkInv, BulkMoves
  <2>3. \A t \in Own(c) : /\ row[t].status = "live" /\ SamePlace(work[t], row[t])
                          /\ row[t].col \in r.sources \cup {r.to} /\ row[t].col \notin r.todo
                          /\ row[t].col # r.to
    BY <1>1, <1>13 DEF BulkInv, BulkWrites, At
  <2>4. StayInOrder(c, ids)
    BY <1>1, <1>13 DEF BulkInv
  <2>5. \A t, u \in Tasks \ ids :
           /\ t # u /\ row[t].status = "live" /\ row[u].status = "live"
           /\ row[t].col = row[u].col /\ row[t].col \in r.sources \ r.todo
           => v[t].pos # v[u].pos
    BY <1>1, <1>13 DEF BulkInv, BulkNumbers, At
  <2>6. \A t \in Own(c) : row[t].col # k
    BY <1>4, <2>3
  <2>7. StayList(q, k, ids)
    <3>1. \A t \in S : v[t] = row[t]
      BY <1>6, <2>1, <2>6 DEF In
    <3>2. \A i \in DOMAIN q : q[i] \in S
      BY <1>7 DEF Items
    <3>3. \A i, j \in DOMAIN q : i < j => row[q[i]].pos <= row[q[j]].pos
      BY <1>7, <3>1, <3>2
    <3>4. QED
      BY <1>7, <2>1, <3>3 DEF StayList
  <2>8. Own(c)' = Own(c) /\ View(c)' = v /\ Items(req'[c].ids) = ids /\ In(row', k) = In(row, k)
    BY <1>11, <1>12 DEF Own, View, In
  <2>9. StayList(q, k, Items(req[c].ids))' /\ StayInOrder(c, Items(req[c].ids))'
    <3>1. /\ Items(q) = In(row', k) \ ids /\ Distinct(q)
          /\ \A i, j \in DOMAIN q : i < j => row'[q[i]].pos <= row'[q[j]].pos
      BY <1>11, <2>7, <2>8 DEF StayList
    <3>2. \A t, u \in Tasks \ ids :
            /\ row'[t].status = "live" /\ row'[u].status = "live" /\ row'[t].col = row'[u].col
            /\ row'[t].pos < row'[u].pos
            => v[t].pos < v[u].pos
      BY <1>11, <2>4 DEF StayInOrder
    <3> HIDE DEF ids, v
    <3>3. StayInOrder(c, Items(req[c].ids))'
      BY <2>8, <3>2 DEF StayInOrder
    <3>4. StayList(q, k, Items(req[c].ids))'
      BY <2>8, <3>1 DEF StayList
    <3>5. QED
      BY <3>3, <3>4
  <2>10. Items(q) \cap Own(c) = {}
    BY <1>7, <2>1, <2>6 DEF In
  <2>11. IF r.todo = {} THEN k = r.to /\ n.pc = "bulkLast" /\ n.todo = {}
         ELSE k \in r.todo /\ k \in r.sources \ n.todo /\ n.pc = "bulkWrite" /\ n.todo \subseteq r.sources
    BY <1>4, <1>12, <2>2
  <2>12. BulkMoves(c)'
    BY <1>11, <1>12, <2>2, <2>8, <2>11 DEF BulkMoves
  <2>13. BulkWrites(c)'
    BY <1>11, <1>12, <2>3, <2>8 DEF BulkWrites
  <2>14. BulkNumbers(c)'
    <3>1. ASSUME NEW t \in Tasks \ ids, NEW u \in Tasks \ ids, t # u, row[t].status = "live",
                 row[u].status = "live", row[t].col = row[u].col,
                 row[t].col \in r.sources \ n.todo, n.pc = "bulkWrite" => t \notin Items(n.stay)
          PROVE  v[t].pos # v[u].pos
      <4>1. r.todo # {} => row[t].col # k
        BY <1>7, <1>12, <2>1, <2>11, <3>1 DEF In
      <4>2. row[t].col \in r.sources \ r.todo
        BY <1>12, <3>1, <4>1
      <4>3. QED
        BY <2>5, <3>1, <4>2
    <3>2. \A t, u \in Tasks \ ids :
            /\ t # u /\ row'[t].status = "live" /\ row'[u].status = "live"
            /\ row'[t].col = row'[u].col /\ row'[t].col \in req'[c].sources \ req'[c].todo
            /\ req'[c].pc = "bulkWrite" => t \notin Items(req'[c].stay)
            => v[t].pos # v[u].pos
      BY <1>11, <1>12, <3>1
    <3> HIDE DEF ids, r, v
    <3>3. QED
      BY <2>8, <3>2 DEF BulkNumbers, At
  <2>15. BulkList(c)'
    <3> HIDE DEF r, v
    <3>1. QED
      BY <1>11, <1>12, <2>8, <2>9, <2>10, <2>11 DEF BulkList, At
  <2>16. QED
    BY <2>9, <2>12, <2>13, <2>14, <2>15 DEF BulkInv
<1>14. ~Isolated(c) => BulkInv(c)'
  BY <1>11, <1>12 DEF BulkInv, Isolated
<1>15. RequestInv(c)'
  BY <1>11, <1>12, <1>13, <1>14 DEF RequestInv, At
<1> HIDE DEF r
<1>16. QED
  BY <1>9, <1>10, <1>15, ReadKeepsInv
\* The list in hand is written: its column is numbered in the order it had.
LEMMA BulkWriteInv ==
    ASSUME OrderInv, NEW c \in Clients, BulkWrite(c), UNCHANGED mix
    PROVE  OrderInv'
<1> DEFINE r == req[c]
           ids == Items(r.ids)
           W == Items(r.stay)
           v == View(c)
           f == Numbered(v, r.stay, 0)
           n == [r EXCEPT !.pc = IF @ = "bulkWrite" THEN "bulkRead" ELSE "bulkPlace"]
<1>1. TypeOK /\ r.pc \in {"bulkWrite", "bulkLast"} /\ BulkInv(c)
  BY DEF OrderInv, RequestInv, BulkWrite, At
<1>2. r \in BulkMoving
  BY <1>1, Kinds DEF TypeOK
<1>3. n \in Request
  <2>1. n \in BulkMoving
    BY <1>2 DEF BulkMoving
  <2>2. QED
    BY <2>1 DEF Request
<1>4. /\ n.pc = IF r.pc = "bulkWrite" THEN "bulkRead" ELSE "bulkPlace"
      /\ n.todo = r.todo /\ n.stay = r.stay
      /\ n.ids = r.ids /\ n.to = r.to /\ n.sources = r.sources /\ n.arriving = r.arriving
      /\ n.raced = r.raced
  BY <1>2 DEF BulkMoving
<1>5. Write(c, W, f, n)
  BY DEF BulkWrite
<1>6. r.stay \in Seq(Tasks) /\ v \in [Tasks -> Row]
  BY <1>1, <1>2, ViewType DEF BulkMoving
<1>7. \A u \in W : /\ u \in Tasks /\ f[u] \in Row /\ f[u].status = v[u].status /\ f[u].col = v[u].col
                   /\ f[u].pos = 0 + IndexOf(r.stay, u)
  <2> HIDE DEF r, v
  <2>1. QED
    BY <1>6, NumberedRow
<1>8. W \in SUBSET Tasks /\ \A u \in W : f[u] \in Row
  BY <1>7
<1>9. /\ req'[c] = n /\ row' = row /\ Own(c)' = Own(c) \cup W
      /\ \A u \in W : work'[u] = f[u] /\ View(c)'[u] = f[u]
      /\ \A u \in Tasks \ W : work'[u] = work[u] /\ View(c)'[u] = v[u]
  <2> HIDE DEF n, f, W, r
  <2>1. QED
    BY <1>1, <1>3, <1>5, <1>8, WriteStep DEF v
<1> HIDE DEF n, f
<1>10. ASSUME Isolated(c) PROVE BulkInv(c)'
  <2>1. /\ \A t \in Tasks : SamePlace(v[t], row[t]) /\ (t \notin Own(c) => v[t] = row[t])
    BY <1>1, <1>10, BulkView
  <2>2. /\ Distinct(r.ids) /\ r.arriving \subseteq ids
        /\ r.to \notin r.sources /\ r.todo \subseteq r.sources
        /\ r.pc = "bulkLast" => r.todo = {}
        /\ \A t \in ids : /\ row[t].status = "live" /\ t \notin Own(c)
                          /\ row[t].col \in r.sources \cup {r.to}
    BY <1>1, <1>10 DEF BulkInv, BulkMoves
  <2>3. \A t \in Own(c) : /\ row[t].status = "live" /\ SamePlace(work[t], row[t])
                          /\ row[t].col \in r.sources \cup {r.to} /\ row[t].col \notin r.todo
                          /\ row[t].col # r.to
    BY <1>1, <1>10 DEF BulkInv, BulkWrites, At
  <2>4. StayInOrder(c, ids)
    BY <1>1, <1>10 DEF BulkInv
  <2>5. \A t, u \in Tasks \ ids :
           /\ t # u /\ row[t].status = "live" /\ row[u].status = "live"
           /\ row[t].col = row[u].col /\ row[t].col \in r.sources \ r.todo
           /\ r.pc = "bulkWrite" => t \notin W
           => v[t].pos # v[u].pos
    BY <1>1, <1>10 DEF BulkInv, BulkNumbers, At
  <2>6. PICK k : /\ StayList(r.stay, k, ids)
                 /\ r.pc = "bulkWrite" => k \in r.sources \ r.todo
                 /\ r.pc = "bulkLast" => k = r.to
                 /\ W \cap Own(c) = {}
    <3>1. CASE r.pc = "bulkWrite"
      BY <1>1, <1>10, <3>1 DEF BulkInv, BulkList, At
    <3>2. CASE r.pc = "bulkLast"
      <4>1. StayList(r.stay, r.to, ids)
        BY <1>1, <1>10, <3>2 DEF BulkInv, BulkList, At
      <4>2. \A u \in W : row[u].col = r.to
        BY <4>1 DEF StayList, In
      <4>3. W \cap Own(c) = {}
        BY <2>3, <4>2
      <4>4. QED
        BY <3>2, <4>1, <4>3
    <3>3. QED
      BY <1>1, <3>1, <3>2
  <2>7. /\ \A u \in Tasks : u \in W <=> row[u].status = "live" /\ row[u].col = k /\ u \notin ids
        /\ k \notin r.todo
    <3>1. W = In(row, k) \ ids
      BY <2>6 DEF StayList
    <3>2. k \notin r.todo
      BY <1>1, <2>2, <2>6
    <3> HIDE DEF W, ids
    <3>3. QED
      BY <3>1, <3>2 DEF In
  <2>8. \A t \in W, u \in W : /\ row[t].pos < row[u].pos => IndexOf(r.stay, t) < IndexOf(r.stay, u)
                              /\ t # u => IndexOf(r.stay, t) # IndexOf(r.stay, u)
                              /\ IndexOf(r.stay, t) \in Nat /\ IndexOf(r.stay, t) < Len(r.stay)
    <3> HIDE DEF r, ids
    <3>1. QED
      BY <1>1, <1>6, <2>6, StayListOrder
  <2>9. \A u \in W : View(c)'[u].pos = IndexOf(r.stay, u)
    BY <1>7, <1>9, <2>8
  <2>10. Items(req'[c].ids) = ids /\ Items(req'[c].stay) = W
    BY <1>4, <1>9
  <2>11. BulkMoves(c)'
    <3>1. \A t \in ids : t \notin W
      <4> HIDE DEF ids, W
      <4>1. QED
        BY <1>8, <2>7
    <3>2. n.pc = "bulkPlace" => r.todo = {}
      BY <1>1, <1>4, <2>2
    <3>3. n.pc # "bulkLast"
      BY <1>4
    <3> HIDE DEF ids, W, r
    <3>4. QED
      BY <1>4, <1>9, <2>2, <2>10, <3>1, <3>2, <3>3 DEF BulkMoves
  <2>12. BulkWrites(c)'
    <3>1. \A t \in W : SamePlace(work'[t], row'[t])
      BY <1>7, <1>8, <1>9, <2>1 DEF SamePlace
    <3>2. \A t \in Own(c) : t \in Tasks /\ SamePlace(work'[t], row'[t])
      BY <1>9, <2>3, <2>6 DEF Own
    <3>3. \A t \in W : /\ row'[t].status = "live"
                       /\ row'[t].col \in n.sources \cup {n.to} /\ row'[t].col \notin n.todo
                       /\ row'[t].col = n.to => n.pc = "bulkPlace"
      BY <1>1, <1>4, <1>8, <1>9, <2>2, <2>6, <2>7
    <3>4. \A t \in Own(c) : /\ row'[t].status = "live"
                            /\ row'[t].col \in n.sources \cup {n.to} /\ row'[t].col \notin n.todo
                            /\ row'[t].col # n.to
      BY <1>4, <1>9, <2>3
    <3> HIDE DEF W, r
    <3>5. \A t \in Own(c)' : /\ row'[t].status = "live" /\ SamePlace(work'[t], row'[t])
                             /\ row'[t].col \in n.sources \cup {n.to} /\ row'[t].col \notin n.todo
                             /\ row'[t].col = n.to => n.pc = "bulkPlace"
      BY <1>9, <3>1, <3>2, <3>3, <3>4
    <3>6. QED
      BY <1>9, <3>5 DEF BulkWrites, At
  <2>13. ASSUME NEW t \in Tasks \ ids, NEW u \in Tasks \ ids, row[t].status = "live",
                row[u].status = "live", row[t].col = row[u].col
         PROVE  \/ /\ t \in W /\ u \in W /\ row[t].col = k
                   /\ View(c)'[t].pos = IndexOf(r.stay, t) /\ View(c)'[u].pos = IndexOf(r.stay, u)
                \/ /\ t \notin W /\ u \notin W /\ row[t].col # k
                   /\ View(c)'[t] = v[t] /\ View(c)'[u] = v[u]
    <3>1. t \in W <=> row[t].col = k
      BY <2>7, <2>13
    <3>2. u \in W <=> row[u].col = k
      BY <2>7, <2>13
    <3> HIDE DEF W, v, r
    <3>3. QED
      BY <1>9, <2>9, <2>13, <3>1, <3>2
  <2>14. BulkNumbers(c)'
    <3>1. ASSUME NEW t \in Tasks \ ids, NEW u \in Tasks \ ids, t # u, row[t].status = "live",
                 row[u].status = "live", row[t].col = row[u].col, row[t].col \in r.sources \ r.todo
          PROVE  View(c)'[t].pos # View(c)'[u].pos
      <4>1. CASE t \in W /\ u \in W
        BY <2>8, <2>9, <3>1, <4>1
      <4>2. CASE t \notin W /\ View(c)'[t] = v[t] /\ View(c)'[u] = v[u]
        BY <2>5, <3>1, <4>2
      <4>3. QED
        BY <2>13, <3>1, <4>1, <4>2
    <3>2. \A t, u \in Tasks \ ids :
            /\ t # u /\ row'[t].status = "live" /\ row'[u].status = "live"
            /\ row'[t].col = row'[u].col /\ row'[t].col \in req'[c].sources \ req'[c].todo
            => View(c)'[t].pos # View(c)'[u].pos
      BY <1>4, <1>9, <3>1
    <3> HIDE DEF ids
    <3>3. QED
      BY <2>10, <3>2 DEF BulkNumbers
  <2>15. StayInOrder(c, Items(req[c].ids))'
    <3>1. ASSUME NEW t \in Tasks \ ids, NEW u \in Tasks \ ids, row[t].status = "live",
                 row[u].status = "live", row[t].col = row[u].col, row[t].pos < row[u].pos
          PROVE  View(c)'[t].pos < View(c)'[u].pos
      <4>1. CASE t \in W /\ u \in W
        BY <2>8, <2>9, <3>1, <4>1
      <4>2. CASE View(c)'[t] = v[t] /\ View(c)'[u] = v[u]
        BY <2>4, <3>1, <4>2 DEF StayInOrder
      <4>3. QED
        BY <2>13, <3>1, <4>1, <4>2
    <3> HIDE DEF ids
    <3>2. QED
      BY <1>9, <2>10, <3>1 DEF StayInOrder
  <2>16. BulkList(c)'
    <3>1. n.pc = "bulkPlace" =>
            \A t \in In(row', n.to) \ ids :
              /\ View(c)'[t].pos < Len(n.stay)
              /\ \A u \in In(row', n.to) \ ids : t # u => View(c)'[t].pos # View(c)'[u].pos
      <4> SUFFICES ASSUME n.pc = "bulkPlace"
                   PROVE  \A t \in In(row', n.to) \ ids :
                            /\ View(c)'[t].pos < Len(n.stay)
                            /\ \A u \in In(row', n.to) \ ids : t # u => View(c)'[t].pos # View(c)'[u].pos
        OBVIOUS
      <4>1. r.pc = "bulkLast" /\ k = n.to
        BY <1>1, <1>4, <2>6
      <4>2. \A t \in In(row', n.to) \ ids : t \in W
        BY <1>9, <2>7, <4>1 DEF In
      <4> HIDE DEF W, ids, r
      <4>3. QED
        BY <1>4, <2>8, <2>9, <4>2
    <3>2. n.pc \notin {"bulkWrite", "bulkLast"}
      BY <1>4
    <3> HIDE DEF W, ids, r
    <3>3. QED
      BY <1>9, <2>10, <3>1, <3>2 DEF BulkList, At
  <2>17. QED
    BY <2>11, <2>12, <2>14, <2>15, <2>16 DEF BulkInv
<1>11. ~Isolated(c) => BulkInv(c)'
  BY <1>4, <1>9 DEF BulkInv, Isolated
<1>12. RequestInv(c)'
  BY <1>4, <1>9, <1>10, <1>11 DEF RequestInv, At
<1> HIDE DEF r, W
<1>13. QED
  BY <1>3, <1>5, <1>8, <1>12, WriteKeepsInv
\* Those who come are numbered behind those who stay.
LEMMA BulkPlaceInv ==
    ASSUME OrderInv, NEW c \in Clients, BulkPlace(c), UNCHANGED mix
    PROVE  OrderInv'
<1> DEFINE r == req[c]
           W == Items(r.ids)
           v == View(c)
           here == [t \in Tasks |-> IF t \in W THEN [v[t] EXCEPT !.col = r.to] ELSE v[t]]
           f == Numbered(here, r.ids, Len(r.stay))
           B == r.sources \cup {r.to}
           n == AfterLanding(r, r.arriving)
<1>1. TypeOK /\ r.pc = "bulkPlace" /\ At(c, "bulkPlace") /\ BulkInv(c)
  BY DEF OrderInv, RequestInv, BulkPlace, At
<1>2. r \in BulkMoving
  BY <1>1, Kinds DEF TypeOK
<1>3. /\ r.to \in Columns /\ B \in SUBSET Columns /\ r.arriving \in SUBSET Tasks /\ r.raced \in BOOLEAN
      /\ r.ids \in Seq(Tasks) /\ Len(r.stay) \in Nat
  BY <1>2 DEF BulkMoving
<1>4. v \in [Tasks -> Row] /\ W \in SUBSET Tasks
  BY <1>1, <1>3, ViewType DEF Items
<1>5. Commit(c, W, f, B, n)
  BY DEF BulkPlace
<1>6. here \in [Tasks -> Row] /\ \A u \in W : here[u].status = v[u].status /\ here[u].col = r.to
  BY <1>3, <1>4 DEF Row
<1>7. \A u \in W : /\ f[u] \in Row /\ f[u].status = v[u].status /\ f[u].col = r.to
                   /\ f[u].pos = Len(r.stay) + IndexOf(r.ids, u)
                   /\ IndexOf(r.ids, u) \in Nat
  <2> TAKE u \in W
  <2>1. /\ f[u] \in Row /\ f[u].status = here[u].status /\ f[u].col = here[u].col
        /\ f[u].pos = Len(r.stay) + IndexOf(r.ids, u)
    <3>1. u \in Items(r.ids)
      OBVIOUS
    <3> HIDE DEF here, r, W
    <3>2. QED
      BY <1>3, <1>6, <3>1, NumberedRow
  <2>2. IndexOf(r.ids, u) \in Nat
    <3>1. u \in Items(r.ids)
      OBVIOUS
    <3> HIDE DEF r
    <3>2. QED
      BY <1>3, <3>1, IndexOfItem
  <2> HIDE DEF f, here, r, v
  <2>3. QED
    BY <1>6, <2>1, <2>2
<1>8. \A u \in W : f[u] \in Row
  BY <1>7
<1> HIDE DEF f, here
<1>9. n \in Request
  <2> HIDE DEF r
  <2>1. QED
    BY <1>3, AfterLandingType
<1>10. /\ req'[c] = n /\ Own(c)' = {}
       /\ \A u \in W : row'[u] = f[u]
       /\ \A u \in Tasks \ W : row'[u] = View(c)[u]
  <2> HIDE DEF r, W, n, B
  <2>1. QED
    BY <1>1, <1>3, <1>4, <1>5, <1>8, <1>9, CommitStep
<1>11. ASSUME Isolated(c)
       PROVE  /\ Distinct(r.ids) /\ r.arriving \subseteq W /\ r.to \notin r.sources /\ r.todo = {}
              /\ \A u \in W : v[u].status = "live" /\ row[u].col \in B
              /\ \A u \in Tasks : SamePlace(v[u], row[u])
              /\ \A u \in Tasks : v[u] = row[u] \/ row[u].col \in B
  <2>1. /\ Distinct(r.ids) /\ r.arriving \subseteq W /\ r.to \notin r.sources /\ r.todo = {}
        /\ \A u \in W : row[u].status = "live" /\ row[u].col \in B
    BY <1>1, <1>11 DEF BulkInv, BulkMoves
  <2>2. \A u \in Tasks : SamePlace(v[u], row[u]) /\ (u \notin Own(c) => v[u] = row[u])
    BY <1>1, <1>11, BulkView
  <2>3. \A u \in Own(c) : row[u].col \in B
    BY <1>1, <1>11 DEF BulkInv, BulkWrites
  <2> HIDE DEF B, W, v, r
  <2>4. QED
    BY <1>4, <2>1, <2>2, <2>3 DEF SamePlace
<1>12. ASSUME Isolated(c), NEW k \in Columns, Unique(row, k) \/ k \in B PROVE Unique(row', k)
  <2> SUFFICES ASSUME NEW u \in In(row', k), NEW w \in In(row', k), u # w
               PROVE  row'[u].pos # row'[w].pos
    BY DEF Unique
  <2>1. ASSUME NEW x \in In(row', k)
        PROVE  /\ x \in Tasks
               /\ x \in W => k = r.to /\ row'[x].pos = Len(r.stay) + IndexOf(r.ids, x)
               /\ x \notin W => x \in In(row, k) /\ row'[x] = v[x] /\ v[x].pos \in Nat
    <3>1. x \in Tasks /\ row'[x].status = "live" /\ row'[x].col = k
      BY DEF In
    <3>2. CASE x \in W
      BY <1>7, <1>10, <3>1, <3>2
    <3>3. CASE x \notin W
      <4>1. row'[x] = v[x] /\ v[x] \in Row /\ SamePlace(v[x], row[x])
        BY <1>4, <1>10, <1>11, <1>12, <3>1, <3>3
      <4> HIDE DEF v, W
      <4>2. QED
        BY <3>1, <3>3, <4>1 DEF In, SamePlace, Row
    <3>4. QED
      BY <3>2, <3>3
  <2>2. CASE k = r.to
    <3>1. \A x \in In(row, r.to) \ W :
            /\ v[x].pos < Len(r.stay)
            /\ \A y \in In(row, r.to) \ W : x # y => v[x].pos # v[y].pos
      BY <1>1, <1>12 DEF BulkInv, BulkList, At
    <3>2. \A x \in W, y \in W : x # y => IndexOf(r.ids, x) # IndexOf(r.ids, y)
      <4> HIDE DEF r
      <4>1. QED
        BY <1>3, IndexOfDiffers
    <3>3. \A x \in W : IndexOf(r.ids, x) \in Nat
      BY <1>7
    <3> HIDE DEF r, W, v
    <3>4. QED
      BY <1>3, <2>1, <2>2, <3>1, <3>2, <3>3
  <2>3. CASE k \in r.sources
    <3>1. \A x, y \in Tasks \ W :
            /\ x # y /\ row[x].status = "live" /\ row[y].status = "live"
            /\ row[x].col = row[y].col /\ row[x].col \in r.sources \ r.todo
            => v[x].pos # v[y].pos
      BY <1>1, <1>12 DEF BulkInv, BulkNumbers, At
    <3>2. k # r.to /\ r.todo = {}
      BY <1>11, <1>12, <2>3
    <3>3. u \in In(row, k) \ W /\ w \in In(row, k) \ W /\ row'[u] = v[u] /\ row'[w] = v[w]
      BY <2>1, <3>2
    <3> HIDE DEF W, v, r
    <3>4. QED
      BY <2>3, <3>1, <3>2, <3>3 DEF In
  <2>4. CASE k \notin B
    <3>1. ASSUME NEW x \in In(row', k) PROVE x \in In(row, k) /\ row'[x] = row[x]
      <4>1. x \notin W /\ x \in In(row, k) /\ row'[x] = v[x]
        BY <2>1, <2>4, <3>1
      <4>2. x \in Tasks /\ row[x].col = k
        BY <4>1 DEF In
      <4>3. v[x] = row[x]
        BY <1>11, <1>12, <2>4, <4>2
      <4>4. QED
        BY <4>1, <4>3
    <3>2. QED
      BY <1>12, <2>4, <3>1 DEF Unique
  <2>5. QED
    BY <2>2, <2>3, <2>4
<1>13. RequestInv(c)'
  <2>1. ~r.raced => \A u \in r.arriving : row'[u].status = "live"
    BY <1>7, <1>10, <1>11 DEF Isolated
  <2> HIDE DEF r
  <2>2. QED
    BY <1>3, <1>10, <2>1, AfterLandingInv
<1> HIDE DEF r, W, n, B
<1>14. QED
  BY <1>3, <1>4, <1>5, <1>8, <1>9, <1>12, <1>13, CommitKeepsInv

-----------------------------------------------------------------------------
(* handleRecurrenceCompletion *)

LEMMA ReadLandedInv ==
    ASSUME OrderInv, NEW c \in Clients, ReadLanded(c), UNCHANGED mix
    PROVE  OrderInv'
<1> DEFINE r == req[c]
           due == {<<t, row[t].col, row[t].pos>> : t \in r.due}
           n == [pc |-> "recur", due |-> due, raced |-> r.raced]
<1>1. TypeOK /\ r.pc = "landed" /\ LandedInv(c)
  BY DEF OrderInv, RequestInv, ReadLanded, At
<1>2. r \in Landing /\ r.due \subseteq Tasks /\ r.raced \in BOOLEAN
  BY <1>1, Kinds DEF TypeOK, Landing
<1>3. \A t \in r.due : row[t] \in Row
  BY <1>1, <1>2 DEF TypeOK
<1>4. n \in Request
  <2>1. due \in SUBSET Places
    BY <1>2, <1>3 DEF Places, Row
  <2> HIDE DEF due
  <2>2. QED
    BY <1>2, <2>1 DEF Request, Recurring
<1>5. Read(c, n)
  BY DEF ReadLanded
<1>6. req'[c] = n /\ row' = row /\ work' = work /\ owner' = owner
  <2> HIDE DEF n
  <2>1. QED
    BY <1>1, <1>4, <1>5, ReadStep
<1>7. RecurInv(c)'
  <2>1. Own(c)' = {}
    BY <1>1, <1>6 DEF LandedInv, Own
  <2>2. ASSUME ~r.raced, NEW d \in due PROVE row'[d[1]] = [status |-> "live", col |-> d[2], pos |-> d[3]]
    <3>1. PICK t \in r.due : d = <<t, row[t].col, row[t].pos>>
      OBVIOUS
    <3>2. row[t].status = "live"
      BY <1>1, <2>2 DEF LandedInv, Isolated
    <3>3. row[t] = [status |-> "live", col |-> row[t].col, pos |-> row[t].pos]
      BY <1>3, <3>2 DEF Row
    <3>4. QED
      BY <1>6, <3>1, <3>3
  <2>3. n.due = due /\ n.raced = r.raced
    OBVIOUS
  <2> HIDE DEF due, n
  <2>4. QED
    BY <1>6, <2>1, <2>2, <2>3 DEF RecurInv, Due, Isolated
<1>8. RequestInv(c)'
  BY <1>6, <1>7 DEF RequestInv, At
<1> HIDE DEF n
<1>9. QED
  BY <1>4, <1>5, <1>8, ReadKeepsInv

\* The gap of the task to be put back is closed.
LEMMA RecurCloseGapInv ==
    ASSUME OrderInv, NEW c \in Clients, RecurCloseGap(c), UNCHANGED mix
    PROVE  OrderInv'
<1> DEFINE r == req[c]
<1>1. TypeOK /\ r.pc = "recur" /\ RecurInv(c)
  BY DEF OrderInv, RequestInv, RecurCloseGap, At
<1>2. r.due \subseteq Places /\ r.raced \in BOOLEAN
  BY <1>1, Kinds DEF TypeOK, Recurring
<1>3. Own(c) = {} /\ View(c) = row /\ row \in [Tasks -> Row]
  BY <1>1, ViewOfNone DEF RecurInv, TypeOK
<1>4. PICK d \in r.due :
        Write(c, GapRows(row, d[2], d[3]), ClosedGap(row),
              [pc |-> "recurLast", task |-> d[1], pos |-> 0, due |-> r.due \ {d}, raced |-> r.raced])
  BY <1>3 DEF RecurCloseGap
<1> DEFINE W == GapRows(row, d[2], d[3])
           f == ClosedGap(row)
           n == [pc |-> "recurLast", task |-> d[1], pos |-> 0, due |-> r.due \ {d}, raced |-> r.raced]
<1>5. d[1] \in Tasks /\ d[2] \in Columns /\ d[3] \in Nat
  BY <1>2 DEF Places
<1>6. n \in Request
  BY <1>2, <1>5 DEF Request, Returning
<1>7. \A u \in W : /\ u \in Tasks /\ f[u] \in Row /\ f[u].status = row[u].status /\ f[u].col = row[u].col
                   /\ f[u].pos = row[u].pos - 1
  <2>1. d[3] \in Nat
    BY <1>5
  <2> HIDE DEF r
  <2>2. QED
    BY <1>3, <2>1, ClosedGapRow
<1>8. W \in SUBSET Tasks /\ (\A u \in W : f[u] \in Row) /\ Write(c, W, f, n)
  BY <1>4, <1>7
<1>9. req'[c] = n /\ row' = row /\ Own(c)' = W /\ \A u \in W : work'[u] = f[u]
  <2> HIDE DEF W, f, n, r
  <2>1. req'[c] = n /\ row' = row /\ Own(c)' = Own(c) \cup W /\ \A u \in W : work'[u] = f[u]
    BY <1>1, <1>6, <1>8, WriteStep
  <2>2. QED
    BY <1>3, <2>1
<1>10. n.pc = "recurLast" /\ n.task = d[1] /\ n.due = r.due \ {d} /\ n.raced = r.raced
  OBVIOUS
<1> HIDE DEF f, n
<1>11. ReturnInv(c)'
  <2>1. \A u \in W : /\ row'[u].status = "live" /\ SamePlace(work'[u], row'[u])
                     /\ work'[u].pos = row'[u].pos - 1 /\ row'[u].pos \in Nat
    BY <1>3, <1>7, <1>9 DEF SamePlace, GapRows, In, Row
  <2>2. ASSUME ~r.raced
        PROVE  /\ row'[n.task].status = "live"
               /\ \A e \in n.due : row'[e[1]] = [status |-> "live", col |-> e[2], pos |-> e[3]]
               /\ W = GapRows(row', row'[n.task].col, row'[n.task].pos)
    <3>1. \A e \in r.due : row[e[1]] = [status |-> "live", col |-> e[2], pos |-> e[3]]
      BY <1>1, <2>2 DEF RecurInv, Due, Isolated
    <3>2. row[d[1]].status = "live" /\ row[d[1]].col = d[2] /\ row[d[1]].pos = d[3]
      <4>1. row[d[1]] = [status |-> "live", col |-> d[2], pos |-> d[3]]
        BY <3>1
      <4>2. QED
        BY <4>1
    <3> HIDE DEF r
    <3>3. QED
      BY <1>9, <1>10, <3>1, <3>2
  <2> HIDE DEF W, r
  <2>3. \A u \in W : /\ row'[u].status = "live" /\ SamePlace(work'[u], row'[u])
                     /\ work'[u].pos \in row'[u].pos - 1 .. row'[u].pos + 1
                     /\ work'[u].pos = row'[u].pos - 1
                     /\ \A w \in W : row'[u].col = row'[w].col /\ row'[u].pos < row'[w].pos
                                       => work'[u].pos <= work'[w].pos
    BY <2>1
  <2>4. QED
    BY <1>9, <1>10, <2>2, <2>3 DEF ReturnInv, At, Isolated, Due
<1>12. RequestInv(c)'
  BY <1>9, <1>10, <1>11 DEF RequestInv, At
<1> HIDE DEF W, r
<1>13. QED
  BY <1>6, <1>8, <1>12, WriteKeepsInv

\* The position behind the last task of the origin column.
LEMMA RecurLastInv ==
    ASSUME OrderInv, NEW c \in Clients, RecurLast(c), UNCHANGED mix
    PROVE  OrderInv'
<1> DEFINE r == req[c]
           p == NextPosition(View(c), Origin)
           n == [r EXCEPT !.pc = "recurSpace", !.pos = p]
<1>1. TypeOK /\ r.pc = "recurLast" /\ ReturnInv(c)
  BY DEF OrderInv, RequestInv, RecurLast, At
<1>2. r \in Returning
  BY <1>1, Kinds DEF TypeOK
<1>3. p \in Nat /\ \A u \in In(View(c), Origin) : View(c)[u].pos < p
  BY <1>1, ViewType, NextPositionIsFree
<1> HIDE DEF p
<1>4. /\ n \in Request /\ n.pc = "recurSpace" /\ n.task = r.task /\ n.pos = p /\ n.due = r.due
      /\ n.raced = r.raced
  BY <1>2, <1>3 DEF Returning, Request
<1>5. Read(c, n)
  BY DEF RecurLast, p
<1> HIDE DEF n
<1>6. req'[c] = n /\ row' = row /\ work' = work /\ owner' = owner
  BY <1>1, <1>4, <1>5, ReadStep
<1>7. ReturnInv(c)'
  <2>1. Own(c)' = Own(c) /\ View(c)' = View(c)
    BY <1>6 DEF Own, View
  <2>2. \A t \in Own(c) :
         /\ row[t].status = "live" /\ SamePlace(work[t], row[t])
         /\ work[t].pos \in row[t].pos - 1 .. row[t].pos + 1
         /\ work[t].pos = row[t].pos - 1
         /\ \A u \in Own(c) : row[t].col = row[u].col /\ row[t].pos < row[u].pos
                                => work[t].pos <= work[u].pos
    BY <1>1 DEF ReturnInv, At
  <2>3. ~r.raced =>
         /\ row[r.task].status = "live"
         /\ \A d \in r.due : row[d[1]] = [status |-> "live", col |-> d[2], pos |-> d[3]]
         /\ Own(c) = GapRows(row, row[r.task].col, row[r.task].pos)
    BY <1>1 DEF ReturnInv, Isolated, Due
  <2> HIDE DEF r
  <2>4. \A t \in Own(c)' : SamePlace(work[t], row[t])'
    BY <1>6, <2>1, <2>2 DEF SamePlace
  <2>5. In(View(c), Origin)' = In(View(c), Origin)
    BY <2>1 DEF In
  <2>6. QED
    BY <1>3, <1>4, <1>6, <2>1, <2>2, <2>3, <2>4, <2>5 DEF ReturnInv, At, Isolated, Due
<1>8. RequestInv(c)'
  BY <1>4, <1>6, <1>7 DEF RequestInv, At
<1>9. QED
  BY <1>4, <1>5, <1>8, ReadKeepsInv
\* Space behind the last task: nobody moves if the request runs alone.
LEMMA RecurMakeSpaceInv ==
    ASSUME OrderInv, NEW c \in Clients, RecurMakeSpace(c), UNCHANGED mix
    PROVE  OrderInv'
<1> DEFINE r == req[c]
           v == View(c)
           W == SpaceRows(v, Origin, r.pos)
           f == MadeSpace(v)
           n == [r EXCEPT !.pc = "recurPlace"]
<1>1. TypeOK /\ r.pc = "recurSpace" /\ ReturnInv(c)
  BY DEF OrderInv, RequestInv, RecurMakeSpace, At
<1>2. r \in Returning
  BY <1>1, Kinds DEF TypeOK
<1>3. /\ r.pos \in Nat /\ n \in Request /\ n.pc = "recurPlace" /\ n.task = r.task /\ n.pos = r.pos
      /\ n.due = r.due /\ n.raced = r.raced
  BY <1>2 DEF Returning, Request
<1>4. v \in [Tasks -> Row] /\ \A u \in Tasks : v[u] = IF u \in Own(c) THEN work[u] ELSE row[u]
  BY <1>1, ViewType DEF View, Own
<1>5. Write(c, W, f, n)
  BY DEF RecurMakeSpace
<1> HIDE DEF v
<1>6. \A u \in W : /\ u \in Tasks /\ f[u] \in Row /\ f[u].status = v[u].status /\ f[u].col = v[u].col
                   /\ f[u].pos = v[u].pos + 1
  <2>1. r.pos \in Nat
    BY <1>3
  <2> HIDE DEF r
  <2>2. QED
    BY <1>4, <2>1, MadeSpaceRow
<1>7. W \in SUBSET Tasks /\ \A u \in W : f[u] \in Row
  BY <1>6
<1>8. /\ req'[c] = n /\ row' = row /\ Own(c)' = Own(c) \cup W
      /\ \A u \in W : work'[u] = f[u] /\ View(c)'[u] = f[u]
      /\ \A u \in Tasks \ W : work'[u] = work[u] /\ View(c)'[u] = View(c)[u]
  <2>1. TypeOK /\ n \in Request
    BY <1>1, <1>3
  <2> HIDE DEF W, f, n, r
  <2>2. QED
    BY <1>5, <1>7, <2>1, WriteStep
<1> HIDE DEF f, n
<1>9. \A u \in Own(c) : /\ u \in Tasks /\ row[u] \in Row /\ v[u] = work[u]
                        /\ row[u].status = "live" /\ SamePlace(work[u], row[u])
                        /\ work[u].pos = row[u].pos - 1
  <2>1. \A u \in Own(c) : /\ row[u].status = "live" /\ SamePlace(work[u], row[u])
                          /\ work[u].pos = row[u].pos - 1
    BY <1>1 DEF ReturnInv, At
  <2>2. \A u \in Own(c) : u \in Tasks
    BY DEF Own
  <2>3. \A u \in Own(c) : row[u] \in Row /\ v[u] = work[u]
    BY <1>1, <1>4, <2>2 DEF TypeOK
  <2>4. QED
    BY <2>1, <2>2, <2>3
<1>10. \A u \in Tasks : u \in W <=> v[u].status = "live" /\ v[u].col = Origin /\ v[u].pos >= r.pos
  BY DEF SpaceRows, In
<1>11. ASSUME NEW u \in Own(c)'
       PROVE  /\ u \in Tasks /\ row[u].status = "live" /\ SamePlace(work'[u], row[u])
              /\ row[u].pos \in Nat /\ row[u] \in Row
              /\ work'[u].pos = IF u \in W THEN IF u \in Own(c) THEN row[u].pos ELSE row[u].pos + 1
                                ELSE row[u].pos - 1
              /\ v[u].col = row[u].col
              /\ v[u].pos = IF u \in Own(c) THEN row[u].pos - 1 ELSE row[u].pos
  <2>1. u \in Own(c) \/ (u \in W /\ u \notin Own(c))
    BY <1>8
  <2> HIDE DEF W
  <2>2. CASE u \in Own(c) /\ u \notin W
    BY <1>8, <1>9, <2>2 DEF Row, SamePlace
  <2>3. CASE u \in Own(c) /\ u \in W
    BY <1>6, <1>8, <1>9, <2>3 DEF Row, SamePlace
  <2>4. CASE u \notin Own(c) /\ u \in W
    <3>1. u \in Tasks /\ v[u] = row[u] /\ row[u] \in Row /\ row[u].status = "live"
      BY <1>1, <1>4, <1>7, <1>10, <2>4 DEF TypeOK
    <3>2. QED
      BY <1>6, <1>8, <2>4, <3>1 DEF Row, SamePlace
  <2>5. QED
    BY <2>1, <2>2, <2>3, <2>4
<1>12. ReturnInv(c)'
  <2>1. ASSUME NEW t \in Own(c)', NEW u \in Own(c)', row[t].col = row[u].col, row[t].pos < row[u].pos
        PROVE  work'[t].pos <= work'[u].pos
    <3>1. t \in W => u \in W
      <4> SUFFICES ASSUME t \in W PROVE u \in W
        OBVIOUS
      <4>1. v[t].col = Origin /\ v[t].pos >= r.pos
        BY <1>10, <1>11
      <4>2. v[u].col = Origin /\ v[u].status = "live"
        <5>1. v[u].status = "live"
          BY <1>9, <1>10, <1>11, <1>8 DEF SamePlace
        <5>2. QED
          BY <1>11, <2>1, <4>1, <5>1
      <4>3. v[u].pos >= r.pos
        BY <1>3, <1>11, <2>1, <4>1
      <4>4. QED
        BY <1>10, <1>11, <4>2, <4>3
    <3> HIDE DEF W
    <3>2. QED
      BY <1>11, <2>1, <3>1
  <2>2. \A u \in Own(c)' : /\ row'[u].status = "live" /\ SamePlace(work'[u], row'[u])
                           /\ work'[u].pos \in row'[u].pos - 1 .. row'[u].pos + 1
    BY <1>8, <1>11
  <2>3. ASSUME ~r.raced
        PROVE  /\ row[r.task].status = "live" /\ Due(c)
               /\ Own(c) = GapRows(row, row[r.task].col, row[r.task].pos)
               /\ W = {}
    <3>1. /\ row[r.task].status = "live" /\ Due(c)
          /\ Own(c) = GapRows(row, row[r.task].col, row[r.task].pos)
          /\ \A u \in In(v, Origin) : v[u].pos < r.pos
      BY <1>1, <2>3 DEF ReturnInv, Isolated, At, v
    <3>2. ASSUME NEW u \in W PROVE FALSE
      <4>1. u \in Tasks /\ u \in In(v, Origin) /\ v[u].pos >= r.pos
        BY <1>7, <1>10, <3>2 DEF In
      <4>2. v[u].pos \in Nat
        BY <1>4, <4>1 DEF Row
      <4>3. QED
        BY <1>3, <3>1, <4>1, <4>2
    <3>3. QED
      BY <3>1, <3>2
  <2>4. ASSUME ~r.raced
        PROVE  /\ Own(c)' = Own(c) /\ View(c)' = View(c) /\ \A u \in Own(c) : work'[u].pos = row[u].pos - 1
               /\ \A u \in In(v, Origin) : v[u].pos < r.pos
    <3>1. W = {}
      BY <2>3, <2>4
    <3>2. View(c)' = View(c)
      BY <1>8, <3>1 DEF View
    <3>3. \A u \in In(v, Origin) : v[u].pos < r.pos
      BY <1>1, <2>4 DEF ReturnInv, Isolated, At, v
    <3> HIDE DEF W, r
    <3>4. Own(c)' = Own(c)
      BY <1>8, <3>1
    <3>5. \A u \in Own(c) : work'[u].pos = row[u].pos - 1
      BY <1>8, <1>9, <3>1
    <3>6. QED
      BY <3>2, <3>3, <3>4, <3>5
  <2>5. ~n.raced =>
         /\ row'[n.task].status = "live"
         /\ \A d \in n.due : row'[d[1]] = [status |-> "live", col |-> d[2], pos |-> d[3]]
         /\ Own(c)' = GapRows(row', row'[n.task].col, row'[n.task].pos)
         /\ \A u \in Own(c)' : work'[u].pos = row'[u].pos - 1
    <3> HIDE DEF W
    <3>1. QED
      BY <1>3, <1>8, <2>3, <2>4 DEF Due
  <2>6. ~n.raced => \A u \in In(View(c)', Origin) : View(c)'[u].pos < n.pos
    BY <1>3, <2>4 DEF v
  <2>7. \A t \in Own(c)' : \A u \in Own(c)' :
          row'[t].col = row'[u].col /\ row'[t].pos < row'[u].pos => work'[t].pos <= work'[u].pos
    BY <1>8, <2>1
  <2> HIDE DEF W, r
  <2>8. QED
    BY <1>3, <1>8, <2>2, <2>5, <2>6, <2>7 DEF ReturnInv, At, Isolated, Due
<1>13. RequestInv(c)'
  BY <1>3, <1>8, <1>12 DEF RequestInv, At
<1> HIDE DEF W, r
<1>14. QED
  BY <1>3, <1>5, <1>7, <1>13, WriteKeepsInv
\* The task takes the position behind the last one of the origin column.
LEMMA RecurPlaceInv ==
    ASSUME OrderInv, NEW c \in Clients, RecurPlace(c), UNCHANGED mix
    PROVE  OrderInv'
<1> DEFINE r == req[c]
           t == r.task
           W == {t}
           v == View(c)
           f == [v EXCEPT ![t].col = Origin, ![t].pos = r.pos]
           stale == \E d \in r.due : f[d[1]].col # d[2] \/ f[d[1]].pos # d[3]
           n == IF r.due = {} THEN Idle
                ELSE [pc |-> "recur", due |-> r.due, raced |-> r.raced \/ stale]
<1>1. TypeOK /\ r.pc = "recurPlace" /\ ReturnInv(c)
  BY DEF OrderInv, RequestInv, RecurPlace, At
<1>2. r \in Returning
  BY <1>1, Kinds DEF TypeOK
<1>3. t \in Tasks /\ r.pos \in Nat /\ r.due \in SUBSET Places /\ r.raced \in BOOLEAN
  BY <1>2 DEF Returning
<1>4. v \in [Tasks -> Row] /\ \A u \in Tasks : v[u] = IF u \in Own(c) THEN work[u] ELSE row[u]
  BY <1>1, ViewType DEF View, Own
<1>5. Commit(c, W, f, {}, n)
  BY DEF RecurPlace
<1>6. /\ f[t] \in Row /\ f[t].col = Origin /\ f[t].pos = r.pos /\ f[t].status = v[t].status
      /\ \A u \in Tasks : u # t => f[u] = v[u]
  BY <1>3, <1>4, OrderConstantsOK DEF Row
<1>7. W \in SUBSET Tasks /\ {} \in SUBSET Columns /\ \A u \in W : f[u] \in Row
  BY <1>3, <1>6
<1>8. n \in Request
  <2> HIDE DEF stale, r
  <2>1. Idle \in Request
    BY DEF Request
  <2>2. [pc |-> "recur", due |-> r.due, raced |-> r.raced \/ stale] \in Recurring
    BY <1>3 DEF Recurring
  <2>3. QED
    BY <2>1, <2>2 DEF Request
<1> HIDE DEF f
<1>9. /\ req'[c] = n /\ Own(c)' = {}
      /\ \A u \in W : row'[u] = f[u]
      /\ \A u \in Tasks \ W : row'[u] = View(c)[u]
  <2> HIDE DEF r, t, W, n
  <2>1. QED
    BY <1>1, <1>5, <1>7, <1>8, CommitStep
<1>10. \A u \in Tasks : row'[u] = f[u]
  BY <1>6, <1>9
<1>11. ASSUME ~r.raced
       PROVE  /\ row[t].status = "live" /\ Due(c)
              /\ Own(c) = GapRows(row, row[t].col, row[t].pos)
              /\ \A u \in Own(c) : /\ work[u].pos = row[u].pos - 1 /\ SamePlace(work[u], row[u])
              /\ \A u \in In(v, Origin) : v[u].pos < r.pos
  BY <1>1, <1>11 DEF ReturnInv, Isolated, At
<1>12. \A u \in Tasks : SamePlace(v[u], row[u])
  <2>1. \A u \in Own(c) : SamePlace(work[u], row[u])
    BY <1>1 DEF ReturnInv
  <2> HIDE DEF v
  <2>2. QED
    BY <1>4, <2>1 DEF SamePlace
<1>13. ASSUME Isolated(c), NEW k \in Columns, Unique(row, k) PROVE Unique(row', k)
  <2> SUFFICES ASSUME NEW u \in In(row', k), NEW w \in In(row', k), u # w
               PROVE  row'[u].pos # row'[w].pos
    BY DEF Unique
  <2>1. ~r.raced
    BY <1>13 DEF Isolated
  <2>2. row[t] \in Row /\ row[t].status = "live"
    BY <1>1, <1>3, <1>11, <2>1 DEF TypeOK
  <2>3. ASSUME NEW x \in In(row', k), x # t
        PROVE  /\ x \in In(row, k) /\ x \in In(v, k) /\ row'[x].pos = v[x].pos /\ row[x].pos \in Nat
               /\ v[x].pos = IF k = row[t].col /\ row[x].pos > row[t].pos THEN row[x].pos - 1
                             ELSE row[x].pos
    <3>1. x \in Tasks /\ row'[x].status = "live" /\ row'[x].col = k /\ row'[x] = v[x]
      BY <1>6, <1>10, <2>3 DEF In
    <3>2. row[x].status = "live" /\ row[x].col = k /\ row[x] \in Row
      BY <1>1, <1>12, <3>1 DEF SamePlace, TypeOK
    <3>3. x \in Own(c) <=> k = row[t].col /\ row[x].pos > row[t].pos
      BY <1>11, <2>1, <3>1, <3>2 DEF GapRows, In
    <3> HIDE DEF v, t, r
    <3>4. v[x].pos = IF x \in Own(c) THEN row[x].pos - 1 ELSE row[x].pos
      BY <1>4, <1>11, <2>1, <3>1 DEF r
    <3>5. QED
      BY <3>1, <3>2, <3>3, <3>4 DEF In, Row
  <2>4. t \in In(row', k) => k = Origin /\ row'[t].pos = r.pos
    BY <1>3, <1>6, <1>10 DEF In
  <2>5. k = row[t].col => \A x \in In(row, k) : x # t => row[x].pos # row[t].pos
    BY <1>3, <1>13, <2>2 DEF Unique, In
  <2>6. CASE u # t /\ w # t
    <3>1. row[u].pos # row[w].pos
      BY <1>13, <2>3, <2>6 DEF Unique
    <3>2. row[t].pos \in Nat
      BY <2>2 DEF Row
    <3> HIDE DEF v, t, r
    <3>3. QED
      BY <2>3, <2>5, <2>6, <3>1, <3>2
  <2>7. CASE u = t \/ w = t
    <3>1. ASSUME NEW x \in In(row', k), x # t, t \in In(row', k) PROVE row'[x].pos # row'[t].pos
      <4>1. x \in In(v, Origin) /\ v[x].pos < r.pos /\ row'[x].pos = v[x].pos /\ v[x].pos \in Int
        BY <1>11, <2>1, <2>2, <2>3, <2>4, <3>1 DEF Row
      <4>2. QED
        BY <1>3, <2>4, <3>1, <4>1
    <3>2. QED
      BY <2>7, <3>1
  <2>8. QED
    BY <2>6, <2>7
<1>14. RequestInv(c)'
  <2>1. CASE r.due = {}
    <3>1. req'[c] = Idle /\ Own(c)' = {}
      BY <1>9, <2>1
    <3>2. QED
      BY <3>1, IdleInv
  <2>2. CASE r.due # {}
    <3>1. /\ req'[c].pc = "recur" /\ req'[c].due = r.due
          /\ ~req'[c].raced => ~r.raced /\ ~stale
      <4> DEFINE b == r.raced \/ stale
      <4>1. req'[c] = [pc |-> "recur", due |-> r.due, raced |-> b]
        BY <1>9, <2>2
      <4>2. ~b => ~r.raced /\ ~stale
        OBVIOUS
      <4> HIDE DEF b, stale, r
      <4>3. req'[c].pc = "recur" /\ req'[c].due = r.due /\ req'[c].raced = b
        BY <4>1
      <4>4. QED
        BY <4>2, <4>3
    <3>2. ASSUME ~req'[c].raced, NEW d \in r.due
          PROVE  row'[d[1]] = [status |-> "live", col |-> d[2], pos |-> d[3]]
      <4>1. d[1] \in Tasks
        BY <1>3 DEF Places
      <4>2. f[d[1]].col = d[2] /\ f[d[1]].pos = d[3]
        BY <3>1, <3>2
      <4>3. row[d[1]] = [status |-> "live", col |-> d[2], pos |-> d[3]]
        BY <1>11, <3>1, <3>2 DEF Due
      <4> DEFINE e == d[1]
      <4>4. row[e].status = "live" /\ e \in Tasks
        BY <4>1, <4>3
      <4> HIDE DEF e, v, t
      <4>5. f[e] \in Row /\ f[e].status = "live"
        BY <1>4, <1>6, <1>12, <4>4 DEF SamePlace, Row
      <4>6. f[e] = [status |-> "live", col |-> f[e].col, pos |-> f[e].pos]
        BY <4>5 DEF Row
      <4>7. QED
        BY <1>10, <4>2, <4>4, <4>6 DEF e
    <3> HIDE DEF r
    <3>3. QED
      BY <1>9, <3>1, <3>2 DEF RequestInv, RecurInv, Due, Isolated, At
  <2>3. QED
    BY <2>1, <2>2
<1> HIDE DEF r, t, W, n
<1>15. QED
  BY <1>5, <1>7, <1>8, <1>13, <1>14, CommitKeepsInv

-----------------------------------------------------------------------------
(* The theorems *)

\* Tasks that fill the positions 0 .. n - 1 and are n in number have one each.
LEMMA DensePositions ==
    ASSUME NEW v, NEW S, IsFiniteSet(S), {v[t].pos : t \in S} = 0 .. Cardinality(S) - 1
    PROVE  \A t, u \in S : t # u => v[t].pos # v[u].pos
<1> DEFINE n == Cardinality(S)
           T == 0 .. n - 1
           f == [t \in S |-> v[t].pos]
<1>1. n \in Nat
  BY FS_CardinalityType
<1>2. f \in Surjection(S, T)
  <2>1. \A t \in S : f[t] \in T
    OBVIOUS
  <2>2. \A p \in T : \E t \in S : f[t] = p
    OBVIOUS
  <2> HIDE DEF T
  <2>3. QED
    BY <2>1, <2>2 DEF Surjection
<1>3. Cardinality(T) = n
  <2>1. 0 \in Int /\ n - 1 \in Int /\ (IF 0 > n - 1 THEN 0 ELSE (n - 1) - 0 + 1) = n
    BY <1>1
  <2> HIDE DEF n
  <2>2. QED
    BY <2>1, FS_Interval
<1>4. f \in Injection(S, T)
  <2> HIDE DEF f, T
  <2>1. QED
    BY <1>2, <1>3, FS_Surjection
<1>5. QED
  BY <1>4 DEF Injection, IsInjective

LEMMA InitInv ==
    ASSUME Init
    PROVE  OrderInv
<1>1. row \in [Tasks -> Row]
  BY DEF Init, Row
<1>2. TypeOK
  BY <1>1 DEF Init, TypeOK, Request
<1>3. \A c \in Clients : RequestInv(c)
  BY OrderConstantsOK DEF Init, RequestInv, At, Idle, Own
<1>4. ASSUME NEW k \in Columns PROVE Unique(row, k)
  <2>1. IsFiniteSet(In(row, k))
    BY OrderConstantsOK, FS_Subset DEF In
  <2>2. {row[t].pos : t \in In(row, k)} = 0 .. Cardinality(In(row, k)) - 1
    BY DEF Init
  <2>3. QED
    BY <2>1, <2>2, DensePositions DEF Unique
<1>5. QED
  BY <1>2, <1>3, <1>4 DEF OrderInv, UniqueUnlessRaced, Unique
\* Every step of a request preserves the invariant.
LEMMA ActInv ==
    ASSUME OrderInv, NEW c \in Clients, Act(c), UNCHANGED mix
    PROVE  OrderInv'
<1>1. CASE StartAppend(c) \/ AppendTask(c)
  BY <1>1, StartAppendInv, AppendTaskInv
<1>2. CASE StartRemove(c) \/ SoftDelete(c) \/ CloseGapAfterDelete(c)
  BY <1>2, StartRemoveInv, SoftDeleteInv, CloseGapAfterDeleteInv
<1>3. CASE StartMove(c) \/ CloseGap(c) \/ MakeSpace(c) \/ Place(c)
  BY <1>3, StartMoveInv, CloseGapInv, MakeSpaceInv, PlaceInv
<1>4. CASE ReadColumn(c) \/ Renumber(c)
  BY <1>4, ReadColumnInv, RenumberKeepsInv
<1>5. CASE StartBulk(c) \/ BulkRead(c) \/ BulkWrite(c) \/ BulkPlace(c)
  BY <1>5, StartBulkInv, BulkReadInv, BulkWriteInv, BulkPlaceInv
<1>6. CASE ReadLanded(c) \/ RecurCloseGap(c) \/ RecurLast(c) \/ RecurMakeSpace(c) \/ RecurPlace(c)
  BY <1>6, ReadLandedInv, RecurCloseGapInv, RecurLastInv, RecurMakeSpaceInv, RecurPlaceInv
<1>7. CASE Abort(c)
  BY <1>7, RollbackKeepsInv DEF Abort
<1>8. QED
  BY <1>1, <1>2, <1>3, <1>4, <1>5, <1>6, <1>7 DEF Act

LEMMA StutterInv ==
    ASSUME OrderInv, UNCHANGED vars
    PROVE  OrderInv'
<1>1. TypeOK' /\ UniqueUnlessRaced'
  BY DEF OrderInv, vars, TypeOK, UniqueUnlessRaced, In
<1>2. ASSUME NEW c \in Clients PROVE RequestInv(c)'
  <2>1. RequestInv(c)
    BY DEF OrderInv
  <2>2. row' = row /\ work' = work /\ owner' = owner /\ req' = req
    BY DEF vars
  <2>3. Own(c)' = Own(c)
    BY <2>2 DEF Own
  <2>4. QED
    BY <2>1, <2>2, <2>3, SameRowsKeepInv
<1>3. QED
  BY <1>1, <1>2 DEF OrderInv

\* The inductive invariant holds in every state the board reaches.
THEOREM OrderInvariant == Spec => []OrderInv
<1>1. OrderInv /\ [Next]_vars => OrderInv'
  BY ActInv, StutterInv DEF Next
<1>2. QED
  BY InitInv, <1>1, PTL DEF Spec

\* Rows, requests and positions keep their types: a position never becomes
\* negative, whatever overtakes whatever.
THEOREM OrderTypeCorrect == Spec => []TypeOK
<1>1. OrderInv => TypeOK
  BY DEF OrderInv
<1>2. QED
  BY <1>1, OrderInvariant, PTL

\* Outside the columns that an overtaken request wrote in, no two live tasks of
\* a column share a position.
THEOREM PositionsAreUnique == Spec => []UniqueUnlessRaced
<1>1. OrderInv => UniqueUnlessRaced
  BY DEF OrderInv
<1>2. QED
  BY <1>1, OrderInvariant, PTL

-----------------------------------------------------------------------------
(* Nobody else is swapped *)

\* The commit of c leaves the tasks it was not asked to move in order.
KeepsOrder(c) == \A k \in Columns : \A t, u \in (In(row, k) \cap In(row', k)) \ Moved(c) :
                   row[t].pos < row[u].pos => row'[t].pos <= row'[u].pos

\* The rows after a commit.
LEMMA CommitRows ==
    ASSUME NEW c, NEW W, NEW f, NEW B, NEW r, Commit(c, W, f, B, r)
    PROVE  /\ \A t \in Tasks : t \in W => row'[t] = f[t]
           /\ \A t \in Tasks : t \notin W => row'[t] = View(c)[t]
BY DEF Commit, Updated, View

\* A commit changes the stage of nobody else.
LEMMA OneActs ==
    ASSUME TypeOK, NEW d \in Clients, NEW W, NEW f, NEW B, NEW r, Commit(d, W, f, B, r),
           NEW c \in Clients, Acts(c)
    PROVE  c = d
<1> SUFFICES ASSUME c # d PROVE FALSE
  OBVIOUS
<1>1. req[c] \in Request /\ req[c].pc # "idle" /\ req'[c].pc # req[c].pc
  BY DEF TypeOK, Acts, At
<1>2. req'[c] = [req[c] EXCEPT !.raced = TRUE]
  BY <1>1 DEF Commit, At
<1>3. QED
  BY <1>1, <1>2, OvertakenRequest

\* Only these commit.
LEMMA Commits ==
    ASSUME NEW c, Act(c), row' # row
    PROVE  \/ AppendTask(c) \/ CloseGapAfterDelete(c) \/ Place(c) \/ ReadColumn(c) \/ Renumber(c)
           \/ BulkPlace(c) \/ RecurPlace(c)
BY DEF Act, Read, Write, Rollback, StartAppend, StartRemove, SoftDelete, StartMove, CloseGap,
       MakeSpace, StartBulk, BulkRead, BulkWrite, ReadLanded, RecurCloseGap, RecurLast,
       RecurMakeSpace, Abort

LEMMA AppendKeepsOrder ==
    ASSUME OrderInv, NEW c \in Clients, AppendTask(c)
    PROVE  KeepsOrder(c)
<1>1. TypeOK /\ At(c, "append") /\ Own(c) = {}
  BY DEF OrderInv, RequestInv, AppendTask, AppendInv
<1>2. Moved(c) = {req[c].task}
  <2>1. req[c] \in Appending
    BY <1>1, Kinds DEF TypeOK, At
  <2>2. QED
    BY <1>1, <2>1 DEF Moved, At, Appending
<1>3. \A t \in Tasks : t \notin {req[c].task} => row'[t] = View(c)[t]
  BY CommitRows DEF AppendTask
<1>4. \A t \in Tasks : t \notin Moved(c) => row'[t] = row[t]
  BY <1>1, <1>2, <1>3, ViewOfNone
<1>5. QED
  BY <1>1, <1>4 DEF KeepsOrder, In, TypeOK, Row

\* closeGap is monotone: what moves closes up to what stays.
LEMMA RemoveKeepsOrder ==
    ASSUME OrderInv, NEW c \in Clients, CloseGapAfterDelete(c)
    PROVE  KeepsOrder(c)
<1> DEFINE r == req[c]
           v == View(c)
           W == GapRows(v, r.from, r.was)
           f == ClosedGap(v)
<1>1. TypeOK /\ r.pc = "deleteGap" /\ RemoveInv(c)
  BY DEF OrderInv, RequestInv, CloseGapAfterDelete, At
<1>2. r \in Removing
  BY <1>1, Kinds DEF TypeOK
<1>3. Moved(c) = {r.task} /\ Own(c) = {r.task} /\ r.was \in Nat
  BY <1>1, <1>2 DEF Moved, At, Removing, RemoveInv
<1>4. v \in [Tasks -> Row] /\ \A t \in Tasks : t \notin Moved(c) => v[t] = row[t] /\ row[t] \in Row
  BY <1>1, <1>3, ViewType DEF View, Own, TypeOK
<1>5. /\ \A t \in Tasks : t \in W => row'[t] = f[t]
      /\ \A t \in Tasks : t \notin W => row'[t] = v[t]
  <2>1. Commit(c, W, f, {}, Idle)
    BY DEF CloseGapAfterDelete
  <2> HIDE DEF W, f
  <2>2. QED
    BY <2>1, CommitRows
<1> HIDE DEF v
<1>6. \A t \in W : f[t].pos = v[t].pos - 1
  <2> HIDE DEF r
  <2>1. QED
    BY <1>3, <1>4, ClosedGapRow DEF r
<1> HIDE DEF f
<1> SUFFICES ASSUME NEW k \in Columns, NEW t \in (In(row, k) \cap In(row', k)) \ Moved(c),
                    NEW u \in (In(row, k) \cap In(row', k)) \ Moved(c), row[t].pos < row[u].pos
             PROVE  row'[t].pos <= row'[u].pos
  BY DEF KeepsOrder
<1>7. /\ t \in Tasks /\ u \in Tasks /\ row[t].pos \in Nat /\ row[u].pos \in Nat /\ v[t] = row[t] /\ v[u] = row[u]
      /\ row[t].status = "live" /\ row[u].status = "live" /\ row[t].col = k /\ row[u].col = k
  BY <1>4 DEF In, Row
<1>8. /\ t \in W <=> k = r.from /\ row[t].pos > r.was
      /\ u \in W <=> k = r.from /\ row[u].pos > r.was
  BY <1>7 DEF GapRows, In
<1> HIDE DEF W, r
<1>9. QED
  BY <1>3, <1>5, <1>6, <1>7, <1>8

\* So is makeSpace: what moves makes room for itself.
LEMMA PlaceKeepsOrder ==
    ASSUME OrderInv, NEW c \in Clients, Place(c)
    PROVE  KeepsOrder(c)
<1> DEFINE r == req[c]
<1>1. TypeOK /\ r.pc = "place" /\ ShiftInv(c)
  BY DEF OrderInv, RequestInv, Place, At
<1>2. r \in Shifting
  BY <1>1, Kinds DEF TypeOK
<1>3. Moved(c) = {r.task}
  BY <1>1, <1>2 DEF Moved, At, Shifting
<1>4. \A t \in Tasks : t \notin {r.task} => row'[t] = View(c)[t]
  BY CommitRows DEF Place
<1>5. \A t \in Own(c) : /\ row[t].status = "live" /\ SamePlace(work[t], row[t])
                        /\ work[t].pos = IF row[t].col = r.to THEN row[t].pos + 1 ELSE row[t].pos - 1
  BY <1>1 DEF ShiftInv
<1> SUFFICES ASSUME NEW k \in Columns, NEW t \in (In(row, k) \cap In(row', k)) \ Moved(c),
                    NEW u \in (In(row, k) \cap In(row', k)) \ Moved(c), row[t].pos < row[u].pos
             PROVE  row'[t].pos <= row'[u].pos
  BY DEF KeepsOrder
<1>6. /\ t \in Tasks /\ u \in Tasks /\ row[t].col = k /\ row[u].col = k
      /\ row[t].pos \in Nat /\ row[u].pos \in Nat
  BY <1>1 DEF In, TypeOK, Row
<1>7. /\ row'[t] = IF t \in Own(c) THEN work[t] ELSE row[t]
      /\ row'[u] = IF u \in Own(c) THEN work[u] ELSE row[u]
  BY <1>3, <1>4, <1>6 DEF View, Own
<1> HIDE DEF r
<1>8. QED
  BY <1>5, <1>6, <1>7

\* An isolated reorder writes the places of its order, and nothing elsewhere.
LEMMA RenumberedRows ==
    ASSUME OrderInv, NEW c \in Clients, Renumber(c), Isolated(c)
    PROVE  /\ \A t \in In(row, req[c].to) :
                row'[t].pos = IndexOf(req[c].order, t) /\ IndexOf(req[c].order, t) \in Nat
           /\ \A t \in Tasks : row[t].col # req[c].to => row'[t] = row[t]
<1> DEFINE r == req[c]
           W == r.changed
           f == Numbered(row, r.order, 0)
<1>1. TypeOK /\ r.pc = "renumber" /\ RenumberInv(c)
  BY DEF OrderInv, RequestInv, Renumber, At
<1>2. r \in Renumbering
  BY <1>1, Kinds DEF TypeOK
<1>3. r.order \in Seq(Tasks) /\ W \subseteq Items(r.order)
  BY <1>1, <1>2 DEF Renumbering, RenumberInv
<1>4. View(c) = row /\ row \in [Tasks -> Row]
  BY <1>1, ViewOfNone DEF RenumberInv, TypeOK
<1>5. /\ Items(r.order) = In(row, r.to)
      /\ W = {t \in In(row, r.to) : row[t].pos # IndexOf(r.order, t)}
  BY <1>1 DEF RenumberInv
<1>6. /\ \A t \in Tasks : t \in W => row'[t] = f[t]
      /\ \A t \in Tasks : t \notin W => row'[t] = row[t]
  <2>1. Commit(c, W, f, {r.to}, AfterLanding(r, {r.task}))
    BY <1>4 DEF Renumber
  <2> HIDE DEF W, f
  <2>2. QED
    BY <1>4, <2>1, CommitRows
<1>7. \A t \in Items(r.order) : f[t].pos = 0 + IndexOf(r.order, t) /\ IndexOf(r.order, t) \in Nat
  <2> HIDE DEF r
  <2>1. QED
    BY <1>3, <1>4, NumberedRow, IndexOfItem
<1> HIDE DEF f
<1>8. ASSUME NEW t \in In(row, r.to) PROVE row'[t].pos = IndexOf(r.order, t) /\ IndexOf(r.order, t) \in Nat
  <2>1. t \in Items(r.order) /\ t \in Tasks
    BY <1>5 DEF In
  <2>2. CASE t \in W
    BY <1>6, <1>7, <2>1, <2>2
  <2>3. CASE t \notin W
    BY <1>5, <1>6, <1>7, <2>1, <2>3
  <2>4. QED
    BY <2>2, <2>3
<1>9. ASSUME NEW t \in Tasks, row[t].col # r.to PROVE row'[t] = row[t]
  BY <1>5, <1>6, <1>9 DEF In
<1>10. QED
  BY <1>8, <1>9

\* An order of the whole column, by position but for the moved task.
LEMMA RenumberKeepsOrder ==
    ASSUME OrderInv, NEW c \in Clients, Renumber(c), Isolated(c)
    PROVE  KeepsOrder(c)
<1> DEFINE r == req[c]
<1>1. TypeOK /\ r.pc = "renumber" /\ RenumberInv(c)
  BY DEF OrderInv, RequestInv, Renumber, At
<1>2. r \in Renumbering
  BY <1>1, Kinds DEF TypeOK
<1>3. Moved(c) = {r.task}
  BY <1>1, <1>2 DEF Moved, At, Renumbering
<1>4. row \in [Tasks -> Row]
  BY <1>1 DEF TypeOK
<1>5. \A t, u \in In(row, r.to) \ {r.task} :
        row[t].pos < row[u].pos => IndexOf(r.order, t) < IndexOf(r.order, u)
  BY <1>1 DEF RenumberInv
<1>6. \A t \in In(row, r.to) : row'[t].pos = IndexOf(r.order, t) /\ IndexOf(r.order, t) \in Nat
  BY RenumberedRows
<1>7. \A t \in Tasks : row[t].col # r.to => row'[t] = row[t]
  BY RenumberedRows
<1> SUFFICES ASSUME NEW k \in Columns, NEW t \in (In(row, k) \cap In(row', k)) \ Moved(c),
                    NEW u \in (In(row, k) \cap In(row', k)) \ Moved(c), row[t].pos < row[u].pos
             PROVE  row'[t].pos <= row'[u].pos
  BY DEF KeepsOrder
<1>8. CASE k = r.to
  BY <1>3, <1>5, <1>6, <1>8
<1>9. CASE k # r.to
  <2>1. t \in Tasks /\ u \in Tasks /\ row'[t] = row[t] /\ row'[u] = row[u]
    BY <1>7, <1>9 DEF In
  <2>2. row[t].pos \in Nat /\ row[u].pos \in Nat
    BY <1>4, <2>1 DEF Row
  <2>3. QED
    BY <2>1, <2>2
<1>10. QED
  BY <1>8, <1>9

LEMMA BulkKeepsOrder ==
    ASSUME OrderInv, NEW c \in Clients, BulkPlace(c), Isolated(c)
    PROVE  KeepsOrder(c)
<1> DEFINE r == req[c]
           W == Items(r.ids)
<1>1. TypeOK /\ At(c, "bulkPlace") /\ r.pc = "bulkPlace" /\ BulkInv(c)
  BY DEF OrderInv, RequestInv, BulkPlace, At
<1>2. Moved(c) = W
  BY <1>1 DEF Moved
<1>3. \A t \in Tasks : t \notin W => row'[t] = View(c)[t]
  BY CommitRows DEF BulkPlace
<1>4. \A t, u \in Tasks \ W :
        /\ row[t].status = "live" /\ row[u].status = "live" /\ row[t].col = row[u].col
        /\ row[t].pos < row[u].pos
        => View(c)[t].pos < View(c)[u].pos
  BY <1>1 DEF BulkInv, StayInOrder
<1>5. \A t \in Tasks : View(c)[t].pos \in Nat
  BY <1>1, ViewType DEF Row
<1> HIDE DEF W
<1>6. QED
  BY <1>2, <1>3, <1>4, <1>5 DEF KeepsOrder, In

LEMMA ReturnKeepsOrder ==
    ASSUME OrderInv, NEW c \in Clients, RecurPlace(c)
    PROVE  KeepsOrder(c)
<1> DEFINE r == req[c]
<1>1. TypeOK /\ r.pc = "recurPlace" /\ ReturnInv(c)
  BY DEF OrderInv, RequestInv, RecurPlace, At
<1>2. r \in Returning
  BY <1>1, Kinds DEF TypeOK
<1>3. Moved(c) = {r.task}
  BY <1>1, <1>2 DEF Moved, At, Returning
<1>4. \A t \in Tasks : t \notin {r.task} => row'[t] = View(c)[t]
  BY CommitRows DEF RecurPlace
<1>5. \A t \in Own(c) :
        /\ work[t].pos \in row[t].pos - 1 .. row[t].pos + 1
        /\ \A u \in Own(c) : row[t].col = row[u].col /\ row[t].pos < row[u].pos
                               => work[t].pos <= work[u].pos
  BY <1>1 DEF ReturnInv
<1> SUFFICES ASSUME NEW k \in Columns, NEW t \in (In(row, k) \cap In(row', k)) \ Moved(c),
                    NEW u \in (In(row, k) \cap In(row', k)) \ Moved(c), row[t].pos < row[u].pos
             PROVE  row'[t].pos <= row'[u].pos
  BY DEF KeepsOrder
<1>6. /\ t \in Tasks /\ u \in Tasks /\ row[t].col = k /\ row[u].col = k
      /\ row[t].pos \in Nat /\ row[u].pos \in Nat
  BY <1>1 DEF In, TypeOK, Row
<1>7. /\ row'[t] = IF t \in Own(c) THEN work[t] ELSE row[t]
      /\ row'[u] = IF u \in Own(c) THEN work[u] ELSE row[u]
  BY <1>3, <1>4, <1>6 DEF View, Own
<1> HIDE DEF r
<1>8. QED
  BY <1>5, <1>6, <1>7

\* A task that has left the column is not reordered: nothing is written.
LEMMA NothingToReorder ==
    ASSUME OrderInv, NEW c \in Clients, ReadColumn(c)
    PROVE  row' = row
<1>1. TypeOK /\ Own(c) = {}
  BY DEF OrderInv, RequestInv, ReadColumn, MoveInv, At
<1>2. CASE \E r : Read(c, r)
  BY <1>2 DEF Read
<1>3. CASE \E r : Commit(c, {}, work, {}, r)
  BY <1>1, <1>3 DEF Commit, Own, TypeOK
<1>4. QED
  BY <1>2, <1>3 DEF ReadColumn

LEMMA CommittersAct ==
    ASSUME OrderInv, NEW d \in Clients, Act(d), row' # row, NEW c \in Clients, Acts(c)
    PROVE  /\ c = d
           /\ \/ AppendTask(d) \/ CloseGapAfterDelete(d) \/ Place(d) \/ Renumber(d)
              \/ BulkPlace(d) \/ RecurPlace(d)
<1>1. \/ AppendTask(d) \/ CloseGapAfterDelete(d) \/ Place(d) \/ Renumber(d)
      \/ BulkPlace(d) \/ RecurPlace(d)
  BY Commits, NothingToReorder
<1>2. \E W, f, B, r : Commit(d, W, f, B, r)
  <2>1. CASE AppendTask(d)
    BY <2>1 DEF AppendTask
  <2>2. CASE CloseGapAfterDelete(d)
    BY <2>2 DEF CloseGapAfterDelete
  <2>3. CASE Place(d)
    BY <2>3 DEF Place
  <2>4. CASE Renumber(d)
    BY <2>4 DEF Renumber
  <2>5. CASE BulkPlace(d)
    BY <2>5 DEF BulkPlace
  <2>6. CASE RecurPlace(d)
    BY <2>6 DEF RecurPlace
  <2>7. QED
    BY <1>1, <2>1, <2>2, <2>3, <2>4, <2>5, <2>6
<1>3. QED
  BY <1>1, <1>2, OneActs DEF OrderInv

\* No commit swaps two tasks it was not asked to move, unless it renumbers from
\* an order read before somebody else's commit.
THEOREM OrderIsKept == Spec => OrderKept
<1>1. OrderInv /\ [Next]_vars =>
        [row' # row => \A c \in Clients :
           Acts(c) /\ (Isolated(c) \/ req[c].pc \notin {"renumber", "bulkPlace"}) =>
             \A k \in Columns : \A t, u \in (In(row, k) \cap In(row', k)) \ Moved(c) :
               row[t].pos < row[u].pos => row'[t].pos <= row'[u].pos]_vars
  <2> SUFFICES ASSUME OrderInv, Next, row' # row, NEW c \in Clients, Acts(c),
                      Isolated(c) \/ req[c].pc \notin {"renumber", "bulkPlace"}
               PROVE  KeepsOrder(c)
    BY DEF KeepsOrder, vars
  <2>1. PICK d \in Clients : Act(d)
    BY DEF Next
  <2>2. \/ AppendTask(c) \/ CloseGapAfterDelete(c) \/ Place(c) \/ Renumber(c)
        \/ BulkPlace(c) \/ RecurPlace(c)
    BY <2>1, CommittersAct
  <2>3. (Renumber(c) \/ BulkPlace(c)) => Isolated(c)
    BY DEF Renumber, BulkPlace, At
  <2>4. QED
    BY <2>2, <2>3, AppendKeepsOrder, RemoveKeepsOrder, PlaceKeepsOrder, RenumberKeepsOrder,
       BulkKeepsOrder, ReturnKeepsOrder
<1>2. QED
  BY OrderInvariant, <1>1, PTL DEF Spec, OrderKept
-----------------------------------------------------------------------------
(* Where a move puts its task *)

\* Of the tasks of S, which fill the places 0 .. n - 1 one each, as many are
\* before place p as there are places before p.
LEMMA CountBefore ==
    ASSUME NEW S, IsFiniteSet(S), NEW g \in [S -> Nat], NEW n \in Nat, NEW p \in Nat,
           \A i \in 0 .. n - 1 : \E t \in S : g[t] = i,
           \A t \in S : g[t] < n,
           \A t, u \in S : t # u => g[t] # g[u]
    PROVE  Cardinality({t \in S : g[t] < p}) = IF p <= n THEN p ELSE n
<1> DEFINE T == {t \in S : g[t] < p}
           m == IF p <= n THEN p ELSE n
           I == 0 .. m - 1
           h == [t \in T |-> g[t]]
<1>1. m \in Nat /\ m <= p /\ m <= n /\ \A i \in Nat : i < m <=> i < p /\ i < n
  OBVIOUS
<1>2. IsFiniteSet(T)
  BY FS_Subset
<1>3. \A t \in T : h[t] = g[t] /\ g[t] \in I
  BY <1>1
<1>4. \A i \in I : \E t \in T : h[t] = i
  <2> TAKE i \in I
  <2>1. i \in Nat /\ i < p /\ i \in 0 .. n - 1
    BY <1>1
  <2>2. PICK t \in S : g[t] = i
    BY <2>1
  <2>3. QED
    BY <2>1, <2>2
<1>5. h \in [T -> I] /\ \A t, u \in T : h[t] = h[u] => t = u
  BY <1>3
<1>6. IsFiniteSet(I) /\ Cardinality(I) = m
  <2>1. 0 \in Int /\ m - 1 \in Int /\ (IF 0 > m - 1 THEN 0 ELSE (m - 1) - 0 + 1) = m
    BY <1>1
  <2> HIDE DEF m
  <2>2. QED
    BY <2>1, FS_Interval
<1> HIDE DEF T, I, h
<1>7. h \in Bijection(T, I)
  BY <1>4, <1>5 DEF Bijection, Injection, Surjection, IsInjective
<1>8. ExistsBijection(T, I)
  BY <1>7 DEF ExistsBijection
<1>9. Cardinality(I) = Cardinality(T)
  BY <1>2, <1>8, FS_Bijection
<1>10. QED
  BY <1>6, <1>9 DEF T, m

\* In a list without repetitions, as many tasks are before a place as its number says.
LEMMA ListedBefore ==
    ASSUME NEW S, IsFiniteSet(S), NEW q \in Seq(S), Distinct(q), NEW p \in Nat, p <= Len(q)
    PROVE  /\ IsFiniteSet(Items(q)) /\ Cardinality(Items(q)) = Len(q)
           /\ Cardinality({t \in Items(q) : IndexOf(q, t) < p}) = p
<1> DEFINE n == Len(q)
           g == [t \in Items(q) |-> IndexOf(q, t)]
<1>1. n \in Nat /\ DOMAIN q = 1 .. n
  OBVIOUS
<1>2. IsFiniteSet(Items(q))
  <2>1. Items(q) \subseteq S
    BY <1>1 DEF Items
  <2>2. QED
    BY <2>1, FS_Subset
<1>3. \A t \in Items(q) : g[t] = IndexOf(q, t) /\ g[t] \in Nat /\ g[t] < n
  BY IndexOfItem
<1>4. g \in [Items(q) -> Nat]
  BY <1>3
<1>5. \A i \in 0 .. n - 1 : \E t \in Items(q) : g[t] = i
  <2> TAKE i \in 0 .. n - 1
  <2>1. i + 1 \in DOMAIN q /\ (i + 1) - 1 = i
    BY <1>1
  <2>2. q[i + 1] \in Items(q) /\ IndexOf(q, q[i + 1]) = i
    BY <2>1, IndexOfPlace
  <2>3. QED
    BY <1>3, <2>2
<1>6. \A t, u \in Items(q) : t # u => g[t] # g[u]
  BY <1>3, IndexOfDiffers
<1> HIDE DEF g, n
<1>7. ASSUME NEW k \in Nat, k <= n
      PROVE  Cardinality({t \in Items(q) : g[t] < k}) = k
  <2>1. Cardinality({t \in Items(q) : g[t] < k}) = IF k <= n THEN k ELSE n
    BY <1>1, <1>2, <1>3, <1>4, <1>5, <1>6, CountBefore
  <2>2. QED
    BY <1>7, <2>1
<1>8. {t \in Items(q) : g[t] < n} = Items(q)
  BY <1>3
<1>9. {t \in Items(q) : g[t] < p} = {t \in Items(q) : IndexOf(q, t) < p}
  BY <1>3
<1>10. Cardinality({t \in Items(q) : g[t] < n}) = n /\ Cardinality({t \in Items(q) : g[t] < p}) = p
  BY <1>1, <1>7 DEF n
<1>11. QED
  BY <1>2, <1>8, <1>9, <1>10 DEF n

\* c's task has as many other tasks of the target column before it as asked for.
Lands(c) ==
    LET r    == req[c]
        Rest == In(row, r.to) \ {r.task}
        n    == Cardinality(Rest)
    IN  Cardinality({t \in Rest : row'[t].pos < row'[r.task].pos}) = IF r.pos <= n THEN r.pos ELSE n

\* A reorder takes its place from the order, which has the task at its index.
LEMMA RenumberLands ==
    ASSUME OrderInv, NEW c \in Clients, Renumber(c), Isolated(c)
    PROVE  Lands(c)
<1> DEFINE r == req[c]
           q == r.order
           Col == In(row, r.to)
           Rest == Col \ {r.task}
           n == Cardinality(Rest)
           i == IndexOf(q, r.task)
<1>1. TypeOK /\ r.pc = "renumber" /\ RenumberInv(c)
  BY DEF OrderInv, RequestInv, Renumber, At
<1>2. r \in Renumbering
  BY <1>1, Kinds DEF TypeOK
<1>3. q \in Seq(Tasks) /\ r.pos \in Nat /\ r.task \in Tasks
  BY <1>2 DEF Renumbering
<1>4. /\ Items(q) = Col /\ r.task \in Col /\ Distinct(q)
      /\ i = IF r.pos < Len(q) THEN r.pos ELSE Len(q) - 1
  BY <1>1 DEF RenumberInv
<1>5. \A t \in Col : row'[t].pos = IndexOf(q, t)
  BY RenumberedRows
<1>6. i \in Nat /\ i < Len(q) /\ Len(q) \in Nat
  BY <1>3, <1>4, IndexOfItem
<1>7. IsFiniteSet(Tasks)
  BY OrderConstantsOK
<1> HIDE DEF Rest, i
<1>8. /\ IsFiniteSet(Col) /\ Cardinality(Col) = Len(q)
      /\ Cardinality({t \in Col : IndexOf(q, t) < i}) = i
  <2>1. q \in Seq(Tasks) /\ Distinct(q) /\ i \in Nat /\ i <= Len(q)
    BY <1>3, <1>4, <1>6
  <2> HIDE DEF Col, q
  <2>2. /\ IsFiniteSet(Items(q)) /\ Cardinality(Items(q)) = Len(q)
        /\ Cardinality({t \in Items(q) : IndexOf(q, t) < i}) = i
    BY <1>7, <2>1, ListedBefore
  <2>3. QED
    BY <1>4, <2>2
<1>9. n = Len(q) - 1
  <2>1. r.task \in Col /\ IsFiniteSet(Col) /\ Cardinality(Col) = Len(q)
    BY <1>4, <1>8
  <2> HIDE DEF Col, q, r
  <2>2. QED
    BY <2>1, FS_RemoveElement DEF Rest
<1>10. {t \in Rest : row'[t].pos < row'[r.task].pos} = {t \in Col : IndexOf(q, t) < i}
  <2>1. row'[r.task].pos = i /\ ~(i < i)
    BY <1>4, <1>5, <1>6 DEF i
  <2>2. QED
    BY <1>4, <1>5, <2>1 DEF Rest, i
<1>11. i = IF r.pos <= n THEN r.pos ELSE n
  BY <1>3, <1>4, <1>6, <1>9
<1>12. QED
  BY <1>8, <1>10, <1>11 DEF Lands, Rest

\* A move between columns has made space for its task, and if the column had no
\* gaps, behind as many tasks as asked for.
LEMMA PlaceLands ==
    ASSUME OrderInv, NEW c \in Clients, Place(c), Isolated(c),
           LET Rest == In(row, req[c].to) \ {req[c].task}
           IN  {row[t].pos : t \in Rest} = 0 .. Cardinality(Rest) - 1
    PROVE  Lands(c)
<1> DEFINE r == req[c]
           Rest == In(row, r.to) \ {r.task}
           n == Cardinality(Rest)
           g == [t \in Rest |-> row[t].pos]
<1>1. TypeOK /\ r.pc = "place" /\ ShiftInv(c)
  BY DEF OrderInv, RequestInv, Place, At
<1>2. r \in Shifting
  BY <1>1, Kinds DEF TypeOK
<1>3. r.task \in Tasks /\ r.pos \in Nat
  BY <1>2 DEF Shifting
<1>4. /\ row'[r.task].pos = r.pos
      /\ \A t \in Rest : row'[t] = IF t \in Own(c) THEN work[t] ELSE row[t]
  <2>1. View(c) \in [Tasks -> Row]
    BY <1>1, ViewType
  <2>2. \A t \in Tasks : t \notin {r.task} => row'[t] = View(c)[t]
    BY CommitRows DEF Place
  <2> DEFINE f == [View(c) EXCEPT ![r.task].col = r.to, ![r.task].pos = r.pos]
  <2>3. f[r.task].pos = r.pos
    BY <1>3, <2>1 DEF Row
  <2>4. row'[r.task].pos = r.pos
    <3>1. Commit(c, {r.task}, f, {}, AfterLanding(r, {r.task}))
      BY DEF Place
    <3> HIDE DEF f, r
    <3>2. QED
      BY <1>3, <2>3, <3>1, CommitRows
  <2>5. \A t \in Rest : t \in Tasks /\ t # r.task
    BY DEF In
  <2> HIDE DEF Rest, r
  <2>6. \A t \in Rest : row'[t] = View(c)[t]
    BY <2>2, <2>5
  <2>7. QED
    BY <2>4, <2>5, <2>6 DEF View, Own
<1>5. /\ \A t \in Own(c) : work[t].pos = IF row[t].col = r.to THEN row[t].pos + 1 ELSE row[t].pos - 1
      /\ row[r.task].col # r.to
      /\ \A t \in Tasks : t \in Own(c) <=> \/ t \in GapRows(row, row[r.task].col, row[r.task].pos)
                                           \/ t \in SpaceRows(row, r.to, r.pos)
  BY <1>1 DEF ShiftInv, At
<1>6. \A t \in Rest : /\ t \in Tasks /\ row[t].pos \in Nat /\ row[t].col = r.to
                      /\ t \in Own(c) <=> row[t].pos >= r.pos
  BY <1>1, <1>5 DEF In, TypeOK, Row, GapRows, SpaceRows
<1>7. \A t \in Rest : row'[t].pos < row'[r.task].pos <=> row[t].pos < r.pos
  <2> HIDE DEF r, Rest
  <2>1. QED
    BY <1>3, <1>4, <1>5, <1>6
<1>8. {row[t].pos : t \in Rest} = 0 .. n - 1
  OBVIOUS
<1>9. IsFiniteSet(Rest) /\ n \in Nat
  BY <1>6, OrderConstantsOK, FS_Subset, FS_CardinalityType
<1> HIDE DEF r, Rest
<1>10. \A t, u \in Rest : t # u => row[t].pos # row[u].pos
  BY <1>8, <1>9, DensePositions
<1>11. g \in [Rest -> Nat] /\ \A t \in Rest : g[t] = row[t].pos
  BY <1>6
<1> HIDE DEF g, n
<1>12. (\A i \in 0 .. n - 1 : \E t \in Rest : g[t] = i) /\ (\A t \in Rest : g[t] < n)
  <2> DEFINE I == 0 .. n - 1
             P == {row[t].pos : t \in Rest}
  <2>1. P = I
    BY <1>8 DEF n
  <2>2. ASSUME NEW i \in I PROVE \E t \in Rest : g[t] = i
    <3>1. i \in P
      BY <2>1, <2>2
    <3>2. PICK t \in Rest : row[t].pos = i
      BY <3>1
    <3>3. QED
      BY <1>11, <3>2
  <2>3. ASSUME NEW t \in Rest PROVE g[t] < n
    <3>1. row[t].pos \in P
      OBVIOUS
    <3> HIDE DEF P
    <3>2. row[t].pos \in 0 .. n - 1
      BY <2>1, <3>1
    <3>3. QED
      BY <1>9, <1>11, <3>2 DEF n
  <2>4. QED
    BY <2>2, <2>3
<1>13. Cardinality({t \in Rest : g[t] < r.pos}) = IF r.pos <= n THEN r.pos ELSE n
  BY <1>3, <1>9, <1>10, <1>11, <1>12, CountBefore
<1>14. {t \in Rest : g[t] < r.pos} = {t \in Rest : row'[t].pos < row'[r.task].pos}
  BY <1>7, <1>11
<1>15. QED
  BY <1>13, <1>14 DEF Lands, n, r, Rest

\* A move that nobody overtakes puts its task at the index asked for, or at the
\* end; between columns, if the target has no gaps.
THEOREM MovesLand == Spec => LandsWhereAsked
<1>1. OrderInv /\ [Next]_vars =>
        [row' # row => \A c \in Clients :
           LET r    == req[c]
               Rest == In(row, r.to) \ {r.task}
               n    == Cardinality(Rest) IN
           /\ Acts(c) /\ Isolated(c)
           /\ \/ At(c, "renumber")
              \/ At(c, "place") /\ {row[t].pos : t \in Rest} = 0 .. n - 1
           => Cardinality({t \in Rest : row'[t].pos < row'[r.task].pos})
                = IF r.pos <= n THEN r.pos ELSE n]_vars
  <2> SUFFICES ASSUME OrderInv, Next, row' # row, NEW c \in Clients, Acts(c), Isolated(c),
                      \/ At(c, "renumber")
                      \/ /\ At(c, "place")
                         /\ LET Rest == In(row, req[c].to) \ {req[c].task}
                            IN  {row[t].pos : t \in Rest} = 0 .. Cardinality(Rest) - 1
               PROVE  Lands(c)
    BY DEF Lands, vars
  <2>1. PICK d \in Clients : Act(d)
    BY DEF Next
  <2>2. \/ AppendTask(c) \/ CloseGapAfterDelete(c) \/ Place(c) \/ Renumber(c)
        \/ BulkPlace(c) \/ RecurPlace(c)
    BY <2>1, CommittersAct
  <2>3. CASE At(c, "renumber")
    <3>1. Renumber(c)
      BY <2>2, <2>3 DEF At, AppendTask, CloseGapAfterDelete, Place, BulkPlace, RecurPlace
    <3>2. QED
      BY <3>1, RenumberLands
  <2>4. CASE ~At(c, "renumber")
    <3>1. At(c, "place")
      BY <2>4
    <3>2. Place(c)
      BY <2>2, <3>1 DEF At, AppendTask, CloseGapAfterDelete, Renumber, BulkPlace, RecurPlace
    <3>3. QED
      BY <2>4, <3>2, PlaceLands
  <2>5. QED
    BY <2>3, <2>4
<1>2. QED
  BY OrderInvariant, <1>1, PTL DEF Spec, LandsWhereAsked
=============================================================================
