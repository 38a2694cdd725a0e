--------------------------- MODULE RagIndex_proofs ---------------------------
(* The search index: types, and what the rows of a source are while jobs are  *)
(* at work on it, told from what each of the jobs still has to do.            *)
EXTENDS RagIndex, FiniteSetTheorems, SequenceTheorems, TLAPS

-----------------------------------------------------------------------------
(* The inductive invariant *)

WorkPC == {"list", "embed", "store", "stale"}

\* The job q is at work on the chunks of s.
On(q, s) == q.src = s /\ q.pc \in WorkPC

TextsOf(s) == IF s \in Tasks THEN Texts ELSE {CommentText[s]}

\* What a job carries at each stage.
Formed(q) ==
    /\ q.pc \in WorkPC => /\ q.src \in Sources /\ q.chunks \in TextsOf(q.src)
                          /\ q.chunks # <<>>
    /\ q.pc \notin WorkPC \ {"list"} => q.seen = NoRows /\ ~q.wrote
    /\ q.todo \cup q.batch \subseteq 1 .. Len(q.chunks)
    /\ q.pc # "store" => q.batch = {}
    /\ q.pc = "store" => q.batch # {}
    /\ q.pc \notin {"embed", "store"} => q.todo = {}
    /\ q.pc \in {"dropTask", "dropComments"} => q.src \in Tasks
    /\ q.pc = "dropSource" => q.src \in Sources
    /\ q.pc = "wipe" => q.queue = Sources

\* The job q will bring s up to date, in a world where `present` says if s has a
\* text, unless it breaks or is refused.
Owes(q, s, present) ==
    \/ q.pc \in WorkPC \cup {"dropTask", "dropSource"} /\ q.src = s
    \/ q.pc \in {"dropTask", "dropComments"} /\ s \in CommentsOf(q.src)
    \/ q.pc \in WorkPC \cup {"dropTask", "dropComments", "dropSource", "read", "wipe"}
         /\ s \in q.queue
    \/ q.pc \in {"listTasks", "listComments"} /\ s \in q.queue /\ present

Owing(s) == {k \in Slots : Owes(job[k], s, Present(s))}

\* The rows X at the places where x has chunks are those chunks, and no others.
Are(X, x) == \A i \in Places :
    IF i <= Len(x) THEN X[i] # None /\ X[i].chunk = x[i] ELSE X[i] = None

\* The rows X are what the job q takes them for: where it has nothing left to
\* store they hold its chunks, and beyond its text they are those it has listed.
Intact(q, X) == q.pc # "list" => \A i \in Places :
    IF i <= Len(q.chunks)
    THEN i \notin q.todo \cup q.batch => X[i] # None /\ X[i].chunk = q.chunks[i]
    ELSE X[i] = q.seen[i]

\* Rows of s, in the index or as a job has listed them, at place i.
HeldAt(s, J, X, i) == {X[i]} \cup {J[k].seen[i] : k \in {m \in Slots : J[m].src = s}}

\* In all of the following J is the table of jobs, O the jobs that owe s a visit,
\* X its rows, D its doubts, x the text it should have.

\* An id is used at one place only.
IdsTell(s, J, X) == \A i, m \in Places :
    \A r \in HeldAt(s, J, X, i) \ {None}, q \in HeldAt(s, J, X, m) \ {None} :
        r.id = q.id => i = m

\* Two jobs at work on s know of each other.
PairsRaced(s, J, D) == \A j, k \in Slots :
    j # k /\ On(J[j], s) /\ On(J[k], s) => J[j].raced /\ "raced" \in D

RowsIntact(s, J, X, D) == \A j \in Slots :
    On(J[j], s) => Intact(J[j], X) \/ (J[j].raced /\ "raced" \in D)

\* A job that was not overtaken has read the present text, or s is visited again.
TextFresh(s, J, O, x) == \A j \in Slots :
    On(J[j], s) /\ ~J[j].raced => J[j].chunks = x \/ O \ {j} # {}

Lasting == {"raced", "lost", "orphaned"}

\* That a job was overtaken is on record, or s is visited again.
RaceKnown(s, J, O, D) == \A j \in Slots :
    On(J[j], s) /\ J[j].raced => D \cap Lasting # {} \/ O \ {j} # {}

\* SettledIndex, NoGhosts and Whole, where they hold already: not only when s is
\* quiet but when nobody owes it anything, or has written for it.
Settled(O, X, D, x) == D = {} /\ O = {} => Are(X, x)

NotFound(O, X, D, present) == ~present /\ O = {} /\ D \cap Lasting = {} => Are(X, <<>>)

InOnePiece(s, J, X, D) ==
    /\ D \cap {"raced", "partial"} = {}
    /\ \A k \in Slots : ~(On(J[k], s) /\ J[k].wrote)
    => Are(X, <<>>) \/ \E y \in TextsOf(s) : Are(X, y)

SourceInv(s, J, O, X, D, present, x) ==
    /\ IdsTell(s, J, X) /\ PairsRaced(s, J, D) /\ RowsIntact(s, J, X, D)
    /\ TextFresh(s, J, O, x) /\ RaceKnown(s, J, O, D)
    /\ Settled(O, X, D, x) /\ NotFound(O, X, D, present) /\ InOnePiece(s, J, X, D)

SourceOK(s) == SourceInv(s, job, Owing(s), index[s], doubt[s], Present(s), Wanted(s))

\* Comments are written on tasks that exist.
CommentsHang == \A c \in written : status[TaskOf[c]] \in {"live", "trashed"}

IndexInv ==
    /\ TypeOK /\ CommentsHang
    /\ \A j \in Slots : Formed(job[j])
    /\ \A s \in Sources : SourceOK(s)
-----------------------------------------------------------------------------
(* Places and ids *)

\* The image of a finite set is finite.
LEMMA FiniteImage ==
    ASSUME NEW S, IsFiniteSet(S), NEW f, DOMAIN f = S
    PROVE  IsFiniteSet({f[a] : a \in S})
<1> DEFINE g == [a \in S |-> f[a]]
           T == {f[a] : a \in S}
<1>1. g \in Surjection(S, T)
  BY DEF Surjection
<1>2. QED
  BY <1>1, FS_Surjection

\* A finite set has a member that p puts highest: take a smallest set without one,
\* leave one of its members out, and compare it with the highest of the others.
LEMMA HasHighest ==
    ASSUME NEW S, IsFiniteSet(S), S # {}, NEW p \in [S -> Int]
    PROVE  \E m \in S : \A t \in S : p[t] <= p[m]
<1> DEFINE Topped(X) == \E m \in X : \A t \in X : p[t] <= p[m]
           Bad == {X \in SUBSET S : X # {} /\ ~Topped(X)}
<1>1. SUFFICES ASSUME Bad # {} PROVE FALSE
  OBVIOUS
<1>2. FiniteSubsetsOf(S) = SUBSET S
  BY FS_FiniteSubsetsOfFinite
<1>3. IsWellFoundedOn(StrictSubsetOrdering(S), SUBSET S)
  BY <1>2, FS_StrictSubsetOrderingWellFounded
<1>4. PICK X \in Bad : \A Y \in Bad : <<Y, X>> \notin StrictSubsetOrdering(S)
  BY <1>1, <1>3, WFMin
<1>5. PICK x \in X : TRUE
  OBVIOUS
<1>6. X \ {x} \notin Bad
  <2>1. <<X \ {x}, X>> \in StrictSubsetOrdering(S)
    BY <1>5 DEF StrictSubsetOrdering
  <2>2. QED
    BY <1>4, <2>1
<1>7. CASE X \ {x} = {}
  <2>1. \A t \in X : t = x
    BY <1>7
  <2>2. p[x] \in Int
    OBVIOUS
  <2>3. Topped(X)
    BY <2>1, <2>2
  <2>4. QED
    BY <2>3
<1>8. CASE X \ {x} # {}
  <2>1. PICK m \in X \ {x} : \A t \in X \ {x} : p[t] <= p[m]
    BY <1>6, <1>8
  <2>2. p[x] \in Int /\ p[m] \in Int /\ \A t \in X : p[t] \in Int
    OBVIOUS
  <2>3. CASE p[x] <= p[m]
    BY <2>1, <2>3
  <2>4. CASE ~(p[x] <= p[m])
    <3>1. \A t \in X : p[t] <= p[x]
      BY <2>1, <2>2, <2>4
    <3>2. QED
      BY <3>1
  <2>5. QED
    BY <2>3, <2>4
<1>9. QED
  BY <1>7, <1>8

\* The places are the numbers up to the length of the longest text.
LEMMA PlacesReach ==
    /\ Places \subseteq Nat \ {0} /\ IsFiniteSet(Places)
    /\ \A x \in AllTexts : 1 .. Len(x) \subseteq Places
<1> DEFINE f == [c \in Comments |-> CommentText[c]]
           C == {f[c] : c \in Comments}
           p == [x \in AllTexts |-> Len(x)]
           L == {Len(x) : x \in AllTexts}
           n == CHOOSE m \in L : \A x \in AllTexts : Len(x) <= m
<1>1. AllTexts = Texts \cup C
  BY DEF AllTexts
<1>2. IsFiniteSet(C)
  BY FiniteImage, RagConstants
<1>3. IsFiniteSet(AllTexts) /\ AllTexts # {} /\ AllTexts \subseteq Seq(Chunks)
  <2>1. \A c \in Comments : CommentText[c] \in Seq(Chunks)
    BY RagConstants
  <2>2. IsFiniteSet(Texts \cup C) /\ Texts # {} /\ Texts \subseteq Seq(Chunks)
    BY <1>2, FS_Union, RagConstants
  <2>3. QED
    BY <1>1, <2>1, <2>2
<1>4. p \in [AllTexts -> Int] /\ \A x \in AllTexts : Len(x) \in Nat
  BY <1>3
<1>5. PICK m \in AllTexts : \A x \in AllTexts : p[x] <= p[m]
  <2> HIDE DEF p
  <2>1. QED
    BY <1>3, <1>4, HasHighest
<1>6. \E k \in L : \A x \in AllTexts : Len(x) <= k
  BY <1>5
<1>7. n \in L /\ \A x \in AllTexts : Len(x) <= n
  BY <1>6
<1>8. n \in Nat
  BY <1>4, <1>7
<1>9. Places = 1 .. n
  BY DEF Places
<1> HIDE DEF n
<1>10. \A x \in AllTexts : 1 .. Len(x) \subseteq 1 .. n
  BY <1>4, <1>7, <1>8
<1>11. 1 .. n \subseteq Nat \ {0} /\ IsFiniteSet(1 .. n)
  BY <1>8, FS_Interval
<1>12. QED
  BY <1>9, <1>10, <1>11

\* Without chunks there are no rows.
LEMMA NoRowsAre == Are(NoRows, <<>>) /\ \A i \in Places : NoRows[i] = None
<1>1. \A i \in Places : ~(i <= Len(<<>>))
  BY PlacesReach
<1>2. \A i \in Places : NoRows[i] = None
  BY DEF NoRows
<1>3. QED
  BY <1>1, <1>2 DEF Are

\* A nonempty set of places has a first one.
LEMMA FirstPlace ==
    ASSUME NEW B \in SUBSET Places, B # {}
    PROVE  \E i \in B : \A m \in B : i <= m
<1> DEFINE p == [i \in B |-> 0 - i]
<1>1. IsFiniteSet(B) /\ B \subseteq Nat
  BY PlacesReach, FS_Subset
<1>2. p \in [B -> Int]
  BY <1>1
<1>3. PICK i \in B : \A m \in B : p[m] <= p[i]
  <2> HIDE DEF p
  <2>1. QED
    BY <1>1, <1>2, HasHighest
<1>4. \A m \in B : i <= m
  BY <1>1, <1>3
<1>5. QED
  BY <1>4

\* Among more numbers than are used there is an unused one.
LEMMA UnusedNumber ==
    ASSUME NEW U, IsFiniteSet(U)
    PROVE  /\ (CHOOSE n \in 0 .. Cardinality(U) : n \notin U) \in Nat
           /\ (CHOOSE n \in 0 .. Cardinality(U) : n \notin U) \notin U
<1> DEFINE c == Cardinality(U)
<1>1. c \in Nat
  BY FS_CardinalityType
<1>2. \E n \in 0 .. c : n \notin U
  <2> SUFFICES ASSUME 0 .. c \subseteq U PROVE FALSE
    OBVIOUS
  <2>1. Cardinality(0 .. c) <= c
    BY FS_Subset
  <2>2. Cardinality(0 .. c) = c + 1
    <3> HIDE DEF c
    <3>1. ~(0 > c) /\ c \in Int /\ 0 \in Int /\ c - 0 + 1 = c + 1
      BY <1>1
    <3>2. QED
      BY <3>1, FS_Interval
  <2> HIDE DEF c
  <2>3. QED
    BY <1>1, <2>1, <2>2
<1>3. (CHOOSE n \in 0 .. c : n \notin U) \in 0 .. c /\ (CHOOSE n \in 0 .. c : n \notin U) \notin U
  BY <1>2
<1>4. QED
  BY <1>1, <1>3

-----------------------------------------------------------------------------
(* A source and the jobs, whatever happened in between *)

\* Job m has listed no rows of s but those it had listed before.
SeenFrom(s, J, K) == \A m \in Slots : K[m].src = s =>
    K[m].seen = NoRows \/ (J[m].src = s /\ K[m].seen = J[m].seen)

\* As far as the chunks of a source go, q is what p was, or was overtaken since.
SameWork(p, q) ==
    /\ q.chunks = p.chunks /\ q.seen = p.seen /\ q.todo = p.todo /\ q.batch = p.batch
    /\ q.pc = p.pc /\ q.wrote = p.wrote

\* Those at work on s are so still; nobody else is.
SameWorkers(s, J, K) == \A j \in Slots :
    /\ On(K[j], s) <=> On(J[j], s)
    /\ On(J[j], s) => SameWork(J[j], K[j]) /\ K[j].raced = J[j].raced

\* Whoever is still at work on s was so before, and knows that it was overtaken.
AllRaced(s, J, K) == \A j \in Slots :
    On(K[j], s) => On(J[j], s) /\ SameWork(J[j], K[j]) /\ K[j].raced

\* Those at work on s owe it a visit and have a text; without a text it should
\* have no chunks.
Sound(s, J, O, present, x) ==
    /\ \A j \in Slots : On(J[j], s) => /\ j \in O /\ J[j].chunks # <<>>
                                      /\ J[j].chunks \in TextsOf(s)
    /\ ~present => x = <<>>

LEMMA SeenKeeps ==
    ASSUME NEW s, NEW J, NEW K, NEW X, NEW Y, IdsTell(s, J, X), SeenFrom(s, J, K),
           \A i \in Places : Y[i] \in {X[i], None}
    PROVE  IdsTell(s, K, Y)
<1>1. ASSUME NEW i \in Places, NEW r \in HeldAt(s, K, Y, i) \ {None}
      PROVE  r \in HeldAt(s, J, X, i) \ {None}
  <2>1. CASE r = Y[i]
    BY <1>1, <2>1 DEF HeldAt
  <2>2. CASE r # Y[i]
    <3>1. PICK k \in Slots : K[k].src = s /\ r = K[k].seen[i]
      BY <1>1, <2>2 DEF HeldAt
    <3>2. NoRows[i] = None
      BY DEF NoRows
    <3>3. QED
      BY <1>1, <3>1, <3>2 DEF SeenFrom, HeldAt
  <2>3. QED
    BY <2>1, <2>2
<1> HIDE DEF HeldAt
<1>2. QED
  BY <1>1 DEF IdsTell

LEMMA IntactKeeps ==
    ASSUME NEW p, NEW q, NEW X, SameWork(p, q)
    PROVE  Intact(q, X) <=> Intact(p, X)
BY DEF SameWork, Intact

\* Nothing happens to s but that it is owed more visits and doubted more.
LEMMA QuietKeeps ==
    ASSUME NEW s, NEW J, NEW K, NEW O, NEW P, NEW X, NEW D, NEW E, NEW present, NEW x,
           SourceInv(s, J, O, X, D, present, x), SameWorkers(s, J, K), SeenFrom(s, J, K),
           O \subseteq P, D \subseteq E
    PROVE  SourceInv(s, K, P, X, E, present, x)
<1>1. IdsTell(s, K, X)
  BY SeenKeeps DEF SourceInv
<1>2. PairsRaced(s, K, E)
  BY DEF SourceInv, PairsRaced, SameWorkers
<1>3. RowsIntact(s, K, X, E)
  BY IntactKeeps DEF SourceInv, RowsIntact, SameWorkers
<1>4. TextFresh(s, K, P, x)
  BY DEF SourceInv, TextFresh, SameWorkers, SameWork
<1>5. RaceKnown(s, K, P, E)
  BY DEF SourceInv, RaceKnown, SameWorkers
<1>6. Settled(P, X, E, x) /\ NotFound(P, X, E, present)
  BY DEF SourceInv, Settled, NotFound
<1>7. InOnePiece(s, K, X, E)
  BY DEF SourceInv, InOnePiece, SameWorkers, SameWork
<1>8. QED
  BY <1>1, <1>2, <1>3, <1>4, <1>5, <1>6, <1>7 DEF SourceInv

\* The text changes and a job is scheduled for s.
LEMMA ScheduledKeeps ==
    ASSUME NEW s, NEW J, NEW K, NEW O, NEW P, NEW X, NEW D, NEW present, NEW x,
           NEW present2, NEW x2, NEW k,
           SourceInv(s, J, O, X, D, present, x), SameWorkers(s, J, K), SeenFrom(s, J, K),
           k \in P, ~On(K[k], s)
    PROVE  SourceInv(s, K, P, X, D, present2, x2)
<1>1. IdsTell(s, K, X)
  BY SeenKeeps DEF SourceInv
<1>2. PairsRaced(s, K, D)
  BY DEF SourceInv, PairsRaced, SameWorkers
<1>3. RowsIntact(s, K, X, D)
  BY IntactKeeps DEF SourceInv, RowsIntact, SameWorkers
<1>4. \A j \in Slots : On(K[j], s) => P \ {j} # {}
  OBVIOUS
<1>5. TextFresh(s, K, P, x2) /\ RaceKnown(s, K, P, D)
  BY <1>4 DEF TextFresh, RaceKnown
<1>6. Settled(P, X, D, x2) /\ NotFound(P, X, D, present2)
  BY DEF Settled, NotFound
<1>7. InOnePiece(s, K, X, D)
  BY DEF SourceInv, InOnePiece, SameWorkers, SameWork
<1>8. QED
  BY <1>1, <1>2, <1>3, <1>5, <1>6, <1>7 DEF SourceInv

\* A source without a text gets one and nothing is scheduled.
LEMMA MissedKeeps ==
    ASSUME NEW s, NEW J, NEW O, NEW P, NEW X, NEW D, NEW present, NEW x, NEW present2, NEW x2,
           SourceInv(s, J, O, X, D, present, x), Sound(s, J, O, present, x),
           O \subseteq P, x = <<>>, ~present2 => ~present
    PROVE  SourceInv(s, J, P, X, D \cup {"missed"}, present2, x2)
<1> DEFINE E == D \cup {"missed"}
<1>1. IdsTell(s, J, X) /\ PairsRaced(s, J, E) /\ RowsIntact(s, J, X, E)
  BY DEF SourceInv, PairsRaced, RowsIntact
<1>2. TextFresh(s, J, P, x2)
  BY DEF SourceInv, Sound, TextFresh
<1>3. RaceKnown(s, J, P, E)
  BY DEF SourceInv, RaceKnown
<1>4. Settled(P, X, E, x2) /\ NotFound(P, X, E, present2)
  BY DEF SourceInv, Settled, NotFound
<1>5. InOnePiece(s, J, X, E)
  BY DEF SourceInv, InOnePiece
<1>6. QED
  BY <1>1, <1>2, <1>3, <1>4, <1>5 DEF SourceInv

\* Something lasting happens to s, known to those at work on it.
LEMMA LastingKeeps ==
    ASSUME NEW s, NEW J, NEW K, NEW O, NEW P, NEW X, NEW D, NEW E, NEW present, NEW x,
           NEW present2, NEW x2,
           SourceInv(s, J, O, X, D, present, x), AllRaced(s, J, K), SeenFrom(s, J, K),
           D \subseteq E, E \cap Lasting # {},
           \A k \in Slots : On(J[k], s) /\ ~On(K[k], s) => ~J[k].wrote \/ "partial" \in E
    PROVE  SourceInv(s, K, P, X, E, present2, x2)
<1>1. IdsTell(s, K, X)
  BY SeenKeeps DEF SourceInv
<1>2. PairsRaced(s, K, E)
  BY DEF SourceInv, PairsRaced, AllRaced
<1>3. RowsIntact(s, K, X, E)
  BY IntactKeeps DEF SourceInv, RowsIntact, AllRaced
<1>4. TextFresh(s, K, P, x2) /\ RaceKnown(s, K, P, E)
  BY DEF TextFresh, RaceKnown, AllRaced
<1>5. Settled(P, X, E, x2) /\ NotFound(P, X, E, present2)
  BY DEF Settled, NotFound
<1>6. InOnePiece(s, K, X, E)
  BY DEF SourceInv, InOnePiece, AllRaced, SameWork
<1>7. QED
  BY <1>1, <1>2, <1>3, <1>4, <1>5, <1>6 DEF SourceInv

\* Those at work on a source that has lost its text before are overtaken.
LEMMA LostTextKeeps ==
    ASSUME NEW s, NEW J, NEW K, NEW O, NEW P, NEW X, NEW D, NEW present, NEW x,
           SourceInv(s, J, O, X, D, present, x), Sound(s, J, O, present, x),
           \A j \in Slots : On(J[j], s) => On(K[j], s), AllRaced(s, J, K), SeenFrom(s, J, K),
           O \subseteq P, x = <<>>
    PROVE  SourceInv(s, K, P, X, D, present, x)
<1>1. IdsTell(s, K, X)
  BY SeenKeeps DEF SourceInv
<1>2. PairsRaced(s, K, D)
  BY DEF SourceInv, PairsRaced, AllRaced
<1>3. RowsIntact(s, K, X, D)
  BY IntactKeeps DEF SourceInv, RowsIntact, AllRaced
<1>4. TextFresh(s, K, P, x)
  BY DEF TextFresh, AllRaced
<1>5. RaceKnown(s, K, P, D)
  BY DEF SourceInv, Sound, TextFresh, RaceKnown, AllRaced
<1>6. Settled(P, X, D, x) /\ NotFound(P, X, D, present)
  BY DEF SourceInv, Settled, NotFound
<1>7. InOnePiece(s, K, X, D)
  BY DEF SourceInv, InOnePiece, AllRaced, SameWork
<1>8. QED
  BY <1>1, <1>2, <1>3, <1>4, <1>5, <1>6, <1>7 DEF SourceInv

\* The rows of s are deleted.
LEMMA DropKeeps ==
    ASSUME NEW s, NEW J, NEW K, NEW O, NEW P, NEW X, NEW D, NEW E, NEW present, NEW x,
           SourceInv(s, J, O, X, D, present, x), AllRaced(s, J, K), SeenFrom(s, J, K),
           E = IF x # <<>> \/ (\E j \in Slots : On(J[j], s)) THEN D \cup {"raced"} ELSE {}
    PROVE  SourceInv(s, K, P, NoRows, E, present, x)
<1>1. Are(NoRows, <<>>) /\ \A i \in Places : NoRows[i] = None
  BY NoRowsAre
<1>2. IdsTell(s, K, NoRows)
  BY <1>1, SeenKeeps DEF SourceInv
<1> HIDE DEF NoRows
<1>3. CASE "raced" \in E
  <2>1. PairsRaced(s, K, E) /\ RowsIntact(s, K, NoRows, E) /\ TextFresh(s, K, P, x)
    BY <1>3 DEF PairsRaced, RowsIntact, TextFresh, AllRaced
  <2>2. RaceKnown(s, K, P, E) /\ Settled(P, NoRows, E, x) /\ NotFound(P, NoRows, E, present)
        /\ InOnePiece(s, K, NoRows, E)
    BY <1>3 DEF RaceKnown, Settled, NotFound, InOnePiece, Lasting
  <2>3. QED
    BY <1>2, <2>1, <2>2 DEF SourceInv
<1>4. CASE "raced" \notin E
  <2>1. E = {} /\ x = <<>> /\ \A j \in Slots : ~On(K[j], s)
    BY <1>4 DEF AllRaced
  <2>2. QED
    BY <1>1, <1>2, <2>1 DEF SourceInv, PairsRaced, RowsIntact, TextFresh, RaceKnown, Settled,
                            NotFound, InOnePiece
<1>5. QED
  BY <1>3, <1>4

\* They are deleted and will be written again; nobody is at work on s.
LEMMA WipeKeeps ==
    ASSUME NEW s, NEW J, NEW K, NEW O, NEW P, NEW X, NEW D, NEW present, NEW x,
           SourceInv(s, J, O, X, D, present, x), AllRaced(s, J, K), SeenFrom(s, J, K),
           \A j \in Slots : ~On(J[j], s), P # {}
    PROVE  SourceInv(s, K, P, NoRows, D, present, x)
<1>1. Are(NoRows, <<>>) /\ \A i \in Places : NoRows[i] = None
  BY NoRowsAre
<1>2. IdsTell(s, K, NoRows)
  BY <1>1, SeenKeeps DEF SourceInv
<1>3. \A j \in Slots : ~On(K[j], s)
  BY DEF AllRaced
<1>4. QED
  BY <1>1, <1>2, <1>3 DEF SourceInv, PairsRaced, RowsIntact, TextFresh, RaceKnown, Settled,
                          NotFound, InOnePiece

-----------------------------------------------------------------------------
(* A source and a job at work on it *)

\* Job k turns from other things to the text of s.
LEMMA StartKeeps ==
    ASSUME NEW s, NEW J, NEW K, NEW O, NEW P, NEW X, NEW D, NEW E, NEW present, NEW x,
           NEW k \in Slots, SourceInv(s, J, O, X, D, present, x),
           \A m \in Slots \ {k} : /\ On(K[m], s) <=> On(J[m], s)
                                  /\ On(J[m], s) => SameWork(J[m], K[m]) /\ K[m].raced,
           SeenFrom(s, J, K), ~On(J[k], s), k \in P,
           K[k].pc = "list", K[k].src = s, K[k].chunks = x, ~K[k].wrote,
           K[k].raced <=> \E m \in Slots : On(J[m], s),
           E = IF \E m \in Slots : On(J[m], s) THEN D \cup {"raced"} ELSE D
    PROVE  SourceInv(s, K, P, X, E, present, x)
<1>1. IdsTell(s, K, X)
  BY SeenKeeps DEF SourceInv
<1>2. PairsRaced(s, K, E)
  BY DEF PairsRaced
<1>3. RowsIntact(s, K, X, E)
  BY DEF RowsIntact, Intact
<1>4. TextFresh(s, K, P, x)
  BY DEF TextFresh
<1>5. RaceKnown(s, K, P, E)
  BY DEF RaceKnown, Lasting
<1>6. Settled(P, X, E, x) /\ NotFound(P, X, E, present)
  BY DEF Settled, NotFound
<1>7. InOnePiece(s, K, X, E)
  BY DEF SourceInv, InOnePiece, SameWork
<1>8. QED
  BY <1>1, <1>2, <1>3, <1>4, <1>5, <1>6, <1>7 DEF SourceInv

\* Job k goes on with the text of s.
LEMMA OwnKeeps ==
    ASSUME NEW s, NEW J, NEW K, NEW O, NEW X, NEW Y, NEW D, NEW present, NEW x,
           NEW k \in Slots, SourceInv(s, J, O, X, D, present, x), k \in O,
           \A m \in Slots \ {k} : K[m] = J[m],
           On(J[k], s), On(K[k], s), K[k].chunks = J[k].chunks, K[k].raced = J[k].raced,
           J[k].wrote => K[k].wrote, Y = X \/ K[k].wrote,
           IdsTell(s, K, Y), Intact(J[k], X) => Intact(K[k], Y)
    PROVE  SourceInv(s, K, O, Y, D, present, x)
<1>1. PairsRaced(s, K, D)
  BY DEF SourceInv, PairsRaced
<1>2. RowsIntact(s, K, Y, D)
  <2> SUFFICES ASSUME NEW j \in Slots, On(K[j], s)
               PROVE  Intact(K[j], Y) \/ (K[j].raced /\ "raced" \in D)
    BY DEF RowsIntact
  <2>1. CASE j = k
    BY <2>1 DEF SourceInv, RowsIntact
  <2>2. CASE j # k
    BY <2>2 DEF SourceInv, PairsRaced
  <2>3. QED
    BY <2>1, <2>2
<1>3. TextFresh(s, K, O, x)
  <2> SUFFICES ASSUME NEW j \in Slots, On(K[j], s), ~K[j].raced
               PROVE  K[j].chunks = x \/ O \ {j} # {}
    BY DEF TextFresh
  <2>1. On(J[j], s) /\ ~J[j].raced /\ K[j].chunks = J[j].chunks
    OBVIOUS
  <2>2. QED
    BY <2>1 DEF SourceInv, TextFresh
<1>4. RaceKnown(s, K, O, D)
  <2> SUFFICES ASSUME NEW j \in Slots, On(K[j], s), K[j].raced
               PROVE  D \cap Lasting # {} \/ O \ {j} # {}
    BY DEF RaceKnown
  <2>1. On(J[j], s) /\ J[j].raced
    OBVIOUS
  <2>2. QED
    BY <2>1 DEF SourceInv, RaceKnown
<1>5. Settled(O, Y, D, x) /\ NotFound(O, Y, D, present)
  BY DEF Settled, NotFound
<1>6. InOnePiece(s, K, Y, D)
  BY DEF SourceInv, InOnePiece
<1>7. QED
  BY <1>1, <1>2, <1>3, <1>4, <1>5, <1>6 DEF SourceInv

\* Job k has stored its chunks of s and deletes the rows beyond.
LEMMA DeleteKeeps ==
    ASSUME NEW s, NEW J, NEW K, NEW O, NEW P, NEW X, NEW Y, NEW D, NEW E, NEW present, NEW x,
           NEW k \in Slots, SourceInv(s, J, O, X, D, present, x), Sound(s, J, O, present, x),
           \A m \in Slots \ {k} : K[m] = J[m], SeenFrom(s, J, K),
           On(J[k], s), ~On(K[k], s), O \ {k} \subseteq P,
           \A i \in Places : Y[i] \in {X[i], None},
           Intact(J[k], X) => Are(Y, J[k].chunks),
           E = IF J[k].raced THEN D ELSE {}
    PROVE  SourceInv(s, K, P, Y, E, present, x)
<1>1. IdsTell(s, K, Y)
  BY SeenKeeps DEF SourceInv
<1>2. \A j \in Slots : On(K[j], s) => /\ K[j] = J[j] /\ J[j].raced /\ "raced" \in E
  BY DEF SourceInv, PairsRaced
<1>3. PairsRaced(s, K, E) /\ RowsIntact(s, K, Y, E)
  BY <1>2 DEF PairsRaced, RowsIntact
<1>4. TextFresh(s, K, P, x) /\ RaceKnown(s, K, P, E)
  BY <1>2 DEF TextFresh, RaceKnown, Lasting
<1>5. J[k].raced => P # {} \/ E \cap Lasting # {}
  BY DEF SourceInv, RaceKnown
<1>6. ~J[k].raced => Are(Y, J[k].chunks) /\ (P # {} \/ J[k].chunks = x)
  BY DEF SourceInv, RowsIntact, TextFresh
<1>7. Settled(P, Y, E, x)
  BY <1>5, <1>6 DEF Settled
<1>8. NotFound(P, Y, E, present)
  BY <1>5, <1>6 DEF NotFound, Sound
<1>9. InOnePiece(s, K, Y, E)
  BY DEF SourceInv, RowsIntact, InOnePiece, Sound
<1>10. QED
  BY <1>1, <1>3, <1>4, <1>7, <1>8, <1>9 DEF SourceInv

\* Job k gives s up, for want of embeddings.
LEMMA RefuseKeeps ==
    ASSUME NEW s, NEW J, NEW K, NEW O, NEW P, NEW X, NEW D, NEW E, NEW present, NEW x,
           NEW k \in Slots, SourceInv(s, J, O, X, D, present, x), Sound(s, J, O, present, x),
           \A m \in Slots \ {k} : K[m] = J[m], SeenFrom(s, J, K),
           On(J[k], s), ~On(K[k], s), O \ {k} \subseteq P,
           E = D \cup {"refused"} \cup IF J[k].wrote THEN {"partial"} ELSE {}
    PROVE  SourceInv(s, K, P, X, E, present, x)
<1>1. IdsTell(s, K, X)
  BY SeenKeeps DEF SourceInv
<1>2. \A j \in Slots : On(K[j], s) => /\ K[j] = J[j] /\ J[j].raced /\ "raced" \in E
  BY DEF SourceInv, PairsRaced
<1>3. PairsRaced(s, K, E) /\ RowsIntact(s, K, X, E)
  BY <1>2 DEF PairsRaced, RowsIntact
<1>4. TextFresh(s, K, P, x) /\ RaceKnown(s, K, P, E)
  BY <1>2 DEF TextFresh, RaceKnown, Lasting
<1>5. J[k].raced => P # {} \/ E \cap Lasting # {}
  BY DEF SourceInv, RaceKnown
<1>6. ~J[k].raced => P # {} \/ J[k].chunks = x
  BY DEF SourceInv, TextFresh
<1>7. Settled(P, X, E, x)
  BY DEF Settled
<1>8. NotFound(P, X, E, present)
  BY <1>5, <1>6 DEF NotFound, Sound
<1>9. InOnePiece(s, K, X, E)
  <2> SUFFICES ASSUME E \cap {"raced", "partial"} = {},
                      \A m \in Slots : ~(On(K[m], s) /\ K[m].wrote)
               PROVE  Are(X, <<>>) \/ \E y \in TextsOf(s) : Are(X, y)
    BY DEF InOnePiece
  <2>1. \A m \in Slots : ~(On(J[m], s) /\ J[m].wrote)
    OBVIOUS
  <2>2. QED
    BY <2>1 DEF SourceInv, InOnePiece
<1>10. QED
  BY <1>1, <1>3, <1>4, <1>7, <1>8, <1>9 DEF SourceInv

-----------------------------------------------------------------------------
(* The jobs before and after a step *)

LEMMA WorkingIsOn == \A j, s : Working(j, s) <=> On(job[j], s)
BY DEF Working, On, WorkPC

LEMMA TypesNow ==
    ASSUME IndexInv
    PROVE  /\ \A s \in Sources : index[s] \in Rows /\ doubt[s] \subseteq Doubts
           /\ \A j \in Slots : job[j] \in Job /\ Formed(job[j])
           /\ \A s \in Sources : SourceOK(s)
BY DEF IndexInv, TypeOK

LEMMA IdleFacts == Idle \in Job /\ Formed(Idle)
<1>1. NoRows \in Rows
  BY DEF NoRows, Rows
<1>2. ~(\E i : i \in {} \cup {})
  OBVIOUS
<1> HIDE DEF NoRows, Rows
<1>3. QED
  BY <1>1, <1>2 DEF Idle, Job, Formed, WorkPC, Steps

\* Job j has become q, those at work on one of ss know that they were overtaken.
After(J, K, j, q, ss) ==
    /\ K \in [Slots -> Job] /\ K[j] = q
    /\ \A m \in Slots \ {j} : K[m] = IF J[m].src \in ss /\ J[m].pc \in WorkPC
                                     THEN [J[m] EXCEPT !.raced = TRUE] ELSE J[m]

LEMMA MarkedJob ==
    ASSUME NEW q \in Job, Formed(q)
    PROVE  /\ [q EXCEPT !.raced = TRUE] \in Job /\ Formed([q EXCEPT !.raced = TRUE])
           /\ [q EXCEPT !.raced = TRUE].raced
           /\ SameWork(q, [q EXCEPT !.raced = TRUE])
           /\ [q EXCEPT !.raced = TRUE].src = q.src
           /\ [q EXCEPT !.raced = TRUE].queue = q.queue
<1> DEFINE p == [q EXCEPT !.raced = TRUE]
<1>1. /\ p.raced = TRUE /\ p.src = q.src /\ p.queue = q.queue /\ p.chunks = q.chunks
      /\ p.seen = q.seen /\ p.todo = q.todo /\ p.batch = q.batch /\ p.pc = q.pc
      /\ p.wrote = q.wrote
  BY DEF Job
<1>2. p \in Job
  BY DEF Job
<1> HIDE DEF p
<1>3. QED
  BY <1>1, <1>2 DEF Formed, SameWork, p

\* A step of one job, without and with others overtaken.
LEMMA JobStep ==
    ASSUME NEW J \in [Slots -> Job], NEW j \in Slots, NEW q \in Job
    PROVE  After(J, [J EXCEPT ![j] = q], j, q, {})
BY DEF After

LEMMA OvertakingStep ==
    ASSUME IndexInv, NEW j \in Slots, NEW q \in Job, job[j].pc \notin WorkPC, NEW ss
    PROVE  After(job, Overtaken([job EXCEPT ![j] = q], ss), j, q, ss)
<1> DEFINE H == [job EXCEPT ![j] = q]
           K == Overtaken(H, ss)
<1>1. job \in [Slots -> Job] /\ H \in [Slots -> Job] /\ \A m \in Slots : Formed(job[m])
  BY DEF IndexInv, TypeOK
<1>2. \A m \in Slots : K[m] = IF \E s \in ss : On(job[m], s)
                              THEN [H[m] EXCEPT !.raced = TRUE] ELSE H[m]
  BY WorkingIsOn DEF Overtaken
<1>3. K = [m \in Slots |-> K[m]]
  BY DEF Overtaken
<1>4. H[j] = q /\ \A m \in Slots \ {j} : H[m] = job[m]
  BY <1>1
<1> HIDE DEF K, H
<1>5. \A m \in Slots : (\E s \in ss : On(job[m], s)) <=> job[m].src \in ss /\ job[m].pc \in WorkPC
  BY DEF On
<1>6. K[j] = q
  BY <1>2, <1>4, <1>5
<1>7. \A m \in Slots \ {j} : /\ K[m] = IF job[m].src \in ss /\ job[m].pc \in WorkPC
                                       THEN [job[m] EXCEPT !.raced = TRUE] ELSE job[m]
                             /\ K[m] \in Job
  <2> TAKE m \in Slots \ {j}
  <2>1. job[m] \in Job /\ Formed(job[m])
    BY <1>1
  <2>2. [job[m] EXCEPT !.raced = TRUE] \in Job
    BY <2>1, MarkedJob
  <2>3. QED
    BY <1>2, <1>4, <1>5, <2>1, <2>2
<1>8. K \in [Slots -> Job]
  BY <1>3, <1>6, <1>7
<1>9. QED
  BY <1>6, <1>7, <1>8 DEF After, K, H

LEMMA OvertakenStep ==
    ASSUME IndexInv, NEW j \in Slots, NEW q \in Job, NEW ss
    PROVE  After(job, [Overtaken(job, ss) EXCEPT ![j] = q], j, q, ss)
<1> DEFINE H == Overtaken(job, ss)
           K == [H EXCEPT ![j] = q]
<1>1. job \in [Slots -> Job] /\ \A m \in Slots : Formed(job[m])
  BY DEF IndexInv, TypeOK
<1>2. \A m \in Slots : H[m] = IF \E s \in ss : On(job[m], s)
                              THEN [job[m] EXCEPT !.raced = TRUE] ELSE job[m]
  BY WorkingIsOn DEF Overtaken
<1>3. H = [m \in Slots |-> H[m]]
  BY DEF Overtaken
<1> HIDE DEF H
<1>4. \A m \in Slots : (\E s \in ss : On(job[m], s)) <=> job[m].src \in ss /\ job[m].pc \in WorkPC
  BY DEF On
<1>5. \A m \in Slots : /\ H[m] = IF job[m].src \in ss /\ job[m].pc \in WorkPC
                                 THEN [job[m] EXCEPT !.raced = TRUE] ELSE job[m]
                       /\ H[m] \in Job
  BY <1>1, <1>2, <1>4, MarkedJob
<1>6. H \in [Slots -> Job]
  BY <1>3, <1>5
<1>7. K \in [Slots -> Job] /\ K[j] = q /\ \A m \in Slots \ {j} : K[m] = H[m]
  BY <1>6
<1>8. QED
  BY <1>5, <1>7 DEF After, H

LEMMA JobsFormed ==
    ASSUME IndexInv, NEW K, NEW j \in Slots, NEW q, NEW ss, After(job, K, j, q, ss), Formed(q)
    PROVE  K \in [Slots -> Job] /\ \A m \in Slots : Formed(K[m])
BY MarkedJob DEF After, IndexInv, TypeOK

\* A step that neither starts nor ends work on s leaves those at work on s alone.
LEMMA AsideStep ==
    ASSUME IndexInv, NEW K, NEW j \in Slots, NEW q, NEW ss, After(job, K, j, q, ss),
           NEW s, s \notin ss, ~On(job[j], s), ~On(q, s),
           q.src = s => q.seen = NoRows \/ (job[j].src = s /\ q.seen = job[j].seen),
           NEW present, Owes(job[j], s, present) => Owes(q, s, present)
    PROVE  /\ SameWorkers(s, job, K) /\ SeenFrom(s, job, K)
           /\ {k \in Slots : Owes(job[k], s, present)} \subseteq
              {k \in Slots : Owes(K[k], s, present)}
<1>1. \A m \in Slots \ {j} :
          /\ K[m].src = job[m].src /\ SameWork(job[m], K[m]) /\ K[m].queue = job[m].queue
          /\ On(job[m], s) => K[m].raced = job[m].raced
  <2> TAKE m \in Slots \ {j}
  <2>1. PICK p \in Job : p = job[m] /\ Formed(p)
    BY TypesNow
  <2>2. /\ SameWork(p, [p EXCEPT !.raced = TRUE]) /\ [p EXCEPT !.raced = TRUE].raced
        /\ [p EXCEPT !.raced = TRUE].src = p.src /\ [p EXCEPT !.raced = TRUE].queue = p.queue
    BY <2>1, MarkedJob
  <2>3. SameWork(p, p)
    BY DEF SameWork
  <2>4. K[m] = IF p.src \in ss /\ p.pc \in WorkPC THEN [p EXCEPT !.raced = TRUE] ELSE p
    BY <2>1 DEF After
  <2>5. QED
    BY <2>1, <2>2, <2>3, <2>4 DEF On
<1>2. K[j] = q
  BY DEF After
<1>3. SameWorkers(s, job, K)
  BY <1>1, <1>2 DEF SameWorkers, On, SameWork
<1>4. SeenFrom(s, job, K)
  BY <1>1, <1>2 DEF SeenFrom, SameWork
<1>5. \A m \in Slots : Owes(job[m], s, present) => Owes(K[m], s, present)
  BY <1>1, <1>2 DEF Owes, SameWork
<1>6. QED
  BY <1>3, <1>4, <1>5

\* A step that overtakes those at work on s.
LEMMA OvertakingOthers ==
    ASSUME IndexInv, NEW K, NEW j \in Slots, NEW q, NEW ss, After(job, K, j, q, ss),
           NEW s \in ss, ~On(q, s),
           q.seen = NoRows \/ (q.src = job[j].src /\ q.seen = job[j].seen)
    PROVE  AllRaced(s, job, K) /\ SeenFrom(s, job, K)
<1>1. \A m \in Slots \ {j} :
          /\ K[m].src = job[m].src /\ SameWork(job[m], K[m])
          /\ On(job[m], s) => K[m].raced
  <2> TAKE m \in Slots \ {j}
  <2>1. PICK p \in Job : p = job[m] /\ Formed(p)
    BY TypesNow
  <2>2. /\ SameWork(p, [p EXCEPT !.raced = TRUE]) /\ [p EXCEPT !.raced = TRUE].raced
        /\ [p EXCEPT !.raced = TRUE].src = p.src /\ [p EXCEPT !.raced = TRUE].queue = p.queue
    BY <2>1, MarkedJob
  <2>3. SameWork(p, p)
    BY DEF SameWork
  <2>4. K[m] = IF p.src \in ss /\ p.pc \in WorkPC THEN [p EXCEPT !.raced = TRUE] ELSE p
    BY <2>1 DEF After
  <2>5. QED
    BY <2>1, <2>2, <2>3, <2>4 DEF On
<1>2. K[j] = q
  BY DEF After
<1>3. AllRaced(s, job, K)
  BY <1>1, <1>2 DEF AllRaced, On, SameWork
<1>4. SeenFrom(s, job, K)
  BY <1>1, <1>2 DEF SeenFrom, SameWork
<1>5. QED
  BY <1>3, <1>4

-----------------------------------------------------------------------------
(* What a source is in a state *)

LEMMA SoundNow ==
    ASSUME IndexInv, NEW s \in Sources
    PROVE  Sound(s, job, Owing(s), Present(s), Wanted(s))
<1>1. ASSUME NEW j \in Slots, On(job[j], s)
      PROVE  j \in Owing(s) /\ job[j].chunks # <<>> /\ job[j].chunks \in TextsOf(s)
  <2>1. Formed(job[j]) /\ job[j].src = s /\ job[j].pc \in WorkPC
    BY <1>1 DEF IndexInv, On
  <2>2. QED
    BY <2>1 DEF Formed, Owing, Owes
<1>2. ~Present(s) => Wanted(s) = <<>>
  BY DEF Wanted
<1>3. QED
  BY <1>1, <1>2 DEF Sound

LEMMA SameTexts ==
    ASSUME UNCHANGED data, NEW s
    PROVE  Present(s)' = Present(s) /\ Wanted(s)' = Wanted(s)
BY DEF data, Present, Wanted, TextOf

\* Nothing happens to s but that it is doubted more.
LEMMA AsideKeeps ==
    ASSUME IndexInv, NEW s \in Sources, NEW j \in Slots, NEW q, NEW ss,
           After(job, job', j, q, ss), s \notin ss,
           Present(s)' = Present(s), Wanted(s)' = Wanted(s), index'[s] = index[s],
           doubt[s] \subseteq doubt'[s], ~On(job[j], s), ~On(q, s),
           q.src = s => q.seen = NoRows \/ (job[j].src = s /\ q.seen = job[j].seen),
           Owes(job[j], s, Present(s)) => Owes(q, s, Present(s))
    PROVE  SourceOK(s)'
<1>1. SourceInv(s, job, Owing(s), index[s], doubt[s], Present(s), Wanted(s))
  BY DEF IndexInv, SourceOK
<1>2. PICK p : p = Present(s)
  OBVIOUS
<1>3. PICK K : K = job'
  OBVIOUS
<1>4. /\ SameWorkers(s, job, K) /\ SeenFrom(s, job, K)
      /\ {k \in Slots : Owes(job[k], s, p)} \subseteq {k \in Slots : Owes(K[k], s, p)}
  <2>1. After(job, K, j, q, ss) /\ (Owes(job[j], s, p) => Owes(q, s, p))
    BY <1>2, <1>3
  <2>2. QED
    BY <2>1, AsideStep
<1>5. Owing(s) \subseteq Owing(s)'
  BY <1>2, <1>3, <1>4 DEF Owing
<1>6. SourceInv(s, job', Owing(s)', index'[s], doubt'[s], Present(s)', Wanted(s)')
  BY <1>1, <1>3, <1>4, <1>5, QuietKeeps
<1>7. QED
  BY <1>6 DEF SourceOK

-----------------------------------------------------------------------------
(* Every step keeps the invariant: deletions *)

\* What a job becomes that has only the sources Q left.
Rest(Q) == [Idle EXCEPT !.queue = Q, !.pc = IF Q = {} THEN "idle" ELSE "read"]

LEMMA RestFacts ==
    ASSUME NEW Q \in SUBSET Sources
    PROVE  /\ Rest(Q) \in Job /\ Formed(Rest(Q)) /\ Rest(Q).seen = NoRows
           /\ Rest(Q).src = None /\ Rest(Q).queue = Q
           /\ \A s \in Sources : ~On(Rest(Q), s)
           /\ \A s \in Q : \A present : Owes(Rest(Q), s, present)
<1> DEFINE q == Rest(Q)
<1>1. Idle \in Job /\ Idle.seen = NoRows /\ Idle.src = None /\ Idle.wrote = FALSE /\ Idle.todo = {} /\ Idle.batch = {}
  BY IdleFacts DEF Idle
<1>2. /\ q \in Job /\ q.seen = NoRows /\ q.src = None /\ ~q.wrote /\ q.todo = {} /\ q.batch = {} /\ q.queue = Q
      /\ q.pc = IF Q = {} THEN "idle" ELSE "read"
  BY <1>1 DEF Rest, Job, Steps
<1> HIDE DEF q
<1>3. Formed(q)
  BY <1>2 DEF Formed, WorkPC
<1>4. \A s \in Sources : ~On(q, s)
  BY <1>2 DEF On, WorkPC
<1>5. \A s \in Q : \A present : Owes(q, s, present)
  BY <1>2 DEF Owes, WorkPC
<1>6. QED
  BY <1>2, <1>3, <1>4, <1>5 DEF q

\* Deleting the rows of ss, by a job that is not at work on any.
LEMMA DroppedKeeps ==
    ASSUME IndexInv, NEW j \in Slots, NEW q, NEW ss, After(job, job', j, q, ss),
           NEW s \in Sources, s \in ss, ~On(q, s),
           q.seen = NoRows \/ (q.src = job[j].src /\ q.seen = job[j].seen),
           UNCHANGED data, index'[s] = NoRows,
           doubt'[s] = IF Wanted(s) # <<>> \/ \E k \in Slots : Working(k, s)
                       THEN doubt[s] \cup {"raced"} ELSE {}
    PROVE  SourceOK(s)'
<1>1. SourceInv(s, job, Owing(s), index[s], doubt[s], Present(s), Wanted(s))
  BY DEF IndexInv, SourceOK
<1>2. AllRaced(s, job, job') /\ SeenFrom(s, job, job')
  <2>1. PICK K : K = job'
    OBVIOUS
  <2>2. AllRaced(s, job, K) /\ SeenFrom(s, job, K)
    BY <2>1, OvertakingOthers
  <2>3. QED
    BY <2>1, <2>2
<1>3. doubt'[s] = IF Wanted(s) # <<>> \/ (\E k \in Slots : On(job[k], s))
                  THEN doubt[s] \cup {"raced"} ELSE {}
  BY WorkingIsOn
<1>4. SourceInv(s, job', Owing(s)', NoRows, doubt'[s], Present(s), Wanted(s))
  BY <1>1, <1>2, <1>3, DropKeeps
<1>5. QED
  BY <1>4, SameTexts DEF SourceOK

LEMMA ClearedType ==
    ASSUME index \in [Sources -> Rows], NEW ss
    PROVE  /\ Cleared(ss) \in [Sources -> Rows]
           /\ \A s \in Sources : Cleared(ss)[s] = IF s \in ss THEN NoRows ELSE index[s]
BY DEF Cleared, Rows, NoRows

LEMMA DoubtAfterDropType ==
    ASSUME doubt \in [Sources -> SUBSET Doubts], NEW ss
    PROVE  /\ DoubtAfterDrop(ss) \in [Sources -> SUBSET Doubts]
           /\ \A s \in Sources : DoubtAfterDrop(ss)[s] =
                IF s \notin ss THEN doubt[s]
                ELSE IF Wanted(s) # <<>> \/ \E k \in Slots : Working(k, s)
                THEN doubt[s] \cup {"raced"} ELSE {}
BY DEF DoubtAfterDrop, Doubts

LEMMA DroppedTypes ==
    ASSUME IndexInv, NEW ss, index' = Cleared(ss), doubt' = DoubtAfterDrop(ss)
    PROVE  /\ index' \in [Sources -> Rows] /\ doubt' \in [Sources -> SUBSET Doubts]
           /\ \A s \in Sources : /\ index'[s] = IF s \in ss THEN NoRows ELSE index[s]
                                 /\ doubt'[s] = IF s \notin ss THEN doubt[s]
                                      ELSE IF Wanted(s) # <<>> \/ \E k \in Slots : Working(k, s)
                                      THEN doubt[s] \cup {"raced"} ELSE {}
<1>1. index \in [Sources -> Rows] /\ doubt \in [Sources -> SUBSET Doubts]
  BY DEF IndexInv, TypeOK
<1>2. QED
  BY <1>1, ClearedType, DoubtAfterDropType

\* Texts and jobs apart from the index: what every step of a job leaves to show.
LEMMA JobStepKeeps ==
    ASSUME IndexInv, NEW j \in Slots, NEW q, NEW ss, After(job, job', j, q, ss), Formed(q),
           UNCHANGED <<data, edits>>, faults' \in Nat,
           index' \in [Sources -> Rows], doubt' \in [Sources -> SUBSET Doubts],
           \A s \in Sources : SourceOK(s)'
    PROVE  IndexInv'
<1>1. job' \in [Slots -> Job] /\ \A m \in Slots : Formed(job'[m])
  <2>1. PICK K : K = job'
    OBVIOUS
  <2>2. K \in [Slots -> Job] /\ \A m \in Slots : Formed(K[m])
    BY <2>1, JobsFormed
  <2>3. QED
    BY <2>1, <2>2
<1>2. TypeOK'
  BY <1>1 DEF IndexInv, TypeOK, data
<1>3. CommentsHang'
  BY DEF IndexInv, CommentsHang, data
<1>4. QED
  BY <1>1, <1>2, <1>3 DEF IndexInv

LEMMA DropTaskKeeps ==
    ASSUME IndexInv, NEW j \in Slots, DropTask(j)
    PROVE  IndexInv'
<1>1. PICK p \in Job : p = job[j] /\ Formed(p)
  BY TypesNow
<1> DEFINE q == [p EXCEPT !.pc = "dropComments"]
           ss == {p.src}
<1>2. p.pc = "dropTask" /\ p.src \in Tasks
  BY <1>1 DEF DropTask, At, Formed
<1>3. /\ q \in Job /\ q.pc = "dropComments" /\ q.src = p.src /\ q.seen = p.seen /\ q.queue = p.queue
      /\ q.todo = p.todo /\ q.batch = p.batch /\ q.wrote = p.wrote /\ q.chunks = p.chunks
  BY DEF Job, Steps
<1> HIDE DEF q
<1>4. Formed(q)
  BY <1>1, <1>2, <1>3 DEF Formed, WorkPC
<1>5. job' = Overtaken([job EXCEPT ![j] = q], ss)
  BY <1>1 DEF DropTask, Go, q
<1>6. After(job, job', j, q, ss)
  BY <1>1, <1>2, <1>3, <1>5, OvertakingStep DEF WorkPC
<1>7. /\ index' \in [Sources -> Rows] /\ doubt' \in [Sources -> SUBSET Doubts]
      /\ \A s \in Sources : /\ index'[s] = IF s \in ss THEN NoRows ELSE index[s]
                            /\ doubt'[s] = IF s \notin ss THEN doubt[s]
                                 ELSE IF Wanted(s) # <<>> \/ \E k \in Slots : Working(k, s)
                                 THEN doubt[s] \cup {"raced"} ELSE {}
  <2>1. index' = Cleared(ss) /\ doubt' = DoubtAfterDrop(ss)
    BY <1>1 DEF DropTask
  <2> HIDE DEF ss
  <2>2. QED
    BY <2>1, DroppedTypes
<1>8. UNCHANGED <<data, edits, faults>>
  BY DEF DropTask
<1>9. ASSUME NEW s \in Sources PROVE SourceOK(s)'
  <2>1. ~On(p, s) /\ ~On(q, s)
    BY <1>2, <1>3 DEF On, WorkPC
  <2>2. CASE s \in ss
    BY <1>1, <1>3, <1>6, <1>7, <1>8, <2>1, <2>2, DroppedKeeps
  <2>3. CASE s \notin ss
    <3>1. \A present : Owes(p, s, present) => Owes(q, s, present)
      BY <1>2, <1>3, <2>3 DEF Owes, WorkPC
    <3> HIDE DEF ss
    <3>2. QED
      BY <1>1, <1>3, <1>6, <1>7, <1>8, <2>1, <2>3, <3>1, SameTexts, AsideKeeps
  <2>4. QED
    BY <2>2, <2>3
<1>10. faults' \in Nat
  BY <1>8 DEF IndexInv, TypeOK
<1> HIDE DEF ss
<1>11. QED
  BY <1>4, <1>6, <1>7, <1>8, <1>9, <1>10, JobStepKeeps

LEMMA DropCommentsKeeps ==
    ASSUME IndexInv, NEW j \in Slots, DropComments(j)
    PROVE  IndexInv'
<1>1. PICK p \in Job : p = job[j] /\ Formed(p)
  BY TypesNow
<1> DEFINE q == Rest(p.queue)
           ss == CommentsOf(p.src)
<1>2. p.pc = "dropComments" /\ p.queue \subseteq Sources
  BY <1>1 DEF DropComments, At, Job
<1>3. /\ q \in Job /\ Formed(q) /\ q.seen = NoRows /\ \A s \in Sources : ~On(q, s)
      /\ \A s \in p.queue : \A present : Owes(q, s, present)
  BY <1>2, RestFacts
<1>5. job' = Overtaken([job EXCEPT ![j] = q], ss)
  BY <1>1 DEF DropComments, Finished, Rest, CommentRows
<1> HIDE DEF q
<1>6. After(job, job', j, q, ss)
  BY <1>1, <1>2, <1>3, <1>5, OvertakingStep DEF WorkPC
<1>7. /\ index' \in [Sources -> Rows] /\ doubt' \in [Sources -> SUBSET Doubts]
      /\ \A s \in Sources : /\ index'[s] = IF s \in ss THEN NoRows ELSE index[s]
                            /\ doubt'[s] = IF s \notin ss THEN doubt[s]
                                 ELSE IF Wanted(s) # <<>> \/ \E k \in Slots : Working(k, s)
                                 THEN doubt[s] \cup {"raced"} ELSE {}
  <2>1. index' = Cleared(ss) /\ doubt' = DoubtAfterDrop(ss)
    BY <1>1 DEF DropComments, CommentRows
  <2> HIDE DEF ss
  <2>2. QED
    BY <2>1, DroppedTypes
<1>8. UNCHANGED <<data, edits, faults>>
  BY DEF DropComments
<1>9. ASSUME NEW s \in Sources PROVE SourceOK(s)'
  <2>1. ~On(p, s)
    BY <1>2 DEF On, WorkPC
  <2> HIDE DEF ss
  <2>2. CASE s \in ss
    BY <1>1, <1>3, <1>6, <1>7, <1>8, <2>1, <2>2, DroppedKeeps
  <2>3. CASE s \notin ss
    <3>1. \A present : Owes(p, s, present) => s \in p.queue
      BY <1>2, <2>3 DEF Owes, WorkPC, ss
    <3>2. QED
      BY <1>1, <1>3, <1>6, <1>7, <1>8, <2>1, <2>3, <3>1, SameTexts, AsideKeeps
  <2>4. QED
    BY <2>2, <2>3
<1>10. faults' \in Nat
  BY <1>8 DEF IndexInv, TypeOK
<1> HIDE DEF ss
<1>11. QED
  BY <1>3, <1>6, <1>7, <1>8, <1>9, <1>10, JobStepKeeps

LEMMA DropSourceKeeps ==
    ASSUME IndexInv, NEW j \in Slots, DropSource(j)
    PROVE  IndexInv'
<1>1. PICK p \in Job : p = job[j] /\ Formed(p)
  BY TypesNow
<1> DEFINE q == Rest(p.queue)
           ss == {p.src}
<1>2. p.pc = "dropSource" /\ p.queue \subseteq Sources
  BY <1>1 DEF DropSource, At, Job
<1>3. /\ q \in Job /\ Formed(q) /\ q.seen = NoRows /\ \A s \in Sources : ~On(q, s)
      /\ \A s \in p.queue : \A present : Owes(q, s, present)
  BY <1>2, RestFacts
<1>5. job' = Overtaken([job EXCEPT ![j] = q], ss)
  BY <1>1 DEF DropSource, Finished, Rest
<1> HIDE DEF q
<1>6. After(job, job', j, q, ss)
  BY <1>1, <1>2, <1>3, <1>5, OvertakingStep DEF WorkPC
<1>7. /\ index' \in [Sources -> Rows] /\ doubt' \in [Sources -> SUBSET Doubts]
      /\ \A s \in Sources : /\ index'[s] = IF s \in ss THEN NoRows ELSE index[s]
                            /\ doubt'[s] = IF s \notin ss THEN doubt[s]
                                 ELSE IF Wanted(s) # <<>> \/ \E k \in Slots : Working(k, s)
                                 THEN doubt[s] \cup {"raced"} ELSE {}
  <2>1. index' = Cleared(ss) /\ doubt' = DoubtAfterDrop(ss)
    BY <1>1 DEF DropSource
  <2> HIDE DEF ss
  <2>2. QED
    BY <2>1, DroppedTypes
<1>8. UNCHANGED <<data, edits, faults>>
  BY DEF DropSource
<1>9. ASSUME NEW s \in Sources PROVE SourceOK(s)'
  <2>1. ~On(p, s)
    BY <1>2 DEF On, WorkPC
  <2> HIDE DEF ss
  <2>2. CASE s \in ss
    BY <1>1, <1>3, <1>6, <1>7, <1>8, <2>1, <2>2, DroppedKeeps
  <2>3. CASE s \notin ss
    <3>1. \A present : Owes(p, s, present) => s \in p.queue
      BY <1>2, <2>3 DEF Owes, WorkPC, ss
    <3>2. QED
      BY <1>1, <1>3, <1>6, <1>7, <1>8, <2>1, <2>3, <3>1, SameTexts, AsideKeeps
  <2>4. QED
    BY <2>2, <2>3
<1>10. faults' \in Nat
  BY <1>8 DEF IndexInv, TypeOK
<1> HIDE DEF ss
<1>11. QED
  BY <1>3, <1>6, <1>7, <1>8, <1>9, <1>10, JobStepKeeps

-----------------------------------------------------------------------------
(* Every step keeps the invariant: new chunks *)

LEMMA TextType ==
    ASSUME IndexInv, NEW s \in Sources
    PROVE  /\ TextOf(s) \in TextsOf(s) /\ TextsOf(s) \subseteq AllTexts
           /\ Wanted(s) # <<>> => Present(s) /\ Wanted(s) = TextOf(s)
<1>1. s \in Tasks \/ s \in Comments
  BY DEF Sources
<1>2. text \in [Tasks -> Texts]
  BY DEF IndexInv, TypeOK
<1>3. QED
  BY <1>1, <1>2 DEF TextOf, TextsOf, AllTexts, Wanted

LEMMA ChunksType ==
    ASSUME NEW p \in Job, Formed(p), p.pc \in WorkPC
    PROVE  /\ p.chunks \in Seq(Chunks) /\ Len(p.chunks) \in Nat /\ p.src \in Sources
           /\ 1 .. Len(p.chunks) \subseteq Places
<1>1. p.chunks \in TextsOf(p.src) /\ p.src \in Sources
  BY DEF Formed
<1>2. p.chunks \in AllTexts /\ p.chunks \in Seq(Chunks)
  BY <1>1, RagConstants DEF TextsOf, AllTexts, Sources
<1>3. QED
  BY <1>1, <1>2, PlacesReach

LEMMA ReadSourceKeeps ==
    ASSUME IndexInv, NEW j \in Slots, ReadSource(j)
    PROVE  IndexInv'
<1>1. PICK p \in Job : p = job[j] /\ Formed(p)
  BY TypesNow
<1>2. PICK s \in NextSources(j) :
        LET others == {k \in Slots : Working(k, s)}
            started == [job[j] EXCEPT !.queue = @ \ {s}, !.src = s, !.chunks = TextOf(s)] IN
        /\ At(j, "read")
        /\ IF Wanted(s) = <<>>
           THEN /\ job' = [job EXCEPT ![j] = [started EXCEPT !.pc =
                              IF s \in Tasks /\ ~Present(s) THEN "dropTask" ELSE "dropSource"]]
                /\ UNCHANGED doubt
           ELSE /\ job' = [Overtaken(job, {s}) EXCEPT ![j] =
                              [started EXCEPT !.pc = "list", !.raced = others # {}]]
                /\ doubt' = IF others = {} THEN doubt ELSE [doubt EXCEPT ![s] = @ \cup {"raced"}]
        /\ UNCHANGED <<data, index, edits, faults>>
  BY DEF ReadSource
<1>3. p.pc = "read" /\ s \in p.queue /\ s \in Sources
  BY <1>1, <1>2 DEF At, NextSources, Job
<1>4. p.seen = NoRows /\ p.wrote = FALSE /\ p.todo = {} /\ p.batch = {} /\ p.queue \subseteq Sources
  BY <1>1, <1>3 DEF Formed, WorkPC, Job
<1>5. PICK x : x = TextOf(s)
  OBVIOUS
<1>6. x \in TextsOf(s) /\ x \in AllTexts
  BY <1>3, <1>5, TextType
<1> DEFINE pc == IF s \in Tasks /\ ~Present(s) THEN "dropTask" ELSE "dropSource"
           b == [p EXCEPT !.queue = @ \ {s}, !.src = s, !.chunks = x]
<1>7. /\ b \in Job /\ b.queue = p.queue \ {s} /\ b.src = s /\ b.chunks = x /\ b.seen = NoRows
      /\ ~b.wrote /\ b.todo = {} /\ b.batch = {}
  BY <1>3, <1>4, <1>6 DEF Job
<1>8. UNCHANGED <<data, index, edits, faults>>
  BY <1>2
<1>9. /\ index' \in [Sources -> Rows] /\ faults' \in Nat /\ job \in [Slots -> Job]
      /\ doubt \in [Sources -> SUBSET Doubts]
  BY <1>8 DEF IndexInv, TypeOK
<1>10. \A u \in Sources : ~On(p, u)
  BY <1>3 DEF On, WorkPC
<1>11. CASE Wanted(s) = <<>>
  <2>1. PICK q : q = [b EXCEPT !.pc = pc]
    OBVIOUS
  <2> HIDE DEF b
  <2>2. pc \in {"dropTask", "dropSource"} /\ (pc = "dropTask" => s \in Tasks)
    OBVIOUS
  <2> HIDE DEF pc
  <2>3. /\ q \in Job /\ q.pc = pc /\ q.queue = p.queue \ {s} /\ q.src = s /\ q.chunks = x
        /\ q.seen = NoRows /\ ~q.wrote /\ q.todo = {} /\ q.batch = {}
    BY <1>7, <2>1, <2>2 DEF Job, Steps
  <2>4. Formed(q)
    BY <1>3, <2>2, <2>3 DEF Formed, WorkPC
  <2>5. job' = [job EXCEPT ![j] = q] /\ doubt' = doubt
    BY <1>1, <1>2, <1>5, <1>11, <2>1 DEF b, pc
  <2>6. After(job, job', j, q, {})
    BY <1>9, <2>3, <2>5, JobStep
  <2>7. ASSUME NEW u \in Sources PROVE SourceOK(u)'
    <3>1. ~On(q, u)
      BY <2>2, <2>3 DEF On, WorkPC
    <3>2. \A present : Owes(p, u, present) => Owes(q, u, present)
      BY <1>3, <2>2, <2>3 DEF Owes, WorkPC
    <3>3. QED
      BY <1>1, <1>8, <1>10, <2>3, <2>5, <2>6, <3>1, <3>2, SameTexts, AsideKeeps
  <2>8. QED
    BY <1>8, <1>9, <2>4, <2>5, <2>6, <2>7, JobStepKeeps
<1>12. CASE Wanted(s) # <<>>
  <2> DEFINE others == \E k \in Slots : On(job[k], s)
  <2>1. PICK q : q = [b EXCEPT !.pc = "list", !.raced = others]
    OBVIOUS
  <2> HIDE DEF b
  <2>2. others \in BOOLEAN /\ (others <=> {k \in Slots : Working(k, s)} # {})
    BY WorkingIsOn
  <2>3. {k \in Slots : Working(k, s)} # {} <=> others
    BY <2>2
  <2> HIDE DEF others
  <2>4. /\ q \in Job /\ q.pc = "list" /\ q.queue = p.queue \ {s} /\ q.src = s /\ q.chunks = x
        /\ q.seen = NoRows /\ ~q.wrote /\ q.todo = {} /\ q.batch = {} /\ q.raced = others
    BY <1>7, <2>1, <2>2 DEF Job, Steps
  <2>5. x = Wanted(s)
    BY <1>3, <1>5, <1>12, TextType
  <2>6. Formed(q)
    BY <1>3, <1>6, <1>12, <2>4, <2>5 DEF Formed, WorkPC
  <2>7. job' = [Overtaken(job, {s}) EXCEPT ![j] = q]
    <3>1. ({k \in Slots : Working(k, s)} # {}) = others
      BY <2>2
    <3>2. QED
      BY <1>1, <1>2, <1>5, <1>12, <2>1, <3>1 DEF b
  <2>8. doubt' = IF others THEN [doubt EXCEPT ![s] = @ \cup {"raced"}] ELSE doubt
    BY <1>2, <1>12, <2>2
  <2>9. After(job, job', j, q, {s})
    BY <2>4, <2>7, OvertakenStep
  <2>10. doubt' \in [Sources -> SUBSET Doubts]
    BY <1>9, <2>8 DEF Doubts
  <2>11. \A u \in Sources : doubt'[u] = IF u = s /\ others THEN doubt[u] \cup {"raced"} ELSE doubt[u]
    BY <1>9, <2>8
  <2>12. ASSUME NEW u \in Sources, u # s PROVE SourceOK(u)'
    <3>1. ~On(q, u)
      BY <2>4, <2>12 DEF On, WorkPC
    <3>2. \A present : Owes(p, u, present) => Owes(q, u, present)
      BY <1>3, <2>4, <2>12 DEF Owes, WorkPC
    <3>3. doubt[u] \subseteq doubt'[u] /\ u \notin {s}
      BY <2>11, <2>12
    <3>4. QED
      BY <1>1, <1>8, <1>10, <2>4, <2>9, <3>1, <3>2, <3>3, SameTexts, AsideKeeps
  <2>13. SourceOK(s)'
    <3>1. PICK K : K = job'
      OBVIOUS
    <3>2. \A m \in Slots \ {j} : /\ On(K[m], s) <=> On(job[m], s)
                                 /\ On(job[m], s) => SameWork(job[m], K[m]) /\ K[m].raced
                                 /\ K[m].src = job[m].src /\ K[m].seen = job[m].seen
      <4> TAKE m \in Slots \ {j}
      <4>1. PICK w \in Job : w = job[m] /\ Formed(w)
        BY TypesNow
      <4>2. /\ SameWork(w, [w EXCEPT !.raced = TRUE]) /\ [w EXCEPT !.raced = TRUE].raced
            /\ [w EXCEPT !.raced = TRUE].src = w.src
        BY <4>1, MarkedJob
      <4>3. K[m] = IF On(w, s) THEN [w EXCEPT !.raced = TRUE] ELSE w
        BY <2>9, <3>1, <4>1 DEF After, On
      <4>4. QED
        BY <4>1, <4>2, <4>3 DEF On, SameWork
    <3>3. K[j] = q
      BY <2>9, <3>1 DEF After
    <3>4. SeenFrom(s, job, K)
      BY <2>4, <3>2, <3>3 DEF SeenFrom
    <3>5. j \in Owing(s)'
      BY <2>4, <3>1, <3>3 DEF Owing, Owes, WorkPC
    <3>6. SourceInv(s, job, Owing(s), index[s], doubt[s], Present(s), Wanted(s))
      BY <1>3 DEF IndexInv, SourceOK
    <3>7. ~On(job[j], s)
      BY <1>1, <1>3, <1>10
    <3>8. doubt'[s] = IF \E m \in Slots : On(job[m], s) THEN doubt[s] \cup {"raced"} ELSE doubt[s]
      BY <1>3, <2>11 DEF others
    <3>9. K[j].raced <=> \E m \in Slots : On(job[m], s)
      BY <2>4, <3>3 DEF others
    <3>10. K[j].pc = "list" /\ K[j].src = s /\ K[j].chunks = Wanted(s) /\ ~K[j].wrote
      BY <2>4, <2>5, <3>3
    <3>11. \A m \in Slots \ {j} : /\ On(K[m], s) <=> On(job[m], s)
                                  /\ On(job[m], s) => SameWork(job[m], K[m]) /\ K[m].raced
      BY <3>2
    <3>12. SourceInv(s, K, Owing(s)', index[s], doubt'[s], Present(s), Wanted(s))
      BY <3>4, <3>5, <3>6, <3>7, <3>8, <3>9, <3>10, <3>11, StartKeeps
    <3>13. QED
      BY <1>8, <3>1, <3>12, SameTexts DEF SourceOK
  <2>14. QED
    BY <1>8, <1>9, <2>6, <2>9, <2>10, <2>12, <2>13, JobStepKeeps
<1>13. QED
  BY <1>11, <1>12

\* A step of a job at work on s leaves the other sources alone.
LEMMA OthersKeep ==
    ASSUME IndexInv, NEW j \in Slots, NEW p, p = job[j], NEW q, After(job, job', j, q, {}),
           p.src \in Sources, q.src \in {p.src, None}, q.queue = p.queue,
           q.pc \in WorkPC \/ q = Rest(p.queue), p.pc \in WorkPC,
           UNCHANGED data, NEW s \in Sources, s # p.src,
           index'[s] = index[s], doubt[s] \subseteq doubt'[s]
    PROVE  SourceOK(s)'
<1>1. ~On(p, s) /\ q.src # s
  BY RagConstants DEF On
<1>2. ~On(q, s)
  BY <1>1 DEF On
<1>3. p \in Job
  BY TypesNow
<1>4. \A present : Owes(p, s, present) => s \in p.queue
  BY DEF Owes, WorkPC
<1>5. \A present : s \in p.queue => Owes(q, s, present)
  BY <1>3, RestFacts DEF Owes, WorkPC, Job
<1>6. QED
  BY <1>1, <1>2, <1>4, <1>5, SameTexts, AsideKeeps

\* A step with which a job goes on with the text of s.
LEMMA OwnStep ==
    ASSUME IndexInv, NEW j \in Slots, NEW p, p = job[j], NEW q, After(job, job', j, q, {}),
           NEW s \in Sources, On(p, s), On(q, s), UNCHANGED data, doubt'[s] = doubt[s],
           q.chunks = p.chunks, q.raced = p.raced, p.wrote => q.wrote,
           index'[s] = index[s] \/ q.wrote,
           IdsTell(s, job', index'[s]), Intact(p, index[s]) => Intact(q, index'[s])
    PROVE  SourceOK(s)'
<1>1. PICK K : K = job'
  OBVIOUS
<1>2. PICK Y : Y = index'[s]
  OBVIOUS
<1>3. K[j] = q /\ \A m \in Slots \ {j} : K[m] = job[m]
  BY <1>1 DEF After
<1>4. SourceInv(s, job, Owing(s), index[s], doubt[s], Present(s), Wanted(s))
  BY DEF IndexInv, SourceOK
<1>5. j \in Owing(s) /\ Owing(s)' = Owing(s)
  <2>1. Owes(p, s, Present(s)) /\ Owes(q, s, Present(s))
    BY DEF On, Owes
  <2>2. \A m \in Slots : Owes(job[m], s, Present(s)) <=> Owes(job'[m], s, Present(s))
    BY <1>1, <1>3, <2>1
  <2>3. QED
    BY <2>1, <2>2, SameTexts DEF Owing
<1>6. SourceInv(s, K, Owing(s), Y, doubt[s], Present(s), Wanted(s))
  BY <1>1, <1>2, <1>3, <1>4, <1>5, OwnKeeps
<1>7. QED
  BY <1>1, <1>2, <1>5, <1>6, SameTexts DEF SourceOK

\* While the job lists or embeds, the ids of a source do not change.
LEMMA IdsStay ==
    ASSUME IndexInv, NEW j \in Slots, NEW q, After(job, job', j, q, {}),
           NEW s \in Sources, job[j].src = s, index' = index,
           \A i \in Places : q.seen[i] \in {job[j].seen[i], index[s][i]}
    PROVE  IdsTell(s, job', index'[s])
<1>1. PICK K : K = job'
  OBVIOUS
<1>2. K[j] = q /\ \A m \in Slots \ {j} : K[m] = job[m]
  BY <1>1 DEF After
<1>3. \A i \in Places : HeldAt(s, K, index[s], i) \subseteq HeldAt(s, job, index[s], i)
  BY <1>2 DEF HeldAt
<1>4. IdsTell(s, job, index[s])
  BY DEF IndexInv, SourceOK, SourceInv
<1>5. IdsTell(s, K, index[s])
  <2> SUFFICES ASSUME NEW i \in Places, NEW m \in Places,
                      NEW r \in HeldAt(s, K, index[s], i) \ {None},
                      NEW t \in HeldAt(s, K, index[s], m) \ {None}, r.id = t.id
               PROVE  i = m
    BY DEF IdsTell
  <2>1. /\ r \in HeldAt(s, job, index[s], i) \ {None}
        /\ t \in HeldAt(s, job, index[s], m) \ {None}
    BY <1>3
  <2> HIDE DEF HeldAt
  <2>2. QED
    BY <1>4, <2>1 DEF IdsTell
<1>6. QED
  BY <1>1, <1>5

LEMMA ListExistingKeeps ==
    ASSUME IndexInv, NEW j \in Slots, ListExisting(j)
    PROVE  IndexInv'
<1>1. PICK p \in Job : p = job[j] /\ Formed(p)
  BY TypesNow
<1>2. PICK s : s = p.src
  OBVIOUS
<1>3. p.pc = "list" /\ s \in Sources /\ p.chunks \in TextsOf(s) /\ p.chunks # <<>>
      /\ p.batch = {} /\ 1 .. Len(p.chunks) \subseteq Places
  BY <1>1, <1>2, ChunksType DEF ListExisting, At, Formed, WorkPC
<1>4. PICK X \in Rows : X = index[s]
  BY <1>3, TypesNow
<1>5. PICK T : T = ToEmbed(p.chunks, X)
  OBVIOUS
<1>6. T \subseteq 1 .. Len(p.chunks)
      /\ \A i \in 1 .. Len(p.chunks) : i \notin T => X[i] # None /\ X[i].chunk = p.chunks[i]
  BY <1>5 DEF ToEmbed
<1> DEFINE q == [p EXCEPT !.pc = "embed", !.seen = X, !.todo = T]
<1>7. /\ q \in Job /\ q.pc = "embed" /\ q.seen = X /\ q.todo = T /\ q.batch = {} /\ q.src = s
      /\ q.chunks = p.chunks /\ q.raced = p.raced /\ q.wrote = p.wrote /\ q.queue = p.queue
  BY <1>2, <1>3, <1>4, <1>6 DEF Job, Steps
<1>8. job' = [job EXCEPT ![j] = q]
  BY <1>1, <1>2, <1>4, <1>5 DEF ListExisting
<1> HIDE DEF q
<1>9. job \in [Slots -> Job] /\ index \in [Sources -> Rows] /\ doubt \in [Sources -> SUBSET Doubts]
      /\ faults \in Nat
  BY DEF IndexInv, TypeOK
<1>10. After(job, job', j, q, {})
  BY <1>7, <1>8, <1>9, JobStep
<1>11. Formed(q)
  BY <1>3, <1>6, <1>7 DEF Formed, WorkPC
<1>12. UNCHANGED <<data, index, edits, faults, doubt>>
  BY DEF ListExisting
<1>13. SourceOK(s)'
  <2>1. On(p, s) /\ On(q, s)
    BY <1>2, <1>3, <1>7 DEF On, WorkPC
  <2>2. Intact(q, X)
    <3> SUFFICES ASSUME NEW i \in Places
                 PROVE  IF i <= Len(p.chunks)
                        THEN i \notin T => X[i] # None /\ X[i].chunk = p.chunks[i]
                        ELSE X[i] = X[i]
      BY <1>7 DEF Intact
    <3>1. Len(p.chunks) \in Nat /\ i \in Nat \ {0}
      BY <1>1, <1>3, ChunksType, PlacesReach DEF WorkPC
    <3>2. QED
      BY <1>6, <3>1
  <2>3. IdsTell(s, job', index'[s])
    BY <1>1, <1>2, <1>3, <1>4, <1>7, <1>10, <1>12, IdsStay
  <2>4. QED
    BY <1>1, <1>3, <1>4, <1>7, <1>10, <1>12, <2>1, <2>2, <2>3, OwnStep
<1>14. \A u \in Sources : u # s => SourceOK(u)'
  BY <1>1, <1>2, <1>3, <1>7, <1>10, <1>12, OthersKeep DEF WorkPC
<1>15. QED
  BY <1>9, <1>10, <1>11, <1>12, <1>13, <1>14, JobStepKeeps

LEMMA EmbedBatchKeeps ==
    ASSUME IndexInv, NEW j \in Slots, EmbedBatch(j)
    PROVE  IndexInv'
<1>1. PICK p \in Job : p = job[j] /\ Formed(p)
  BY TypesNow
<1>2. PICK s : s = p.src
  OBVIOUS
<1>3. p.pc = "embed" /\ s \in Sources /\ p.chunks \in TextsOf(s) /\ p.chunks # <<>>
      /\ p.batch = {} /\ p.todo \subseteq 1 .. Len(p.chunks) /\ p.todo \subseteq Places
  BY <1>1, <1>2 DEF EmbedBatch, At, Formed, WorkPC, Job
<1>4. PICK B : B = {i \in p.todo : Cardinality({k \in p.todo : k < i}) < BatchSize}
  OBVIOUS
<1>5. B \subseteq p.todo /\ (p.todo # {} => B # {})
  <2>1. CASE p.todo # {}
    <3>1. PICK i \in p.todo : \A m \in p.todo : i <= m
      BY <1>3, <2>1, FirstPlace
    <3>2. p.todo \subseteq Nat
      BY <1>3, PlacesReach
    <3>3. {k \in p.todo : k < i} = {}
      BY <3>1, <3>2
    <3>4. Cardinality({k \in p.todo : k < i}) < BatchSize
      <4>1. PICK Z : Z = {k \in p.todo : k < i}
        OBVIOUS
      <4>2. Z = {}
        BY <3>3, <4>1
      <4>3. Cardinality(Z) = 0
        BY <4>2, FS_EmptySet
      <4>4. BatchSize \in Nat \ {0}
        BY RagConstants
      <4>5. QED
        BY <4>1, <4>3, <4>4
    <3>5. QED
      BY <1>4, <3>1, <3>4
  <2>2. QED
    BY <1>4, <2>1
<1> DEFINE q == IF p.todo = {} THEN [p EXCEPT !.pc = "stale"]
                ELSE [p EXCEPT !.pc = "store", !.todo = p.todo \ B, !.batch = B]
<1>6. /\ q \in Job /\ q.pc = (IF p.todo = {} THEN "stale" ELSE "store") /\ q.seen = p.seen
      /\ q.todo = p.todo \ B /\ q.batch = B /\ q.src = s
      /\ q.chunks = p.chunks /\ q.raced = p.raced /\ q.wrote = p.wrote /\ q.queue = p.queue
  <2>1. p.todo = {} => B = {} /\ p.todo \ B = p.todo
    BY <1>5
  <2>2. p.todo \ B \subseteq Places /\ B \subseteq Places
    BY <1>3, <1>5
  <2>3. QED
    BY <1>2, <1>3, <2>1, <2>2 DEF Job, Steps
<1>7. job' = [job EXCEPT ![j] = q]
  BY <1>1, <1>4 DEF EmbedBatch, Go
<1> HIDE DEF q
<1>8. job \in [Slots -> Job] /\ index \in [Sources -> Rows] /\ doubt \in [Sources -> SUBSET Doubts]
      /\ faults \in Nat
  BY DEF IndexInv, TypeOK
<1>9. After(job, job', j, q, {})
  BY <1>6, <1>7, <1>8, JobStep
<1>10. q.todo \cup q.batch = p.todo
  BY <1>5, <1>6
<1>11. Formed(q)
  BY <1>3, <1>5, <1>6, <1>10 DEF Formed, WorkPC
<1>12. UNCHANGED <<data, index, edits, faults, doubt>>
  BY DEF EmbedBatch
<1>13. SourceOK(s)'
  <2>1. On(p, s) /\ On(q, s)
    BY <1>2, <1>3, <1>6 DEF On, WorkPC
  <2>2. Intact(p, index[s]) => Intact(q, index[s])
    <3>1. p.todo \cup p.batch = q.todo \cup q.batch /\ p.pc # "list"
      BY <1>3, <1>10
    <3>2. QED
      BY <1>6, <3>1 DEF Intact
  <2>3. IdsTell(s, job', index'[s])
    BY <1>1, <1>2, <1>3, <1>6, <1>9, <1>12, IdsStay
  <2>4. QED
    BY <1>1, <1>3, <1>6, <1>9, <1>12, <2>1, <2>2, <2>3, OwnStep
<1>14. \A u \in Sources : u # s => SourceOK(u)'
  BY <1>1, <1>2, <1>3, <1>6, <1>9, <1>12, OthersKeep DEF WorkPC
<1>15. QED
  BY <1>8, <1>9, <1>11, <1>12, <1>13, <1>14, JobStepKeeps

\* The id of a new row is not in use at another place.
LEMMA NewIdFacts ==
    ASSUME IndexInv, NEW s \in Sources
    PROVE  /\ NewId(s) \in Nat
           /\ \A i \in Places : \A r \in HeldAt(s, job, index[s], i) \ {None} : r.id # NewId(s)
<1> DEFINE M == {m \in Slots : job[m].src = s}
           A == {index[s][i] : i \in Places}
           f == [c \in Slots \X Places |-> job[c[1]].seen[c[2]]]
           F == {f[c] : c \in Slots \X Places}
           B == {job[k].seen[i] : k \in M, i \in Places}
           R == (A \cup B) \ {None}
           g == [r \in R |-> r.id]
           U == {g[r] : r \in R}
           used == {r.id : r \in R}
<1>1. IsFiniteSet(A)
  <2>1. index[s] \in Rows
    BY TypesNow
  <2>2. DOMAIN index[s] = Places
    BY <2>1 DEF Rows
  <2>3. QED
    BY <2>2, PlacesReach, FiniteImage
<1>2. IsFiniteSet(B)
  <2>1. IsFiniteSet(Slots \X Places)
    BY PlacesReach, RagConstants, FS_Product
  <2>2. IsFiniteSet(F)
    <3>1. DOMAIN f = Slots \X Places
      OBVIOUS
    <3> HIDE DEF f
    <3>2. QED
      BY <2>1, <3>1, FiniteImage
  <2>3. B \subseteq F
    <3> SUFFICES ASSUME NEW k \in M, NEW i \in Places PROVE job[k].seen[i] \in F
      OBVIOUS
    <3>1. <<k, i>> \in Slots \X Places /\ f[<<k, i>>] = job[k].seen[i]
      OBVIOUS
    <3> HIDE DEF f
    <3>2. QED
      BY <3>1
  <2> HIDE DEF F, B
  <2>4. QED
    BY <2>2, <2>3, FS_Subset
<1>3. IsFiniteSet(R)
  <2> HIDE DEF A, B
  <2>1. IsFiniteSet(A \cup B)
    BY <1>1, <1>2, FS_Union
  <2>2. QED
    BY <2>1, FS_Difference
<1>4. IsFiniteSet(used)
  <2> HIDE DEF R
  <2>1. DOMAIN g = R
    OBVIOUS
  <2>2. IsFiniteSet(U)
    <3> HIDE DEF g
    <3>1. QED
      BY <1>3, <2>1, FiniteImage
  <2>3. U = used
    OBVIOUS
  <2>4. QED
    BY <2>2, <2>3
<1>5. NewId(s) = CHOOSE n \in 0 .. Cardinality(used) : n \notin used
  BY DEF NewId
<1>6. NewId(s) \in Nat /\ NewId(s) \notin used
  <2> HIDE DEF used
  <2>1. QED
    BY <1>4, <1>5, UnusedNumber
<1>7. \A i \in Places : HeldAt(s, job, index[s], i) \ {None} \subseteq R
  BY DEF HeldAt
<1> HIDE DEF R, HeldAt
<1>8. QED
  BY <1>6, <1>7

LEMMA StoreChunkKeeps ==
    ASSUME IndexInv, NEW j \in Slots, StoreChunk(j)
    PROVE  IndexInv'
<1>1. PICK p \in Job : p = job[j] /\ Formed(p)
  BY TypesNow
<1>2. PICK s : s = p.src
  OBVIOUS
<1>3. p.pc = "store" /\ s \in Sources /\ p.chunks \in Seq(Chunks) /\ p.chunks # <<>>
      /\ p.chunks \in TextsOf(s) /\ p.batch # {} /\ p.batch \subseteq Places
      /\ p.todo \cup p.batch \subseteq 1 .. Len(p.chunks)
  BY <1>1, <1>2, ChunksType DEF StoreChunk, At, Formed, WorkPC, Job
<1>4. PICK X \in Rows : X = index[s]
  BY <1>3, TypesNow
<1>5. PICK i : i = CHOOSE m \in job[j].batch : \A n \in job[j].batch : m <= n
  OBVIOUS
<1>6. i \in p.batch
  <2>1. \E m \in p.batch : \A n \in p.batch : m <= n
    BY <1>3, FirstPlace
  <2>2. \E m \in job[j].batch : \A n \in job[j].batch : m <= n
    BY <1>1, <2>1
  <2>3. QED
    BY <1>1, <1>5, <2>2
<1>7. i \in Places /\ i \in 1 .. Len(p.chunks) /\ p.seen \in Rows
  BY <1>3, <1>6 DEF Job
<1>8. PICK id : id = IF X[i] # None THEN X[i].id ELSE IdFor(s, p.seen[i])
  OBVIOUS
<1>9. PICK r : r = [id |-> id, chunk |-> p.chunks[i]]
  OBVIOUS
<1>10. X[i] \in Row \cup {None} /\ p.seen[i] \in Row \cup {None}
  BY <1>7 DEF Rows
<1>11. r \in Row /\ r # None /\ r.id = id /\ r.chunk = p.chunks[i]
  <2>1. id \in Nat
    BY <1>3, <1>8, <1>10, NewIdFacts DEF IdFor, Row
  <2>2. p.chunks[i] \in Chunks
    BY <1>3, <1>7
  <2>3. r \in Row
    BY <1>9, <2>1, <2>2 DEF Row
  <2>4. QED
    BY <1>9, <2>3, RagConstants DEF Row
<1>12. PICK Y : Y = [X EXCEPT ![i] = r]
  OBVIOUS
<1>13. Y \in Rows /\ Y[i] = r /\ \A m \in Places : m # i => Y[m] = X[m]
  BY <1>7, <1>11, <1>12 DEF Rows
<1> DEFINE rest == p.batch \ {i}
           q == [p EXCEPT !.batch = rest, !.wrote = TRUE,
                          !.pc = IF rest = {} THEN "embed" ELSE "store"]
<1>14. /\ q \in Job /\ q.pc = (IF rest = {} THEN "embed" ELSE "store") /\ q.seen = p.seen
       /\ q.todo = p.todo /\ q.batch = rest /\ q.src = s
       /\ q.chunks = p.chunks /\ q.raced = p.raced /\ q.wrote = TRUE /\ q.queue = p.queue
  BY <1>2, <1>3 DEF Job, Steps
<1>15. job' = [job EXCEPT ![j] = q] /\ index' = [index EXCEPT ![s] = Y]
  <2>1. At(j, "store") /\ UNCHANGED <<data, edits, faults, doubt>>
    BY DEF StoreChunk
  <2>2. job' = [job EXCEPT ![j] = q]
    BY <1>1, <1>5 DEF StoreChunk
  <2>3. index' = [index EXCEPT ![s][i] = r]
    BY <1>1, <1>2, <1>4, <1>5, <1>8, <1>9 DEF StoreChunk
  <2>4. QED
    BY <1>4, <1>12, <2>2, <2>3
<1> HIDE DEF q
<1>16. job \in [Slots -> Job] /\ index \in [Sources -> Rows] /\ doubt \in [Sources -> SUBSET Doubts]
       /\ faults \in Nat
  BY DEF IndexInv, TypeOK
<1>17. After(job, job', j, q, {})
  BY <1>14, <1>15, <1>16, JobStep
<1>18. Formed(q)
  BY <1>3, <1>14 DEF Formed, WorkPC
<1>19. UNCHANGED <<data, edits, faults, doubt>>
  BY DEF StoreChunk
<1>20. index'[s] = Y /\ index' \in [Sources -> Rows] /\ \A u \in Sources : u # s => index'[u] = index[u]
  BY <1>3, <1>13, <1>15, <1>16
<1>21. \/ \E t \in HeldAt(s, job, X, i) \ {None} : t.id = id
       \/ \A m \in Places : \A t \in HeldAt(s, job, X, m) \ {None} : t.id # id
  <2>1. CASE X[i] # None
    BY <1>8, <2>1 DEF HeldAt
  <2>2. CASE X[i] = None /\ p.seen[i] # None
    BY <1>1, <1>2, <1>8, <2>2 DEF HeldAt, IdFor
  <2>3. CASE X[i] = None /\ p.seen[i] = None
    <3>1. id = NewId(s)
      BY <1>8, <2>3 DEF IdFor
    <3>2. QED
      BY <1>3, <1>4, <3>1, NewIdFacts
  <2>4. QED
    BY <2>1, <2>2, <2>3
<1>22. IdsTell(s, job', Y)
  <2>1. PICK K : K = job'
    OBVIOUS
  <2>2. K[j] = q /\ \A m \in Slots \ {j} : K[m] = job[m]
    BY <1>17, <2>1 DEF After
  <2>3. \A m \in Places : \A t \in HeldAt(s, K, Y, m) \ {None} :
          t \in HeldAt(s, job, X, m) \ {None} \/ (m = i /\ t = r)
    BY <1>1, <1>2, <1>13, <1>14, <2>2 DEF HeldAt
  <2>4. IdsTell(s, job, X)
    BY <1>3, <1>4 DEF IndexInv, SourceOK, SourceInv
  <2>5. \A m \in Places : \A t \in HeldAt(s, job, X, m) \ {None} : t.id = id => m = i
    <3> HIDE DEF HeldAt
    <3>1. QED
      BY <1>7, <1>21, <2>4 DEF IdsTell
  <2>6. IdsTell(s, K, Y)
    <3> HIDE DEF HeldAt
    <3> SUFFICES ASSUME NEW m \in Places, NEW n \in Places,
                        NEW t \in HeldAt(s, K, Y, m) \ {None},
                        NEW w \in HeldAt(s, K, Y, n) \ {None}, t.id = w.id
                 PROVE  m = n
      BY DEF IdsTell
    <3>1. CASE t \in HeldAt(s, job, X, m) \ {None} /\ w \in HeldAt(s, job, X, n) \ {None}
      BY <2>4, <3>1 DEF IdsTell
    <3>2. CASE t \in HeldAt(s, job, X, m) \ {None} /\ n = i /\ w = r
      BY <1>11, <2>5, <3>2
    <3>3. CASE m = i /\ t = r /\ w \in HeldAt(s, job, X, n) \ {None}
      BY <1>11, <2>5, <3>3
    <3>4. CASE m = i /\ n = i
      BY <3>4
    <3>5. QED
      BY <2>3, <3>1, <3>2, <3>3, <3>4
  <2>7. QED
    BY <2>1, <2>6
<1>23. SourceOK(s)'
  <2>1. On(p, s) /\ On(q, s)
    BY <1>2, <1>3, <1>14 DEF On, WorkPC
  <2>2. Intact(p, X) => Intact(q, Y)
    <3> SUFFICES ASSUME Intact(p, X), NEW m \in Places
                 PROVE  IF m <= Len(p.chunks)
                        THEN m \notin p.todo \cup rest => Y[m] # None /\ Y[m].chunk = p.chunks[m]
                        ELSE Y[m] = p.seen[m]
      BY <1>14 DEF Intact
    <3>1. CASE m = i
      BY <1>7, <1>11, <1>13, <3>1
    <3>2. CASE m # i
      <4>1. Y[m] = X[m] /\ (m \in p.todo \cup rest <=> m \in p.todo \cup p.batch)
        BY <1>13, <3>2
      <4>2. QED
        BY <1>3, <4>1 DEF Intact
    <3>3. QED
      BY <3>1, <3>2
  <2>3. QED
    BY <1>1, <1>3, <1>4, <1>14, <1>17, <1>19, <1>20, <1>22, <2>1, <2>2, OwnStep
<1>24. \A u \in Sources : u # s => SourceOK(u)'
  BY <1>1, <1>2, <1>3, <1>14, <1>17, <1>19, <1>20, OthersKeep DEF WorkPC
<1>25. QED
  BY <1>16, <1>17, <1>18, <1>19, <1>20, <1>23, <1>24, JobStepKeeps

\* The job deletes by ids: no row of the text it stored has one of them.
LEMMA StaleRows ==
    ASSUME NEW s, NEW J, NEW X, NEW Y, NEW p, NEW j \in Slots, p = J[j], p.src = s,
           p.pc = "stale", p.todo = {}, p.batch = {},
           IdsTell(s, J, X), Intact(p, X),
           Y = [i \in Places |-> IF X[i] # None /\ X[i].id \in Stale(p.chunks, p.seen)
                                 THEN None ELSE X[i]],
           Len(p.chunks) \in Nat
    PROVE  Are(Y, p.chunks)
<1> SUFFICES ASSUME NEW i \in Places
             PROVE  IF i <= Len(p.chunks) THEN Y[i] # None /\ Y[i].chunk = p.chunks[i]
                                          ELSE Y[i] = None
  BY DEF Are
<1>1. i \in Nat /\ \A m \in Places : m \in Nat
  BY PlacesReach
<1>2. Y[i] = IF X[i] # None /\ X[i].id \in Stale(p.chunks, p.seen) THEN None ELSE X[i]
  OBVIOUS
<1>3. CASE i <= Len(p.chunks)
  <2>1. X[i] # None /\ X[i].chunk = p.chunks[i]
    BY <1>3 DEF Intact
  <2>2. X[i].id \notin Stale(p.chunks, p.seen)
    <3> SUFFICES ASSUME NEW m \in Places, m > Len(p.chunks), p.seen[m] # None,
                        X[i].id = p.seen[m].id
                 PROVE  FALSE
      BY DEF Stale
    <3>1. X[i] \in HeldAt(s, J, X, i) \ {None} /\ p.seen[m] \in HeldAt(s, J, X, m) \ {None}
      BY <2>1 DEF HeldAt
    <3>2. i = m
      BY <3>1 DEF IdsTell
    <3>3. QED
      BY <1>1, <1>3, <3>2
  <2>3. QED
    BY <1>2, <1>3, <2>1, <2>2
<1>4. CASE ~(i <= Len(p.chunks))
  <2>1. X[i] = p.seen[i]
    BY <1>4 DEF Intact
  <2>2. i > Len(p.chunks)
    BY <1>1, <1>4
  <2>3. X[i] # None => X[i].id \in Stale(p.chunks, p.seen)
    BY <2>1, <2>2 DEF Stale
  <2>4. QED
    BY <1>2, <1>4, <2>3
<1>5. QED
  BY <1>3, <1>4

LEMMA DeleteStaleKeeps ==
    ASSUME IndexInv, NEW j \in Slots, DeleteStale(j)
    PROVE  IndexInv'
<1>1. PICK p \in Job : p = job[j] /\ Formed(p)
  BY TypesNow
<1>2. PICK s : s = p.src
  OBVIOUS
<1>3. p.pc = "stale" /\ s \in Sources /\ p.queue \subseteq Sources /\ Len(p.chunks) \in Nat
      /\ p.todo = {} /\ p.batch = {}
  BY <1>1, <1>2, ChunksType DEF DeleteStale, At, Formed, WorkPC, Job
<1>4. PICK X \in Rows : X = index[s]
  BY <1>3, TypesNow
<1>5. PICK Y : Y = [i \in Places |-> IF X[i] # None /\ X[i].id \in Stale(p.chunks, p.seen)
                                     THEN None ELSE X[i]]
  OBVIOUS
<1>6. Y \in Rows /\ \A i \in Places : Y[i] \in {X[i], None}
  BY <1>5 DEF Rows
<1>7. PICK q : q = Rest(p.queue)
  OBVIOUS
<1>8. /\ q \in Job /\ Formed(q) /\ q.seen = NoRows /\ ~On(q, s) /\ q.src = None /\ q.queue = p.queue
      /\ \A u \in p.queue : \A present : Owes(q, u, present)
  BY <1>3, <1>7, RestFacts
<1>9. job \in [Slots -> Job] /\ index \in [Sources -> Rows] /\ doubt \in [Sources -> SUBSET Doubts]
      /\ faults \in Nat
  BY DEF IndexInv, TypeOK
<1>10. job' = [job EXCEPT ![j] = q]
  BY <1>1, <1>7 DEF DeleteStale, Finished, Rest
<1>11. UNCHANGED <<data, edits, faults>>
  BY DEF DeleteStale
<1>12. index' = [index EXCEPT ![s] = Y]
  BY <1>1, <1>2, <1>3, <1>4, <1>5, <1>9 DEF DeleteStale
<1>13. doubt' = IF p.raced THEN doubt ELSE [doubt EXCEPT ![s] = {}]
  BY <1>1, <1>2 DEF DeleteStale
<1>14. After(job, job', j, q, {})
  BY <1>8, <1>9, <1>10, JobStep
<1>15. /\ index'[s] = Y /\ index' \in [Sources -> Rows]
       /\ doubt'[s] = (IF p.raced THEN doubt[s] ELSE {}) /\ doubt' \in [Sources -> SUBSET Doubts]
       /\ \A u \in Sources : u # s => index'[u] = index[u] /\ doubt'[u] = doubt[u]
  BY <1>3, <1>6, <1>9, <1>12, <1>13
<1>16. SourceOK(s)'
  <2>1. PICK K : K = job'
    OBVIOUS
  <2>2. K[j] = q /\ \A m \in Slots \ {j} : K[m] = job[m]
    BY <1>14, <2>1 DEF After
  <2>3. SourceInv(s, job, Owing(s), X, doubt[s], Present(s), Wanted(s))
    BY <1>3, <1>4 DEF IndexInv, SourceOK
  <2>4. Sound(s, job, Owing(s), Present(s), Wanted(s))
    BY <1>3, SoundNow
  <2>5. SeenFrom(s, job, K)
    BY <1>8, <2>2 DEF SeenFrom
  <2>6. On(job[j], s) /\ ~On(K[j], s)
    BY <1>1, <1>2, <1>3, <1>8, <2>2 DEF On, WorkPC
  <2>7. Owing(s) \ {j} \subseteq Owing(s)'
    BY <1>11, <2>1, <2>2, SameTexts DEF Owing
  <2>8. IdsTell(s, job, X)
    BY <2>3 DEF SourceInv
  <2>9. Intact(job[j], X) => Are(Y, job[j].chunks)
    BY <1>1, <1>2, <1>3, <1>5, <2>8, StaleRows
  <2>10. doubt'[s] = IF job[j].raced THEN doubt[s] ELSE {}
    BY <1>1, <1>15
  <2>11. SourceInv(s, K, Owing(s)', Y, doubt'[s], Present(s), Wanted(s))
    <3>1. \A i \in Places : Y[i] \in {X[i], None}
      BY <1>6
    <3>2. PICK E : E = doubt'[s]
      OBVIOUS
    <3>3. PICK P : P = Owing(s)'
      OBVIOUS
    <3>4. PICK J, O, D : J = job /\ O = Owing(s) /\ D = doubt[s]
      OBVIOUS
    <3>5. PICK present, x : present = Present(s) /\ x = Wanted(s)
      OBVIOUS
    <3>6. SourceInv(s, J, O, X, D, present, x) /\ Sound(s, J, O, present, x) /\ SeenFrom(s, J, K)
      BY <2>3, <2>4, <2>5, <3>4, <3>5
    <3>7. /\ \A m \in Slots \ {j} : K[m] = J[m]
          /\ On(J[j], s) /\ ~On(K[j], s) /\ O \ {j} \subseteq P
          /\ Intact(J[j], X) => Are(Y, J[j].chunks)
          /\ E = IF J[j].raced THEN D ELSE {}
      BY <2>2, <2>6, <2>7, <2>9, <2>10, <3>2, <3>3, <3>4
    <3>8. SourceInv(s, K, P, Y, E, present, x)
      BY <3>1, <3>6, <3>7, DeleteKeeps
    <3>9. QED
      BY <3>2, <3>3, <3>5, <3>8
  <2>12. QED
    BY <1>11, <1>15, <2>1, <2>11, SameTexts DEF SourceOK
<1>17. \A u \in Sources : u # s => SourceOK(u)'
  BY <1>1, <1>2, <1>3, <1>7, <1>8, <1>11, <1>14, <1>15, OthersKeep DEF WorkPC
<1>18. faults' \in Nat
  BY <1>9, <1>11
<1>19. QED
  BY <1>8, <1>11, <1>14, <1>15, <1>16, <1>17, <1>18, JobStepKeeps

LEMMA RefuseStepKeeps ==
    ASSUME IndexInv, NEW j \in Slots, Refuse(j)
    PROVE  IndexInv'
<1>1. PICK p \in Job : p = job[j] /\ Formed(p)
  BY TypesNow
<1>2. PICK s : s = p.src
  OBVIOUS
<1>3. p.pc \in {"list", "embed"} /\ s \in Sources /\ p.queue \subseteq Sources
  BY <1>1, <1>2 DEF Refuse, At, Formed, WorkPC, Job
<1>7. PICK q : q = Rest(p.queue)
  OBVIOUS
<1>8. /\ q \in Job /\ Formed(q) /\ q.seen = NoRows /\ ~On(q, s) /\ q.src = None /\ q.queue = p.queue
      /\ \A u \in p.queue : \A present : Owes(q, u, present)
  BY <1>3, <1>7, RestFacts
<1>9. job \in [Slots -> Job] /\ index \in [Sources -> Rows] /\ doubt \in [Sources -> SUBSET Doubts]
      /\ faults \in Nat
  BY DEF IndexInv, TypeOK
<1>10. job' = [job EXCEPT ![j] = q]
  BY <1>1, <1>7 DEF Refuse, Finished, Rest
<1>11. UNCHANGED <<data, edits>> /\ index' = index /\ faults' \in Nat
  BY <1>9 DEF Refuse
<1>12. PICK why : why = {"refused"} \cup IF p.wrote THEN {"partial"} ELSE {}
  OBVIOUS
<1>13. doubt' = Doubted({s}, why)
  BY <1>1, <1>2, <1>12 DEF Refuse
<1>14. After(job, job', j, q, {})
  BY <1>8, <1>9, <1>10, JobStep
<1>15. /\ doubt'[s] = doubt[s] \cup why /\ doubt' \in [Sources -> SUBSET Doubts]
       /\ \A u \in Sources : u # s => doubt'[u] = doubt[u]
  BY <1>3, <1>9, <1>12, <1>13 DEF Doubted, Doubts
<1>16. SourceOK(s)'
  <2>1. PICK K : K = job'
    OBVIOUS
  <2>2. K[j] = q /\ \A m \in Slots \ {j} : K[m] = job[m]
    BY <1>14, <2>1 DEF After
  <2>3. SourceInv(s, job, Owing(s), index[s], doubt[s], Present(s), Wanted(s))
    BY <1>3 DEF IndexInv, SourceOK
  <2>4. Sound(s, job, Owing(s), Present(s), Wanted(s))
    BY <1>3, SoundNow
  <2>5. SeenFrom(s, job, K)
    BY <1>8, <2>2 DEF SeenFrom
  <2>6. On(job[j], s) /\ ~On(K[j], s)
    BY <1>1, <1>2, <1>3, <1>8, <2>2 DEF On, WorkPC
  <2>7. Owing(s) \ {j} \subseteq Owing(s)'
    BY <1>11, <2>1, <2>2, SameTexts DEF Owing
  <2>8. doubt'[s] = doubt[s] \cup {"refused"} \cup IF job[j].wrote THEN {"partial"} ELSE {}
    BY <1>1, <1>12, <1>15
  <2>9. SourceInv(s, K, Owing(s)', index[s], doubt'[s], Present(s), Wanted(s))
    BY <2>2, <2>3, <2>4, <2>5, <2>6, <2>7, <2>8, RefuseKeeps
  <2>10. QED
    BY <1>11, <2>1, <2>9, SameTexts DEF SourceOK
<1>17. \A u \in Sources : u # s => SourceOK(u)'
  BY <1>1, <1>2, <1>3, <1>7, <1>8, <1>11, <1>14, <1>15, OthersKeep DEF WorkPC
<1>18. QED
  BY <1>8, <1>9, <1>11, <1>14, <1>15, <1>16, <1>17, JobStepKeeps

-----------------------------------------------------------------------------
(* Every step keeps the invariant: reindexing, and jobs that break *)

LEMMA WipeStepKeeps ==
    ASSUME IndexInv, NEW j \in Slots, Wipe(j)
    PROVE  IndexInv'
<1>1. PICK p \in Job : p = job[j] /\ Formed(p)
  BY TypesNow
<1> DEFINE q == [p EXCEPT !.pc = "listTasks"]
<1>2. p.pc = "wipe" /\ p.queue = Sources /\ p.seen = NoRows
  BY <1>1 DEF Wipe, At, Formed, WorkPC
<1>3. /\ q \in Job /\ q.pc = "listTasks" /\ q.src = p.src /\ q.seen = p.seen /\ q.queue = p.queue
      /\ q.todo = p.todo /\ q.batch = p.batch /\ q.wrote = p.wrote /\ q.chunks = p.chunks
  BY DEF Job, Steps
<1> HIDE DEF q
<1>4. Formed(q)
  BY <1>1, <1>2, <1>3 DEF Formed, WorkPC
<1>5. job' = Overtaken([job EXCEPT ![j] = q], Sources)
  BY <1>1 DEF Wipe, Go, q
<1>6. After(job, job', j, q, Sources)
  BY <1>1, <1>2, <1>3, <1>5, OvertakingStep DEF WorkPC
<1>7. UNCHANGED <<data, edits, faults>>
  BY DEF Wipe
<1>8. index \in [Sources -> Rows] /\ doubt \in [Sources -> SUBSET Doubts] /\ faults \in Nat
  BY DEF IndexInv, TypeOK
<1>9. index' \in [Sources -> Rows] /\ \A s \in Sources : index'[s] = NoRows
  BY <1>8, ClearedType DEF Wipe
<1>10. \A s \in Sources : doubt'[s] =
          IF Wanted(s) = <<>> \/ \E k \in Slots : Working(k, s)
          THEN DoubtAfterDrop(Sources)[s] ELSE doubt[s]
  BY DEF Wipe
<1>11. \A s \in Sources : DoubtAfterDrop(Sources)[s] =
          IF Wanted(s) # <<>> \/ \E k \in Slots : Working(k, s)
          THEN doubt[s] \cup {"raced"} ELSE {}
  BY <1>8, DoubtAfterDropType
<1>12. doubt' \in [Sources -> SUBSET Doubts]
  <2>1. DoubtAfterDrop(Sources) \in [Sources -> SUBSET Doubts]
    BY <1>8, DoubtAfterDropType
  <2>2. QED
    BY <1>8, <2>1 DEF Wipe
<1>13. ASSUME NEW s \in Sources PROVE SourceOK(s)'
  <2>1. ~On(q, s)
    BY <1>3 DEF On, WorkPC
  <2>2. CASE Wanted(s) = <<>> \/ \E k \in Slots : Working(k, s)
    <3>1. doubt'[s] = IF Wanted(s) # <<>> \/ \E k \in Slots : Working(k, s)
                      THEN doubt[s] \cup {"raced"} ELSE {}
      BY <1>10, <1>11, <2>2
    <3>2. QED
      BY <1>1, <1>3, <1>6, <1>7, <1>9, <2>1, <3>1, DroppedKeeps
  <2>3. CASE ~(Wanted(s) = <<>> \/ \E k \in Slots : Working(k, s))
    <3>1. doubt'[s] = doubt[s]
      BY <1>10, <2>3
    <3>2. PICK K : K = job'
      OBVIOUS
    <3>3. AllRaced(s, job, K) /\ SeenFrom(s, job, K)
      BY <1>1, <1>3, <1>6, <2>1, <3>2, OvertakingOthers
    <3>4. \A k \in Slots : ~On(job[k], s)
      BY <2>3, WorkingIsOn
    <3>5. Present(s) /\ K[j] = q
      BY <1>6, <2>3, <3>2 DEF Wanted, After
    <3>6. j \in Owing(s)'
      BY <1>2, <1>3, <1>7, <3>2, <3>5, SameTexts DEF Owing, Owes
    <3>7. Owing(s)' # {}
      BY <3>6
    <3>8. SourceInv(s, job, Owing(s), index[s], doubt[s], Present(s), Wanted(s))
      BY DEF IndexInv, SourceOK
    <3>9. SourceInv(s, K, Owing(s)', NoRows, doubt[s], Present(s), Wanted(s))
      BY <3>3, <3>4, <3>7, <3>8, WipeKeeps
    <3>10. QED
      BY <1>7, <1>9, <3>1, <3>2, <3>9, SameTexts DEF SourceOK
  <2>4. QED
    BY <2>2, <2>3
<1>14. faults' \in Nat
  BY <1>7, <1>8
<1>15. QED
  BY <1>4, <1>6, <1>7, <1>9, <1>12, <1>13, <1>14, JobStepKeeps

LEMMA ListTasksKeeps ==
    ASSUME IndexInv, NEW j \in Slots, ListTasks(j)
    PROVE  IndexInv'
<1>1. PICK p \in Job : p = job[j] /\ Formed(p)
  BY TypesNow
<1>2. PICK Q : Q = {s \in p.queue : s \in Tasks => Present(s)}
  OBVIOUS
<1>3. p.pc = "listTasks" /\ p.queue \subseteq Sources /\ p.seen = NoRows
  BY <1>1 DEF ListTasks, At, Formed, WorkPC, Job
<1> DEFINE q == [p EXCEPT !.pc = "listComments", !.queue = Q]
<1>4. /\ q \in Job /\ q.pc = "listComments" /\ q.src = p.src /\ q.seen = p.seen /\ q.queue = Q
      /\ q.todo = p.todo /\ q.batch = p.batch /\ q.wrote = p.wrote /\ q.chunks = p.chunks
  BY <1>2, <1>3 DEF Job, Steps
<1>5. job' = [job EXCEPT ![j] = q]
  BY <1>1, <1>2 DEF ListTasks
<1> HIDE DEF q
<1>6. Formed(q)
  BY <1>1, <1>3, <1>4 DEF Formed, WorkPC
<1>7. UNCHANGED <<data, index, edits, faults, doubt>>
  BY DEF ListTasks
<1>8. job \in [Slots -> Job] /\ index \in [Sources -> Rows] /\ doubt \in [Sources -> SUBSET Doubts]
      /\ faults \in Nat
  BY DEF IndexInv, TypeOK
<1>9. After(job, job', j, q, {})
  BY <1>4, <1>5, <1>8, JobStep
<1>10. ASSUME NEW s \in Sources PROVE SourceOK(s)'
  <2>1. ~On(p, s) /\ ~On(q, s)
    BY <1>3, <1>4 DEF On, WorkPC
  <2>2. Owes(p, s, Present(s)) => Owes(q, s, Present(s))
    BY <1>2, <1>3, <1>4 DEF Owes, WorkPC
  <2>3. QED
    BY <1>1, <1>3, <1>4, <1>7, <1>9, <2>1, <2>2, SameTexts, AsideKeeps
<1>11. QED
  BY <1>6, <1>7, <1>8, <1>9, <1>10, JobStepKeeps

LEMMA ListCommentsKeeps ==
    ASSUME IndexInv, NEW j \in Slots, ListComments(j)
    PROVE  IndexInv'
<1>1. PICK p \in Job : p = job[j] /\ Formed(p)
  BY TypesNow
<1>2. PICK Q : Q = {s \in p.queue : s \in Comments => Present(s)}
  OBVIOUS
<1>3. p.pc = "listComments" /\ p.queue \subseteq Sources /\ Q \subseteq Sources
  BY <1>1, <1>2 DEF ListComments, At, Job
<1>4. PICK q : q = Rest(Q)
  OBVIOUS
<1>5. /\ q \in Job /\ Formed(q) /\ q.seen = NoRows /\ \A s \in Sources : ~On(q, s)
      /\ \A s \in Q : \A present : Owes(q, s, present)
  BY <1>3, <1>4, RestFacts
<1>6. job' = [job EXCEPT ![j] = q]
  BY <1>1, <1>2, <1>4 DEF ListComments, Rest
<1>7. UNCHANGED <<data, index, edits, faults, doubt>>
  BY DEF ListComments
<1>8. job \in [Slots -> Job] /\ index \in [Sources -> Rows] /\ doubt \in [Sources -> SUBSET Doubts]
      /\ faults \in Nat
  BY DEF IndexInv, TypeOK
<1>9. After(job, job', j, q, {})
  BY <1>5, <1>6, <1>8, JobStep
<1>10. ASSUME NEW s \in Sources PROVE SourceOK(s)'
  <2>1. ~On(p, s)
    BY <1>3 DEF On, WorkPC
  <2>2. Owes(p, s, Present(s)) => s \in Q
    BY <1>2, <1>3 DEF Owes, WorkPC
  <2>3. Owes(p, s, Present(s)) => Owes(q, s, Present(s))
    BY <1>5, <2>2
  <2>4. QED
    BY <1>1, <1>5, <1>7, <1>9, <2>1, <2>3, SameTexts, AsideKeeps
<1>11. QED
  BY <1>5, <1>7, <1>8, <1>9, <1>10, JobStepKeeps

LEMMA OwesConcerns ==
    ASSUME NEW j \in Slots, NEW s \in Sources, NEW present, Owes(job[j], s, present)
    PROVE  s \in Concerns(j)
<1>1. s # None
  BY RagConstants
<1>2. CASE s \in job[j].queue
  BY <1>2 DEF Concerns
<1>3. CASE job[j].pc \in WorkPC \cup {"dropSource"} /\ job[j].src = s
  BY <1>1, <1>3 DEF Concerns, WorkPC
<1>4. CASE job[j].pc = "dropTask" /\ (job[j].src = s \/ s \in CommentsOf(job[j].src))
  BY <1>4 DEF Concerns
<1>5. CASE job[j].pc = "dropComments" /\ s \in CommentsOf(job[j].src)
  BY <1>5 DEF Concerns
<1>6. QED
  BY <1>2, <1>3, <1>4, <1>5 DEF Owes

LEMMA BreakKeeps ==
    ASSUME IndexInv, NEW j \in Slots, Break(j)
    PROVE  IndexInv'
<1>1. PICK p \in Job : p = job[j] /\ Formed(p)
  BY TypesNow
<1>2. PICK q, ss : q = Idle /\ ss = Concerns(j)
  OBVIOUS
<1>3. q \in Job /\ Formed(q) /\ q.seen = NoRows /\ \A s \in Sources : ~On(q, s)
  BY <1>2, IdleFacts DEF Idle, On, WorkPC
<1>4. job' = [Overtaken(job, ss) EXCEPT ![j] = q]
  BY <1>2 DEF Break
<1>5. After(job, job', j, q, ss)
  BY <1>3, <1>4, OvertakenStep
<1>6. doubt \in [Sources -> SUBSET Doubts] /\ index \in [Sources -> Rows] /\ faults \in Nat
  BY DEF IndexInv, TypeOK
<1>7. UNCHANGED <<data, edits>> /\ index' = index /\ faults' \in Nat
  BY <1>6 DEF Break
<1>8. /\ \A s \in Sources : doubt'[s] = (IF s \in ss THEN doubt[s] \cup {"lost"} ELSE doubt[s])
                              \cup IF p.wrote /\ s = p.src THEN {"partial"} ELSE {}
      /\ doubt' = [s \in Sources |-> doubt'[s]]
  BY <1>1, <1>2 DEF Break, Doubted
<1>9. doubt' \in [Sources -> SUBSET Doubts]
  BY <1>6, <1>8 DEF Doubts
<1>10. ASSUME NEW s \in Sources PROVE SourceOK(s)'
  <2>1. CASE s \in ss
    <3>1. PICK K : K = job'
      OBVIOUS
    <3>2. AllRaced(s, job, K) /\ SeenFrom(s, job, K)
      BY <1>3, <1>5, <2>1, <3>1, OvertakingOthers
    <3>3. PICK E : E = doubt'[s]
      OBVIOUS
    <3>4. doubt[s] \subseteq E /\ E \cap Lasting # {}
      BY <1>8, <2>1, <3>3 DEF Lasting
    <3>5. \A k \in Slots : On(job[k], s) /\ ~On(K[k], s) => ~job[k].wrote \/ "partial" \in E
      <4> SUFFICES ASSUME NEW k \in Slots, On(job[k], s), ~On(K[k], s), job[k].wrote
                   PROVE  "partial" \in E
        OBVIOUS
      <4>1. k = j
        <5> SUFFICES ASSUME k # j PROVE FALSE
          OBVIOUS
        <5>1. PICK w \in Job : w = job[k] /\ Formed(w)
          BY TypesNow
        <5>2. K[k] = [w EXCEPT !.raced = TRUE] \/ K[k] = w
          BY <1>5, <3>1, <5>1 DEF After
        <5>3. On([w EXCEPT !.raced = TRUE], s) /\ On(w, s)
          BY <5>1, MarkedJob DEF On, SameWork
        <5>4. QED
          BY <5>2, <5>3
      <4>2. QED
        BY <1>1, <1>8, <3>3, <4>1 DEF On
    <3>6. SourceInv(s, job, Owing(s), index[s], doubt[s], Present(s), Wanted(s))
      BY DEF IndexInv, SourceOK
    <3>7. SourceInv(s, K, Owing(s)', index[s], E, Present(s), Wanted(s))
      BY <3>2, <3>4, <3>5, <3>6, LastingKeeps
    <3>8. QED
      BY <1>7, <3>1, <3>3, <3>7, SameTexts DEF SourceOK
  <2>2. CASE s \notin ss
    <3>1. \A present : ~Owes(p, s, present)
      BY <1>1, <1>2, <2>2, OwesConcerns
    <3>2. ~On(p, s)
      BY <3>1 DEF On, Owes
    <3>3. doubt[s] \subseteq doubt'[s]
      BY <1>8
    <3>4. QED
      BY <1>1, <1>3, <1>5, <1>7, <2>2, <3>1, <3>2, <3>3, SameTexts, AsideKeeps
  <2>3. QED
    BY <2>1, <2>2
<1>11. QED
  BY <1>3, <1>5, <1>6, <1>7, <1>9, <1>10, JobStepKeeps

-----------------------------------------------------------------------------
(* Every step keeps the invariant: changes of the texts *)

\* Job k was idle and is now scheduled to do pc.
IsScheduled(k, q, pc, src, queue) ==
    /\ job[k].pc = "idle" /\ After(job, job', k, q, {}) /\ q \in Job /\ Formed(q)
    /\ q.pc = pc /\ q.src = src /\ q.queue = queue /\ q.seen = NoRows

LEMMA Scheduling ==
    ASSUME IndexInv, NEW pc, NEW src \in Sources \cup {None}, NEW queue \in SUBSET Sources,
           Schedule(pc, src, queue), pc \in {"read", "dropTask", "dropSource", "wipe"},
           pc = "dropTask" => src \in Tasks, pc = "dropSource" => src \in Sources,
           pc = "wipe" => queue = Sources
    PROVE  \E k \in Slots : \E q : IsScheduled(k, q, pc, src, queue)
<1>1. PICK k \in Slots : /\ At(k, "idle")
                         /\ job' = [job EXCEPT ![k] =
                                      [Idle EXCEPT !.pc = pc, !.src = src, !.queue = queue]]
  BY DEF Schedule
<1>2. PICK q : q = [Idle EXCEPT !.pc = pc, !.src = src, !.queue = queue]
  OBVIOUS
<1>3. Idle \in Job /\ Idle.seen = NoRows /\ Idle.wrote = FALSE /\ Idle.todo = {} /\ Idle.batch = {}
  BY IdleFacts DEF Idle
<1>4. /\ q \in Job /\ q.pc = pc /\ q.src = src /\ q.queue = queue /\ q.seen = NoRows
      /\ ~q.wrote /\ q.todo = {} /\ q.batch = {}
  BY <1>2, <1>3 DEF Job, Steps
<1>5. Formed(q)
  BY <1>4 DEF Formed, WorkPC
<1>6. After(job, job', k, q, {})
  <2>1. job \in [Slots -> Job]
    BY DEF IndexInv, TypeOK
  <2>2. QED
    BY <1>1, <1>2, <1>4, <2>1, JobStep
<1>7. QED
  BY <1>1, <1>4, <1>5, <1>6 DEF IsScheduled, At

\* A source that the new job concerns, or whose text is what it was.
LEMMA ScheduledStep ==
    ASSUME IndexInv, NEW k \in Slots, NEW q, NEW pc, NEW src, NEW queue,
           IsScheduled(k, q, pc, src, queue), pc \notin WorkPC, NEW s \in Sources,
           index'[s] = index[s], doubt'[s] = doubt[s],
           \/ Owes(q, s, Present(s)')
           \/ Present(s)' = Present(s) /\ Wanted(s)' = Wanted(s)
    PROVE  SourceOK(s)'
<1>1. PICK p \in Job : p = job[k] /\ Formed(p)
  BY TypesNow
<1>2. p.pc = "idle" /\ q.pc \notin WorkPC /\ q.seen = NoRows /\ After(job, job', k, q, {})
  BY <1>1 DEF IsScheduled
<1>3. ~On(p, s) /\ ~On(q, s) /\ \A present : ~Owes(p, s, present)
  BY <1>2 DEF On, Owes, WorkPC
<1>4. CASE Present(s)' = Present(s) /\ Wanted(s)' = Wanted(s)
  BY <1>1, <1>2, <1>3, <1>4, AsideKeeps
<1>5. CASE Owes(q, s, Present(s)')
  <2>1. PICK K : K = job'
    OBVIOUS
  <2>2. PICK p0 : p0 = Present(s)
    OBVIOUS
  <2>3. SameWorkers(s, job, K) /\ SeenFrom(s, job, K)
    <3>1. After(job, K, k, q, {}) /\ ~On(job[k], s) /\ ~On(q, s) /\ q.seen = NoRows
          /\ (Owes(job[k], s, p0) => Owes(q, s, p0))
      BY <1>1, <1>2, <1>3, <2>1
    <3>2. s \notin {}
      OBVIOUS
    <3>3. QED
      BY <3>1, <3>2, AsideStep
  <2>4. K[k] = q
    BY <1>2, <2>1 DEF After
  <2>5. k \in Owing(s)'
    BY <1>5, <2>1, <2>4 DEF Owing
  <2>6. SourceInv(s, job, Owing(s), index[s], doubt[s], Present(s), Wanted(s))
    BY DEF IndexInv, SourceOK
  <2>7. PICK P, present2, x2 : P = Owing(s)' /\ present2 = Present(s)' /\ x2 = Wanted(s)'
    OBVIOUS
  <2>8. SourceInv(s, K, P, index[s], doubt[s], present2, x2)
    BY <1>3, <2>3, <2>4, <2>5, <2>6, <2>7, ScheduledKeeps
  <2>9. QED
    BY <2>1, <2>7, <2>8 DEF SourceOK
<1>6. QED
  BY <1>4, <1>5

LEMMA ScheduledInv ==
    ASSUME IndexInv, NEW k \in Slots, NEW q, NEW pc, NEW src, NEW queue,
           IsScheduled(k, q, pc, src, queue),
           status' \in [Tasks -> {"none", "live", "trashed", "gone"}],
           text' \in [Tasks -> Texts], written' \subseteq Comments, CommentsHang',
           UNCHANGED <<index, faults, doubt>>, edits' = edits + 1,
           \A s \in Sources : SourceOK(s)'
    PROVE  IndexInv'
<1>1. job' \in [Slots -> Job] /\ \A m \in Slots : Formed(job'[m])
  <2>1. PICK K : K = job'
    OBVIOUS
  <2>2. K \in [Slots -> Job] /\ \A m \in Slots : Formed(K[m])
    BY <2>1, JobsFormed DEF IsScheduled
  <2>3. QED
    BY <2>1, <2>2
<1>2. TypeOK'
  BY <1>1 DEF IndexInv, TypeOK
<1>3. QED
  BY <1>1, <1>2 DEF IndexInv

\* The sources whose texts hang on task t.
With(t) == {t} \cup CommentsOf(t)

LEMMA TextsApart ==
    ASSUME IndexInv, NEW t \in Tasks, NEW s \in Sources \ With(t),
           \A u \in Tasks \ {t} : status'[u] = status[u] /\ text'[u] = text[u],
           s \in written' <=> s \in written
    PROVE  Present(s)' = Present(s) /\ Wanted(s)' = Wanted(s)
<1>1. CASE s \in Tasks
  <2>1. s # t
    BY DEF With
  <2>2. QED
    BY <1>1, <2>1 DEF Present, Wanted, TextOf
<1>2. CASE s \in Comments
  <2>1. TaskOf[s] \in Tasks \ {t} /\ s \notin Tasks
    BY <1>2, RagConstants DEF With, CommentsOf
  <2>2. QED
    BY <2>1 DEF Present, Wanted, TextOf
<1>3. QED
  BY <1>1, <1>2 DEF Sources

LEMMA SaveTaskKeeps ==
    ASSUME IndexInv, NEW t \in Tasks, SaveTask(t)
    PROVE  IndexInv'
<1>1. PICK x \in Texts :
        /\ Edit("save") /\ status[t] \in {"none", "live"}
        /\ status' = [status EXCEPT ![t] = "live"]
        /\ text' = [text EXCEPT ![t] = x]
        /\ Schedule("read", None, {t})
        /\ UNCHANGED <<written, index, faults, doubt>>
  BY DEF SaveTask
<1>2. t \in Sources /\ {t} \in SUBSET Sources
  BY DEF Sources
<1>3. PICK k, q : k \in Slots /\ IsScheduled(k, q, "read", None, {t})
  BY <1>1, <1>2, Scheduling
<1>4. /\ status' \in [Tasks -> {"none", "live", "trashed", "gone"}] /\ text' \in [Tasks -> Texts]
      /\ status'[t] = "live"
      /\ \A u \in Tasks \ {t} : status'[u] = status[u] /\ text'[u] = text[u]
  BY <1>1 DEF IndexInv, TypeOK
<1>5. written' = written /\ written \subseteq Comments
  BY <1>1 DEF IndexInv, TypeOK
<1>6. CommentsHang'
  BY <1>4, <1>5, RagConstants DEF CommentsHang, IndexInv
<1>7. ASSUME NEW s \in Sources PROVE SourceOK(s)'
  <2>1. CASE s = t
    <3>1. q.pc = "read" /\ q.queue = {t}
      BY <1>3 DEF IsScheduled
    <3>2. \A present : Owes(q, s, present)
      BY <2>1, <3>1 DEF Owes
    <3>3. QED
      BY <1>1, <1>3, <3>2, ScheduledStep DEF WorkPC
  <2>2. CASE s \in CommentsOf(t)
    <3>1. s \in Comments /\ TaskOf[s] = t /\ s \notin Tasks
      BY <2>2, RagConstants DEF CommentsOf
    <3>2. s \in written => status[t] = "live"
      BY <1>1, <3>1 DEF IndexInv, CommentsHang
    <3>3. Present(s)' = Present(s) /\ Wanted(s)' = Wanted(s)
      BY <1>4, <1>5, <3>1, <3>2 DEF Present, Wanted, TextOf
    <3>4. QED
      BY <1>1, <1>3, <3>3, ScheduledStep DEF WorkPC
  <2>3. CASE s \notin With(t)
    <3>1. Present(s)' = Present(s) /\ Wanted(s)' = Wanted(s)
      BY <1>4, <1>5, <2>3, TextsApart
    <3>2. QED
      BY <1>1, <1>3, <3>1, ScheduledStep DEF WorkPC
  <2>4. QED
    BY <2>1, <2>2, <2>3 DEF With
<1>8. QED
  BY <1>1, <1>3, <1>4, <1>5, <1>6, <1>7, ScheduledInv DEF Edit

LEMMA TrashTaskKeeps ==
    ASSUME IndexInv, NEW t \in Tasks, TrashTask(t)
    PROVE  IndexInv'
<1>1. /\ Edit("trash") /\ status[t] = "live"
      /\ status' = [status EXCEPT ![t] = "trashed"]
      /\ Schedule("dropTask", t, {})
      /\ UNCHANGED <<text, written, index, faults, doubt>>
  BY DEF TrashTask
<1>2. t \in Sources \cup {None} /\ {} \in SUBSET Sources
  BY DEF Sources
<1>3. PICK k, q : k \in Slots /\ IsScheduled(k, q, "dropTask", t, {})
  BY <1>1, <1>2, Scheduling
<1>4. /\ status' \in [Tasks -> {"none", "live", "trashed", "gone"}] /\ text' \in [Tasks -> Texts]
      /\ status'[t] = "trashed"
      /\ \A u \in Tasks \ {t} : status'[u] = status[u] /\ text'[u] = text[u]
  BY <1>1 DEF IndexInv, TypeOK
<1>5. written' = written /\ written \subseteq Comments
  BY <1>1 DEF IndexInv, TypeOK
<1>6. CommentsHang'
  BY <1>4, <1>5, RagConstants DEF CommentsHang, IndexInv
<1>7. ASSUME NEW s \in Sources PROVE SourceOK(s)'
  <2>1. CASE s \in With(t)
    <3>1. q.pc = "dropTask" /\ q.src = t
      BY <1>3 DEF IsScheduled
    <3>2. \A present : Owes(q, s, present)
      BY <2>1, <3>1 DEF Owes, With
    <3>3. QED
      BY <1>1, <1>3, <3>2, ScheduledStep DEF WorkPC
  <2>2. CASE s \notin With(t)
    <3>1. Present(s)' = Present(s) /\ Wanted(s)' = Wanted(s)
      BY <1>4, <1>5, <2>2, TextsApart
    <3>2. QED
      BY <1>1, <1>3, <3>1, ScheduledStep DEF WorkPC
  <2>3. QED
    BY <2>1, <2>2
<1>8. QED
  BY <1>1, <1>3, <1>4, <1>5, <1>6, <1>7, ScheduledInv DEF Edit

LEMMA WriteCommentKeeps ==
    ASSUME IndexInv, NEW c \in Comments, WriteComment(c)
    PROVE  IndexInv'
<1>1. /\ Edit("comment") /\ status[TaskOf[c]] = "live"
      /\ written' = written \cup {c}
      /\ Schedule("read", None, {c})
      /\ UNCHANGED <<status, text, index, faults, doubt>>
  BY DEF WriteComment
<1>2. {c} \in SUBSET Sources
  BY DEF Sources
<1>3. PICK k, q : k \in Slots /\ IsScheduled(k, q, "read", None, {c})
  BY <1>1, <1>2, Scheduling
<1>4. /\ status' \in [Tasks -> {"none", "live", "trashed", "gone"}] /\ text' \in [Tasks -> Texts]
      /\ written' \subseteq Comments
  BY <1>1 DEF IndexInv, TypeOK
<1>5. CommentsHang'
  BY <1>1 DEF CommentsHang, IndexInv
<1>6. ASSUME NEW s \in Sources PROVE SourceOK(s)'
  <2>1. CASE s = c
    <3>1. q.pc = "read" /\ q.queue = {c}
      BY <1>3 DEF IsScheduled
    <3>2. \A present : Owes(q, s, present)
      BY <2>1, <3>1 DEF Owes
    <3>3. QED
      BY <1>1, <1>3, <3>2, ScheduledStep DEF WorkPC
  <2>2. CASE s # c
    <3>1. Present(s)' = Present(s) /\ Wanted(s)' = Wanted(s)
      BY <1>1, <2>2 DEF Present, Wanted, TextOf
    <3>2. QED
      BY <1>1, <1>3, <3>1, ScheduledStep DEF WorkPC
  <2>3. QED
    BY <2>1, <2>2
<1>7. QED
  BY <1>1, <1>3, <1>4, <1>5, <1>6, ScheduledInv DEF Edit

LEMMA RemoveCommentKeeps ==
    ASSUME IndexInv, NEW c \in Comments, RemoveComment(c)
    PROVE  IndexInv'
<1>1. /\ Edit("comment")
      /\ written' = written \ {c}
      /\ Schedule("dropSource", c, {})
      /\ UNCHANGED <<status, text, index, faults, doubt>>
  BY DEF RemoveComment
<1>2. c \in Sources \cup {None} /\ c \in Sources /\ {} \in SUBSET Sources
  BY DEF Sources
<1>3. PICK k, q : k \in Slots /\ IsScheduled(k, q, "dropSource", c, {})
  BY <1>1, <1>2, Scheduling
<1>4. /\ status' \in [Tasks -> {"none", "live", "trashed", "gone"}] /\ text' \in [Tasks -> Texts]
      /\ written' \subseteq Comments
  BY <1>1 DEF IndexInv, TypeOK
<1>5. CommentsHang'
  BY <1>1 DEF CommentsHang, IndexInv
<1>6. ASSUME NEW s \in Sources PROVE SourceOK(s)'
  <2>1. CASE s = c
    <3>1. q.pc = "dropSource" /\ q.src = c
      BY <1>3 DEF IsScheduled
    <3>2. \A present : Owes(q, s, present)
      BY <2>1, <3>1 DEF Owes
    <3>3. QED
      BY <1>1, <1>3, <3>2, ScheduledStep DEF WorkPC
  <2>2. CASE s # c
    <3>1. Present(s)' = Present(s) /\ Wanted(s)' = Wanted(s)
      BY <1>1, <2>2 DEF Present, Wanted, TextOf
    <3>2. QED
      BY <1>1, <1>3, <3>1, ScheduledStep DEF WorkPC
  <2>3. QED
    BY <2>1, <2>2
<1>7. QED
  BY <1>1, <1>3, <1>4, <1>5, <1>6, ScheduledInv DEF Edit

LEMMA RequestReindexKeeps ==
    ASSUME IndexInv, RequestReindex
    PROVE  IndexInv'
<1>1. Edit("reindex") /\ Schedule("wipe", None, Sources) /\ UNCHANGED <<data, index, faults, doubt>>
  BY DEF RequestReindex
<1>2. PICK k, q : k \in Slots /\ IsScheduled(k, q, "wipe", None, Sources)
  BY <1>1, Scheduling
<1>3. /\ status' \in [Tasks -> {"none", "live", "trashed", "gone"}] /\ text' \in [Tasks -> Texts]
      /\ written' \subseteq Comments /\ CommentsHang'
  BY <1>1 DEF IndexInv, TypeOK, CommentsHang, data
<1>4. ASSUME NEW s \in Sources PROVE SourceOK(s)'
  BY <1>1, <1>2, SameTexts, ScheduledStep DEF WorkPC
<1>5. QED
  BY <1>1, <1>2, <1>3, <1>4, ScheduledInv DEF Edit

LEMMA RestoreTaskKeeps ==
    ASSUME IndexInv, NEW t \in Tasks, RestoreTask(t)
    PROVE  IndexInv'
<1>1. /\ Edit("restore") /\ status[t] = "trashed"
      /\ status' = [status EXCEPT ![t] = "live"]
      /\ doubt' = Doubted(With(t), {"missed"})
      /\ UNCHANGED <<text, written, index, job, faults>>
  BY DEF RestoreTask, With
<1>2. /\ status' \in [Tasks -> {"none", "live", "trashed", "gone"}]
      /\ status'[t] = "live"
      /\ \A u \in Tasks \ {t} : status'[u] = status[u] /\ text'[u] = text[u]
  BY <1>1 DEF IndexInv, TypeOK
<1>3. /\ doubt' \in [Sources -> SUBSET Doubts]
      /\ \A s \in With(t) \cap Sources : doubt'[s] = doubt[s] \cup {"missed"}
      /\ \A s \in Sources \ With(t) : doubt'[s] = doubt[s]
  BY <1>1 DEF IndexInv, TypeOK, Doubted, Doubts
<1>4. TypeOK'
  BY <1>1, <1>2, <1>3 DEF IndexInv, TypeOK, Edit
<1>5. CommentsHang'
  <2>1. written \subseteq Comments
    BY DEF IndexInv, TypeOK
  <2>2. QED
    BY <1>1, <1>2, <2>1, RagConstants DEF CommentsHang, IndexInv
<1>6. ASSUME NEW s \in Sources PROVE SourceOK(s)'
  <2>1. SourceInv(s, job, Owing(s), index[s], doubt[s], Present(s), Wanted(s))
    BY DEF IndexInv, SourceOK
  <2>2. CASE s \in With(t)
    <3>1. ~Present(s) /\ Wanted(s) = <<>>
      BY <1>1, <2>2, RagConstants DEF Present, Wanted, With, CommentsOf
    <3>2. Owing(s) \subseteq Owing(s)'
      <4>1. \A k \in Slots : Owes(job[k], s, Present(s)) => Owes(job[k], s, Present(s)')
        BY <3>1 DEF Owes
      <4>2. QED
        BY <1>1, <4>1 DEF Owing
    <3>3. Sound(s, job, Owing(s), Present(s), Wanted(s))
      BY SoundNow
    <3>4. PICK P, present2, x2 : P = Owing(s)' /\ present2 = Present(s)' /\ x2 = Wanted(s)'
      OBVIOUS
    <3>5. SourceInv(s, job, P, index[s], doubt[s] \cup {"missed"}, present2, x2)
      BY <2>1, <3>1, <3>2, <3>3, <3>4, MissedKeeps
    <3>6. QED
      BY <1>1, <1>3, <2>2, <3>4, <3>5 DEF SourceOK
  <2>3. CASE s \notin With(t)
    <3>1. Present(s)' = Present(s) /\ Wanted(s)' = Wanted(s)
      BY <1>1, <1>2, <2>3, TextsApart
    <3>2. Owing(s)' = Owing(s)
      BY <1>1, <3>1 DEF Owing
    <3>3. QED
      BY <1>1, <1>3, <2>1, <2>3, <3>1, <3>2 DEF SourceOK
  <2>4. QED
    BY <2>2, <2>3
<1>7. QED
  BY <1>1, <1>4, <1>5, <1>6 DEF IndexInv

LEMMA FileTaskKeeps ==
    ASSUME IndexInv, NEW t \in Tasks, FileTask(t)
    PROVE  IndexInv'
<1>1. PICK x \in Texts :
        /\ Edit("file") /\ status[t] = "none"
        /\ status' = [status EXCEPT ![t] = "live"]
        /\ text' = [text EXCEPT ![t] = x]
        /\ doubt' = Doubted({t}, {"missed"})
        /\ UNCHANGED <<written, index, job, faults>>
  BY DEF FileTask
<1>2. /\ status' \in [Tasks -> {"none", "live", "trashed", "gone"}] /\ text' \in [Tasks -> Texts]
      /\ status'[t] = "live"
      /\ \A u \in Tasks \ {t} : status'[u] = status[u] /\ text'[u] = text[u]
  BY <1>1 DEF IndexInv, TypeOK
<1>3. /\ doubt' \in [Sources -> SUBSET Doubts]
      /\ t \in Sources /\ doubt'[t] = doubt[t] \cup {"missed"}
      /\ \A s \in Sources \ {t} : doubt'[s] = doubt[s]
  BY <1>1 DEF IndexInv, TypeOK, Doubted, Doubts, Sources
<1>4. TypeOK'
  <2>1. /\ written' = written /\ index' = index /\ job' = job /\ faults' = faults
        /\ edits' = edits + 1
    BY <1>1 DEF Edit
  <2>2. QED
    BY <1>2, <1>3, <2>1 DEF IndexInv, TypeOK
<1>5. CommentsHang'
  <2>1. written \subseteq Comments
    BY DEF IndexInv, TypeOK
  <2>2. QED
    BY <1>1, <1>2, <2>1, RagConstants DEF CommentsHang, IndexInv
<1>6. ASSUME NEW s \in Sources PROVE SourceOK(s)'
  <2>1. SourceInv(s, job, Owing(s), index[s], doubt[s], Present(s), Wanted(s))
    BY DEF IndexInv, SourceOK
  <2>2. CASE s = t
    <3>1. ~Present(s) /\ Wanted(s) = <<>>
      BY <1>1, <2>2 DEF Present, Wanted
    <3>2. Owing(s) \subseteq Owing(s)'
      <4>1. \A k \in Slots : Owes(job[k], s, Present(s)) => Owes(job[k], s, Present(s)')
        BY <3>1 DEF Owes
      <4>2. QED
        BY <1>1, <4>1 DEF Owing
    <3>3. Sound(s, job, Owing(s), Present(s), Wanted(s))
      BY SoundNow
    <3>4. PICK P, present2, x2 : P = Owing(s)' /\ present2 = Present(s)' /\ x2 = Wanted(s)'
      OBVIOUS
    <3>5. SourceInv(s, job, P, index[s], doubt[s] \cup {"missed"}, present2, x2)
      BY <2>1, <3>1, <3>2, <3>3, <3>4, MissedKeeps
    <3>6. QED
      BY <1>1, <1>3, <2>2, <3>4, <3>5 DEF SourceOK
  <2>3. CASE s # t
    <3>1. Present(s)' = Present(s) /\ Wanted(s)' = Wanted(s)
      <4>1. CASE s \in CommentsOf(t)
        <5>1. s \in Comments /\ TaskOf[s] = t /\ s \notin Tasks
          BY <4>1, RagConstants DEF CommentsOf
        <5>2. s \notin written
          BY <1>1, <5>1 DEF IndexInv, CommentsHang
        <5>3. QED
          BY <1>1, <5>1, <5>2 DEF Present, Wanted
      <4>2. CASE s \notin CommentsOf(t)
        BY <1>1, <1>2, <2>3, <4>2, TextsApart DEF With
      <4>3. QED
        BY <4>1, <4>2
    <3>2. Owing(s)' = Owing(s)
      BY <1>1, <3>1 DEF Owing
    <3>3. QED
      BY <1>1, <1>3, <2>1, <2>3, <3>1, <3>2 DEF SourceOK
  <2>4. QED
    BY <2>2, <2>3
<1>7. QED
  BY <1>1, <1>4, <1>5, <1>6 DEF IndexInv

LEMMA PurgeTaskKeeps ==
    ASSUME IndexInv, NEW t \in Tasks, PurgeTask(t)
    PROVE  IndexInv'
<1>1. /\ Edit("purge") /\ status[t] = "trashed"
      /\ status' = [status EXCEPT ![t] = "gone"]
      /\ written' = written \ CommentsOf(t)
      /\ UNCHANGED <<text, index, job, faults, doubt>>
  BY DEF PurgeTask
<1>2. /\ status' \in [Tasks -> {"none", "live", "trashed", "gone"}]
      /\ status'[t] = "gone" /\ written' \subseteq Comments
      /\ \A u \in Tasks \ {t} : status'[u] = status[u] /\ text'[u] = text[u]
  BY <1>1 DEF IndexInv, TypeOK
<1>3. TypeOK'
  BY <1>1, <1>2 DEF IndexInv, TypeOK, Edit
<1>4. CommentsHang'
  <2>1. \A c \in written' : c \in Comments /\ c \in written /\ TaskOf[c] \in Tasks \ {t}
    BY <1>1, <1>2, RagConstants DEF CommentsOf
  <2>2. QED
    BY <1>2, <2>1 DEF CommentsHang, IndexInv
<1>5. ASSUME NEW s \in Sources PROVE SourceOK(s)'
  <2>1. SourceInv(s, job, Owing(s), index[s], doubt[s], Present(s), Wanted(s))
    BY DEF IndexInv, SourceOK
  <2>2. Present(s)' = Present(s) /\ Wanted(s)' = Wanted(s)
    <3>1. CASE s \in With(t)
      <4>1. ~Present(s) /\ ~Present(s)'
        BY <1>1, <1>2, <3>1, RagConstants DEF Present, With, CommentsOf
      <4>2. QED
        BY <4>1 DEF Wanted, Present
    <3>2. CASE s \notin With(t)
      <4>1. s \in written' <=> s \in written
        BY <1>1, <3>2 DEF With
      <4>2. QED
        BY <1>2, <3>2, <4>1, TextsApart
    <3>3. QED
      BY <3>1, <3>2
  <2>3. Owing(s)' = Owing(s)
    BY <1>1, <2>2 DEF Owing
  <2>4. QED
    BY <1>1, <2>1, <2>2, <2>3 DEF SourceOK
<1>6. QED
  BY <1>1, <1>3, <1>4, <1>5 DEF IndexInv

\* Everybody at work on one of ss is overtaken, by no job.
LEMMA AllOvertaken ==
    ASSUME IndexInv, NEW ss, NEW K, K = Overtaken(job, ss)
    PROVE  /\ K \in [Slots -> Job] /\ \A m \in Slots : Formed(K[m])
           /\ \A s \in Sources : SeenFrom(s, job, K) /\ (s \notin ss => SameWorkers(s, job, K))
           /\ \A s \in ss : /\ AllRaced(s, job, K)
                            /\ \A m \in Slots : On(job[m], s) => On(K[m], s)
           /\ \A m \in Slots : \A s, present : Owes(K[m], s, present) <=> Owes(job[m], s, present)
<1>1. \A m \in Slots : K[m] = IF \E s \in ss : On(job[m], s)
                              THEN [job[m] EXCEPT !.raced = TRUE] ELSE job[m]
  BY WorkingIsOn DEF Overtaken
<1>2. K = [m \in Slots |-> K[m]]
  BY DEF Overtaken
<1>3. \A m \in Slots :
          /\ K[m] \in Job /\ Formed(K[m]) /\ K[m].src = job[m].src /\ K[m].queue = job[m].queue
          /\ SameWork(job[m], K[m])
          /\ (\E s \in ss : On(job[m], s)) => K[m].raced
          /\ ~(\E s \in ss : On(job[m], s)) => K[m] = job[m]
  <2> TAKE m \in Slots
  <2>1. PICK w \in Job : w = job[m] /\ Formed(w)
    BY TypesNow
  <2>2. SameWork(w, w)
    BY DEF SameWork
  <2>3. QED
    BY <1>1, <2>1, <2>2, MarkedJob
<1>4. K \in [Slots -> Job]
  BY <1>2, <1>3
<1>5. \A m \in Slots : \A s : On(K[m], s) <=> On(job[m], s)
  BY <1>3 DEF On, SameWork
<1>6. \A s \in Sources : SeenFrom(s, job, K)
  BY <1>3 DEF SeenFrom, SameWork
<1>7. \A s \in Sources : s \notin ss => SameWorkers(s, job, K)
  <2> SUFFICES ASSUME NEW s \in Sources, s \notin ss, NEW m \in Slots
               PROVE  /\ On(K[m], s) <=> On(job[m], s)
                      /\ On(job[m], s) => SameWork(job[m], K[m]) /\ K[m].raced = job[m].raced
    BY DEF SameWorkers
  <2>1. On(job[m], s) => ~(\E u \in ss : On(job[m], u))
    BY DEF On
  <2>2. QED
    BY <1>3, <1>5, <2>1
<1>8. \A s \in ss : AllRaced(s, job, K)
  BY <1>3, <1>5 DEF AllRaced
<1>9. \A m \in Slots : \A s, present : Owes(K[m], s, present) <=> Owes(job[m], s, present)
  BY <1>3 DEF Owes, SameWork
<1>10. QED
  BY <1>3, <1>4, <1>5, <1>6, <1>7, <1>8, <1>9

LEMMA CascadeTaskKeeps ==
    ASSUME IndexInv, NEW t \in Tasks, CascadeTask(t)
    PROVE  IndexInv'
<1>1. PICK why : why = IF status[t] = "live" THEN {"orphaned"} ELSE {}
  OBVIOUS
<1>2. /\ Edit("cascade") /\ status[t] \in {"live", "trashed"}
      /\ status' = [status EXCEPT ![t] = "gone"]
      /\ written' = written \ CommentsOf(t)
      /\ doubt' = Doubted(With(t), why)
      /\ job' = Overtaken(job, With(t))
      /\ UNCHANGED <<text, index, faults>>
  BY <1>1 DEF CascadeTask, With
<1>3. /\ status' \in [Tasks -> {"none", "live", "trashed", "gone"}]
      /\ status'[t] = "gone" /\ written' \subseteq Comments
      /\ \A u \in Tasks \ {t} : status'[u] = status[u] /\ text'[u] = text[u]
  BY <1>2 DEF IndexInv, TypeOK
<1>4. /\ doubt' \in [Sources -> SUBSET Doubts]
      /\ \A s \in With(t) \cap Sources : doubt'[s] = doubt[s] \cup why
      /\ \A s \in Sources \ With(t) : doubt'[s] = doubt[s]
  BY <1>1, <1>2 DEF IndexInv, TypeOK, Doubted, Doubts
<1>5. PICK K : K = job'
  OBVIOUS
<1>6. /\ K \in [Slots -> Job] /\ \A m \in Slots : Formed(K[m])
      /\ \A s \in Sources : SeenFrom(s, job, K) /\ (s \notin With(t) => SameWorkers(s, job, K))
      /\ \A s \in With(t) : /\ AllRaced(s, job, K)
                            /\ \A m \in Slots : On(job[m], s) => On(K[m], s)
      /\ \A m \in Slots : \A s, present : Owes(K[m], s, present) <=> Owes(job[m], s, present)
  BY <1>2, <1>5, AllOvertaken
<1>7. TypeOK'
  BY <1>2, <1>3, <1>4, <1>5, <1>6 DEF IndexInv, TypeOK, Edit
<1>8. CommentsHang'
  <2>1. \A c \in written' : c \in Comments /\ c \in written /\ TaskOf[c] \in Tasks \ {t}
    BY <1>2, <1>3, RagConstants DEF CommentsOf
  <2>2. QED
    BY <1>3, <2>1 DEF CommentsHang, IndexInv
<1>9. ASSUME NEW s \in Sources PROVE SourceOK(s)'
  <2>1. SourceInv(s, job, Owing(s), index[s], doubt[s], Present(s), Wanted(s))
    BY DEF IndexInv, SourceOK
  <2>2. CASE s \in With(t) /\ status[t] = "live"
    <3>1. PICK E : E = doubt'[s]
      OBVIOUS
    <3>2. doubt[s] \subseteq E /\ E \cap Lasting # {}
      BY <1>1, <1>4, <2>2, <3>1 DEF Lasting
    <3>3. PICK P, present2, x2 : P = Owing(s)' /\ present2 = Present(s)' /\ x2 = Wanted(s)'
      OBVIOUS
    <3>4. SourceInv(s, K, P, index[s], E, present2, x2)
      BY <1>6, <2>1, <2>2, <3>2, LastingKeeps
    <3>5. QED
      BY <1>2, <1>5, <3>1, <3>3, <3>4 DEF SourceOK
  <2>3. CASE s \in With(t) /\ status[t] = "trashed"
    <3>1. ~Present(s) /\ ~Present(s)'
      BY <1>3, <2>3, RagConstants DEF Present, With, CommentsOf
    <3>2. Present(s)' = Present(s) /\ Wanted(s)' = Wanted(s) /\ Wanted(s) = <<>>
      BY <3>1 DEF Wanted, Present
    <3>3. Owing(s)' = Owing(s)
      BY <1>5, <1>6, <3>2 DEF Owing
    <3>4. doubt'[s] = doubt[s]
      BY <1>1, <1>4, <2>3
    <3>5. Sound(s, job, Owing(s), Present(s), Wanted(s))
      BY SoundNow
    <3>6. SourceInv(s, K, Owing(s), index[s], doubt[s], Present(s), Wanted(s))
      BY <1>6, <2>1, <2>3, <3>2, <3>5, LostTextKeeps
    <3>7. QED
      BY <1>2, <1>5, <3>2, <3>3, <3>4, <3>6 DEF SourceOK
  <2>4. CASE s \notin With(t)
    <3>1. s \in written' <=> s \in written
      BY <1>2, <2>4 DEF With
    <3>2. Present(s)' = Present(s) /\ Wanted(s)' = Wanted(s)
      BY <1>3, <2>4, <3>1, TextsApart
    <3>3. Owing(s)' = Owing(s)
      BY <1>5, <1>6, <3>2 DEF Owing
    <3>4. SourceInv(s, K, Owing(s), index[s], doubt[s], Present(s), Wanted(s))
      BY <1>6, <2>1, <2>4, QuietKeeps
    <3>5. QED
      BY <1>2, <1>4, <1>5, <2>4, <3>2, <3>3, <3>4 DEF SourceOK
  <2>5. QED
    BY <1>2, <2>2, <2>3, <2>4
<1>10. QED
  BY <1>5, <1>6, <1>7, <1>8, <1>9 DEF IndexInv

-----------------------------------------------------------------------------
(* The first state, and every step *)

LEMMA IndexedRows ==
    ASSUME NEW x \in AllTexts \cup {<<>>}
    PROVE  /\ Indexed(x) \in Rows /\ Are(Indexed(x), x)
           /\ \A i \in Places : Indexed(x)[i] # None => Indexed(x)[i].id = i
<1>1. x \in Seq(Chunks)
  <2>1. CASE x \in Texts
    BY <2>1, RagConstants
  <2>2. ASSUME NEW c \in Comments, x = CommentText[c] PROVE x \in Seq(Chunks)
    BY <2>2, RagConstants
  <2>3. CASE x = <<>>
    BY <2>3
  <2>4. QED
    BY <2>1, <2>2, <2>3 DEF AllTexts
<1>2. Len(x) \in Nat /\ Places \subseteq Nat \ {0}
  BY <1>1, PlacesReach
<1>3. \A i \in Places : i <= Len(x) => x[i] \in Chunks
  BY <1>1, <1>2
<1>4. \A i \in Places : i <= Len(x) => [id |-> i, chunk |-> x[i]] \in Row
  BY <1>2, <1>3 DEF Row
<1>5. None \notin Row
  BY RagConstants DEF Row
<1>6. \A i \in Places : Indexed(x)[i] = IF i <= Len(x) THEN [id |-> i, chunk |-> x[i]] ELSE None
  BY DEF Indexed
<1>7. Indexed(x) \in Rows
  BY <1>4 DEF Indexed, Rows
<1>8. PICK X : X = Indexed(x)
  OBVIOUS
<1>9. \A i \in Places : IF i <= Len(x) THEN X[i] # None /\ X[i].id = i /\ X[i].chunk = x[i]
                                        ELSE X[i] = None
  <2> TAKE i \in Places
  <2>1. CASE i <= Len(x)
    <3>1. X[i] = [id |-> i, chunk |-> x[i]] /\ X[i] # None
      BY <1>4, <1>5, <1>6, <1>8, <2>1
    <3>2. QED
      BY <2>1, <3>1
  <2>2. CASE ~(i <= Len(x))
    BY <1>6, <1>8, <2>2
  <2>3. QED
    BY <2>1, <2>2
<1>10. Are(X, x) /\ \A i \in Places : X[i] # None => X[i].id = i
  BY <1>9 DEF Are
<1>11. QED
  BY <1>7, <1>8, <1>10

LEMMA InitInv == Init => IndexInv
<1> SUFFICES ASSUME Init PROVE IndexInv
  OBVIOUS
<1>1. /\ status \in [Tasks -> {"none", "live"}] /\ text \in [Tasks -> Texts]
      /\ written \subseteq {c \in Comments : status[TaskOf[c]] = "live"}
      /\ index = [s \in Sources |-> Indexed(Wanted(s))]
      /\ job = [j \in Slots |-> Idle]
      /\ edits = 0 /\ faults = 0 /\ doubt = [s \in Sources |-> {}]
  BY DEF Init
<1>2. \A s \in Sources : /\ TextOf(s) \in TextsOf(s) /\ TextsOf(s) \subseteq AllTexts
                         /\ Wanted(s) \in AllTexts \cup {<<>>}
                         /\ Wanted(s) \in {TextOf(s), <<>>}
                         /\ ~Present(s) => Wanted(s) = <<>>
  BY <1>1 DEF TextOf, TextsOf, AllTexts, Wanted, Sources
<1>3. index \in [Sources -> Rows]
  BY <1>1, <1>2, IndexedRows
<1>4. job \in [Slots -> Job] /\ \A j \in Slots : job[j] = Idle
  BY <1>1, IdleFacts
<1>5. TypeOK
  BY <1>1, <1>3, <1>4 DEF TypeOK, Doubts
<1>6. CommentsHang
  BY <1>1 DEF CommentsHang
<1>7. \A j \in Slots : Formed(job[j])
  BY <1>4, IdleFacts
<1>8. ASSUME NEW s \in Sources PROVE SourceOK(s)
  <2>1. \A j \in Slots : ~On(job[j], s) /\ \A present : ~Owes(job[j], s, present)
    BY <1>4 DEF Idle, On, Owes, WorkPC
  <2>2. Owing(s) = {}
    BY <2>1 DEF Owing
  <2>3. PICK x : x = Wanted(s)
    OBVIOUS
  <2>4. PICK X : X = Indexed(x)
    OBVIOUS
  <2>5. index[s] = X /\ doubt[s] = {}
    BY <1>1, <2>3, <2>4
  <2>6. Are(X, x) /\ \A i \in Places : X[i] # None => X[i].id = i
    BY <1>2, <2>3, <2>4, IndexedRows
  <2>7. \A j \in Slots : \A i \in Places : job[j].seen[i] = None
    BY <1>4, NoRowsAre DEF Idle
  <2>8. \A i \in Places : HeldAt(s, job, X, i) \ {None} \subseteq {X[i]}
    BY <2>7 DEF HeldAt
  <2>9. \A i \in Places : \A r \in HeldAt(s, job, X, i) \ {None} : r.id = i
    BY <2>6, <2>8
  <2>10. IdsTell(s, job, X)
    <3> HIDE DEF HeldAt
    <3>1. QED
      BY <2>9 DEF IdsTell
  <2>11. PairsRaced(s, job, {}) /\ RowsIntact(s, job, X, {}) /\ TextFresh(s, job, {}, x)
         /\ RaceKnown(s, job, {}, {})
    BY <2>1 DEF PairsRaced, RowsIntact, TextFresh, RaceKnown
  <2>12. Settled({}, X, {}, x) /\ NotFound({}, X, {}, Present(s)) /\ InOnePiece(s, job, X, {})
    BY <1>2, <2>3, <2>6 DEF Settled, NotFound, InOnePiece
  <2>13. QED
    BY <2>2, <2>3, <2>5, <2>10, <2>11, <2>12 DEF SourceOK, SourceInv
<1>9. QED
  BY <1>5, <1>6, <1>7, <1>8 DEF IndexInv

LEMMA StutterKeeps ==
    ASSUME IndexInv, UNCHANGED vars
    PROVE  IndexInv'
<1>1. UNCHANGED <<status, text, written, index, job, edits, faults, doubt>>
  BY DEF vars
<1>2. TypeOK' /\ CommentsHang' /\ \A j \in Slots : Formed(job'[j])
  BY <1>1 DEF IndexInv, TypeOK, CommentsHang
<1>3. ASSUME NEW s \in Sources PROVE SourceOK(s)'
  <2>1. Present(s)' = Present(s) /\ Wanted(s)' = Wanted(s)
    BY <1>1, SameTexts DEF data
  <2>2. Owing(s)' = Owing(s)
    BY <1>1, <2>1 DEF Owing
  <2>3. SourceInv(s, job, Owing(s), index[s], doubt[s], Present(s), Wanted(s))
    BY DEF IndexInv, SourceOK
  <2>4. QED
    BY <1>1, <2>1, <2>2, <2>3 DEF SourceOK
<1>4. QED
  BY <1>2, <1>3 DEF IndexInv

LEMMA NextKeeps == IndexInv /\ [Next]_vars => IndexInv'
<1> SUFFICES ASSUME IndexInv, [Next]_vars PROVE IndexInv'
  OBVIOUS
<1>1. ASSUME NEW j \in Slots, Drop(j) PROVE IndexInv'
  BY <1>1, DropTaskKeeps, DropCommentsKeeps, DropSourceKeeps DEF Drop
<1>2. ASSUME NEW j \in Slots, Replace(j) PROVE IndexInv'
  BY <1>2, ReadSourceKeeps, ListExistingKeeps, EmbedBatchKeeps, StoreChunkKeeps,
     DeleteStaleKeeps DEF Replace
<1>3. ASSUME NEW j \in Slots, Reindex(j) PROVE IndexInv'
  BY <1>3, WipeStepKeeps, ListTasksKeeps, ListCommentsKeeps DEF Reindex
<1>4. ASSUME NEW j \in Slots, Refuse(j) \/ Break(j) PROVE IndexInv'
  BY <1>4, RefuseStepKeeps, BreakKeeps
<1>5. CASE Users
  BY <1>5, SaveTaskKeeps, FileTaskKeeps, TrashTaskKeeps, RestoreTaskKeeps,
     PurgeTaskKeeps, CascadeTaskKeeps, WriteCommentKeeps, RemoveCommentKeeps,
     RequestReindexKeeps DEF Users
<1>6. CASE UNCHANGED vars
  BY <1>6, StutterKeeps
<1>7. QED
  BY <1>1, <1>2, <1>3, <1>4, <1>5, <1>6 DEF Next

\* Whatever jobs overlap, break or are refused, at every moment each of them knows
\* what it has to know of the rows of its source (listener and indexer together).
THEOREM IndexInvariant == Spec => []IndexInv
BY InitInv, NextKeeps, PTL DEF Spec

-----------------------------------------------------------------------------
(* What follows when no job is left for a source *)

LEMMA QuietFacts ==
    ASSUME NEW s \in Sources, Quiet(s)
    PROVE  Owing(s) = {} /\ \A j \in Slots : ~On(job[j], s)
<1>1. \A j \in Slots : \A present : ~Owes(job[j], s, present)
  BY OwesConcerns DEF Quiet
<1>2. QED
  BY <1>1 DEF Owing, On, Owes

LEMMA HoldsAre == \A s, x : Holds(s, x) <=> Are(index[s], x)
BY DEF Holds, Are

\* Every variable of the index and its jobs keeps its type: no row is without an id.
THEOREM IndexTypeCorrect == Spec => []TypeOK
<1>1. IndexInv => TypeOK
  BY DEF IndexInv
<1>2. QED
  BY <1>1, IndexInvariant, PTL

\* A source that no job is left for, and nothing untoward happened to since a job
\* last ran for it undisturbed, is indexed with its current text: for any number of
\* jobs and sources and any batch size (rag-indexer.service.ts).
THEOREM SettledIsRight == Spec => []SettledIndex
<1>1. IndexInv => SettledIndex
  <2> SUFFICES ASSUME IndexInv, NEW s \in Sources, Quiet(s), doubt[s] = {}
               PROVE  Are(index[s], Wanted(s))
    BY HoldsAre DEF SettledIndex
  <2>1. Settled(Owing(s), index[s], doubt[s], Wanted(s))
    BY DEF IndexInv, SourceOK, SourceInv
  <2>2. QED
    BY <2>1, QuietFacts DEF Settled
<1>2. QED
  BY <1>1, IndexInvariant, PTL

\* What is deleted has no rows once no job is left for it, unless jobs overlapped, a
\* job was lost, or a whole column or board was deleted.
THEOREM GhostsAreGone == Spec => []NoGhosts
<1>1. IndexInv => NoGhosts
  <2> SUFFICES ASSUME IndexInv, NEW s \in Sources, Quiet(s), ~Present(s),
                      doubt[s] \cap Lasting = {}
               PROVE  Are(index[s], <<>>)
    BY HoldsAre DEF NoGhosts, Lasting
  <2>1. NotFound(Owing(s), index[s], doubt[s], Present(s))
    BY DEF IndexInv, SourceOK, SourceInv
  <2>2. QED
    BY <2>1, QuietFacts DEF NotFound
<1>2. QED
  BY <1>1, IndexInvariant, PTL

\* The rows of a source are one of its texts, or none, once no job is left for it and
\* unless jobs overlapped or one ended half-way.
THEOREM TextsAreWhole == Spec => []Whole
<1>1. IndexInv => Whole
  <2> SUFFICES ASSUME IndexInv, NEW s \in Sources, Quiet(s),
                      doubt[s] \cap {"raced", "partial"} = {}
               PROVE  Are(index[s], <<>>) \/ \E x \in TextsOf(s) : Are(index[s], x)
    BY HoldsAre DEF Whole, TextsOf
  <2>1. InOnePiece(s, job, index[s], doubt[s])
    BY DEF IndexInv, SourceOK, SourceInv
  <2>2. QED
    BY <2>1, QuietFacts DEF InOnePiece
<1>2. QED
  BY <1>1, IndexInvariant, PTL

=============================================================================
