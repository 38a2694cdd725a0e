----------------------- MODULE DependencyGraph_proofs -----------------------
(* DependencyGraph stays acyclic.  The inductive invariant is the existence *)
(* of a ranking of the tasks that every edge increases; a new edge <<s, d>> *)
(* with s out of reach of d lifts the ranks of everything d reaches.        *)
EXTENDS DependencyGraph, Integers, TLAPS

Ranked(E) == \E r \in [Tasks -> Nat] : \A e \in E : r[e[1]] < r[e[2]]

GraphInv ==
    /\ edges \in SUBSET (Tasks \X Tasks)
    /\ Ranked(edges)

\* A ranked graph has no cycle: the nodes ranked at least as high as the head
\* of an edge are closed, and its tail is not among them.
LEMMA RankedAcyclic ==
    ASSUME NEW E \in SUBSET (Tasks \X Tasks), Ranked(E)
    PROVE  Acyclic(Tasks, E)
<1>1. PICK r \in [Tasks -> Nat] : \A e \in E : r[e[1]] < r[e[2]]
  BY DEF Ranked
<1>2. SUFFICES ASSUME NEW e \in E PROVE e[1] \notin Reach(Tasks, E, e[2])
  BY DEF Acyclic
<1>3. e[1] \in Tasks /\ e[2] \in Tasks
  OBVIOUS
<1> DEFINE S == {y \in Tasks : r[y] >= r[e[2]]}
<1>4. Closed(E, S)
  <2>1. ASSUME NEW f \in E, f[1] \in S PROVE f[2] \in S
    <3>1. f[1] \in Tasks /\ f[2] \in Tasks /\ r[f[1]] \in Nat /\ r[f[2]] \in Nat /\ r[e[2]] \in Nat
      BY <1>3
    <3>2. r[f[1]] < r[f[2]] /\ r[f[1]] >= r[e[2]]
      BY <1>1, <2>1
    <3>3. QED
      BY <3>1, <3>2
  <2>2. QED
    BY <2>1 DEF Closed
<1>5. r[e[1]] \in Nat /\ r[e[2]] \in Nat /\ r[e[1]] < r[e[2]]
  BY <1>1, <1>3
<1>6. e[2] \in S /\ e[1] \notin S
  BY <1>3, <1>5
<1>7. QED
  BY <1>4, <1>6 DEF Reach

\* What x reaches holds x and is closed under the edges.
LEMMA ReachClosed ==
    ASSUME NEW N, NEW E \in SUBSET (N \X N), NEW x \in N
    PROVE  x \in Reach(N, E, x) /\ Closed(E, Reach(N, E, x))
<1>1. x \in Reach(N, E, x)
  BY DEF Reach
<1>2. ASSUME NEW e \in E, e[1] \in Reach(N, E, x)
      PROVE  e[2] \in Reach(N, E, x)
  <2>1. e[1] \in N /\ e[2] \in N
    OBVIOUS
  <2>2. ASSUME NEW S \in SUBSET N, x \in S, Closed(E, S)
        PROVE  e[2] \in S
    <3>1. e[1] \in S
      BY <1>2, <2>2 DEF Reach
    <3>2. QED
      BY <2>2, <3>1 DEF Closed
  <2>3. QED
    BY <2>1, <2>2 DEF Reach
<1>3. QED
  BY <1>1, <1>2 DEF Closed

\* An edge whose source its target does not reach keeps the graph ranked.
LEMMA LinkKeepsRanked ==
    ASSUME NEW E \in SUBSET (Tasks \X Tasks), Ranked(E),
           NEW s \in Tasks, NEW d \in Tasks, s \notin Reach(Tasks, E, d)
    PROVE  Ranked(E \cup {<<s, d>>})
<1>1. PICK r \in [Tasks -> Nat] : \A e \in E : r[e[1]] < r[e[2]]
  BY DEF Ranked
<1> DEFINE R == Reach(Tasks, E, d)
           q == [y \in Tasks |-> IF y \in R THEN r[y] + r[s] + 1 ELSE r[y]]
<1>2. d \in R /\ Closed(E, R)
  BY ReachClosed
<1>3. q \in [Tasks -> Nat]
  OBVIOUS
<1>4. ASSUME NEW e \in E PROVE q[e[1]] < q[e[2]]
  <2>1. e[1] \in Tasks /\ e[2] \in Tasks
    OBVIOUS
  <2>2. e[1] \in R => e[2] \in R
    BY <1>2 DEF Closed
  <2>3. r[e[1]] < r[e[2]]
    BY <1>1
  <2>4. r[e[1]] \in Nat /\ r[e[2]] \in Nat /\ r[s] \in Nat
    BY <2>1
  <2> HIDE DEF R
  <2>5. QED
    BY <2>1, <2>2, <2>3, <2>4
<1>5. q[s] < q[d]
  <2>1. r[s] \in Nat /\ r[d] \in Nat
    OBVIOUS
  <2>2. s \notin R
    OBVIOUS
  <2> HIDE DEF R
  <2>3. QED
    BY <1>2, <2>1, <2>2
<1>6. \A e \in E \cup {<<s, d>>} : q[e[1]] < q[e[2]]
  <2> HIDE DEF q
  <2>1. QED BY <1>4, <1>5
<1> HIDE DEF q
<1>7. QED
  BY <1>3, <1>6 DEF Ranked

\* The graph is ranked in every reachable state.
THEOREM GraphInvariant == Spec => []GraphInv
<1>1. Init => GraphInv
  <2> SUFFICES ASSUME Init PROVE GraphInv
    OBVIOUS
  <2>1. [y \in Tasks |-> 0] \in [Tasks -> Nat]
    OBVIOUS
  <2>2. QED
    BY <2>1 DEF Init, GraphInv, Ranked
<1>2. GraphInv /\ [Next]_edges => GraphInv'
  <2> SUFFICES ASSUME GraphInv, [Next]_edges PROVE GraphInv'
    OBVIOUS
  <2>1. CASE Link
    <3>1. PICK s \in Tasks, d \in Tasks :
             s \notin Reach(Tasks, edges, d) /\ edges' = edges \cup {<<s, d>>}
      BY <2>1 DEF Link
    <3>2. Ranked(edges')
      BY <3>1, LinkKeepsRanked DEF GraphInv
    <3>3. edges' \in SUBSET (Tasks \X Tasks)
      BY <3>1 DEF GraphInv
    <3>4. QED
      BY <3>2, <3>3 DEF GraphInv, Ranked
  <2>2. CASE Unlink
    BY <2>2 DEF Unlink, GraphInv, Ranked
  <2>3. CASE UNCHANGED edges
    BY <2>3 DEF GraphInv, Ranked
  <2>4. QED
    BY <2>1, <2>2, <2>3 DEF Next
<1>3. QED
  BY <1>1, <1>2, PTL DEF Spec

\* The promise of the relations: no cycle of blocking tasks, ever.
THEOREM GraphAcyclic == Spec => []NoCycle
<1>1. GraphInv => NoCycle
  BY RankedAcyclic DEF GraphInv, NoCycle
<1>2. QED
  BY <1>1, GraphInvariant, PTL
=============================================================================
