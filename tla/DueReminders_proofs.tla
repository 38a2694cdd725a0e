-------------------------- MODULE DueReminders_proofs --------------------------
(* What holds of the due reminders for any tasks, any number of overlapping   *)
(* ticks, any batch size and any number of edits and crashes.                 *)
EXTENDS DueReminders, TLAPS

-----------------------------------------------------------------------------
(* Types *)

\* A tick may be replaced by another.
LEMMA TickReplaced ==
    ASSUME TypeOK, NEW w \in Ticks, NEW r \in Tick, tick' = [tick EXCEPT ![w] = r]
    PROVE  tick' \in [Ticks -> Tick]
BY DEF TypeOK

\* The idle tick, and one that has just gone on to another stage.
LEMMA TickMoves ==
    ASSUME TypeOK, NEW w \in Ticks, NEW p \in Stages, Done(w) \/ Go(w, p)
    PROVE  tick' \in [Ticks -> Tick]
<1>1. Idle \in Tick /\ [Idle EXCEPT !.pc = p] \in Tick
  BY DEF Idle, Tick, Stages
<1>2. QED
  BY <1>1, TickReplaced DEF Done, Go

\* Noting an edit leaves ticks ticks.
LEMMA EditedTypes ==
    ASSUME TypeOK, NEW t \in Tasks
    PROVE  Edited(t) \in [Ticks -> Tick]
<1>1. \A w \in Ticks : [tick[w] EXCEPT !.edited = @ \cup {t}] \in Tick
  BY DEF TypeOK, Tick
<1>2. QED
  BY <1>1 DEF Edited, TypeOK

\* Postponing keeps the types.
LEMMA PostponeTypes ==
    ASSUME TypeOK, NEW t \in Tasks, NEW d \in Nat, Postpone(t, d)
    PROVE  /\ due' \in [Tasks -> Nat]
           /\ notices' \in [Tasks -> 0 .. 2]
           /\ vain' \in [Tasks -> BOOLEAN]
BY DEF Postpone, TypeOK

\* The steps of a tick keep the types.
LEMMA JobTypes ==
    ASSUME TypeOK, NEW w \in Ticks, TryLock(w) \/ Advance(w) \/ Crash(w)
    PROVE  TypeOK'
<1>1. CASE TryLock(w)
  <2>1. tick' \in [Ticks -> Tick]
    BY <1>1, TickMoves DEF TryLock, Stages
  <2>2. QED
    BY <1>1, <2>1 DEF TryLock, TypeOK, task, note
<1>2. CASE SyncBatch(w)
  <2>1. PICK kept \in SUBSET Tasks :
          tick' = [tick EXCEPT ![w] = [Idle EXCEPT
                     !.pc = IF kept = {} THEN "overdue" ELSE "remind", !.list = kept]]
    BY <1>2 DEF SyncBatch
  <2>2. [Idle EXCEPT !.pc = IF kept = {} THEN "overdue" ELSE "remind", !.list = kept] \in Tick
    BY DEF Idle, Tick, Stages
  <2>3. tick' \in [Ticks -> Tick]
    BY <2>1, <2>2, TickReplaced
  <2>4. QED
    BY <1>2, <2>3 DEF SyncBatch, TypeOK, task, note
<1>3. CASE CommitReminders(w)
  <2>1. tick' \in [Ticks -> Tick]
    BY <1>3, TickMoves DEF CommitReminders, Stages
  <2>2. /\ stamped' \in [Tasks -> BOOLEAN]
        /\ notices' \in [Tasks -> 0 .. 2]
        /\ vain' \in [Tasks -> BOOLEAN]
    <3>1. CASE \E t \in tick[w].list : status[t] = "purged"
      BY <1>3, <3>1 DEF CommitReminders, TypeOK
    <3>2. CASE ~\E t \in tick[w].list : status[t] = "purged"
      <4> DEFINE list == tick[w].list
                 old  == tick[w].edited
      <4>1. /\ stamped' = [t \in Tasks |-> stamped[t] \/ t \in list]
            /\ vain' = [t \in Tasks |-> vain[t] \/ t \in list \cap old]
            /\ notices' = [t \in Tasks |-> IF t \in list \ old /\ notices[t] < 2
                                           THEN notices[t] + 1 ELSE notices[t]]
        BY <1>3, <3>2 DEF CommitReminders
      <4>2. stamped' \in [Tasks -> BOOLEAN]
        BY <4>1, Zenon
      <4>3. vain' \in [Tasks -> BOOLEAN]
        BY <4>1, Zenon
      <4>4. notices' \in [Tasks -> 0 .. 2]
        BY <4>1 DEF TypeOK
      <4>5. QED
        BY <4>2, <4>3, <4>4
    <3>3. QED
      BY <3>1, <3>2
  <2>3. QED
    BY <1>3, <2>1, <2>2 DEF CommitReminders, TypeOK
<1>4. CASE ReadOverdue(w)
  <2> DEFINE old == {t \in Tasks : Overdue(t)}
             r == [Idle EXCEPT !.pc = "roll", !.list = old, !.day = today + 1]
  <2>1. Idle \in Tick /\ r \in Tick
    <3>1. \A ts \in SUBSET Tasks, n \in Nat :
            [Idle EXCEPT !.pc = "roll", !.list = ts, !.day = n] \in Tick
      BY DEF Idle, Tick, Stages
    <3>2. old \in SUBSET Tasks /\ today + 1 \in Nat
      BY DEF TypeOK
    <3>3. QED
      BY <3>1, <3>2 DEF Idle, Tick, Stages
  <2>2. tick' = [tick EXCEPT ![w] = IF old = {} THEN Idle ELSE r]
    BY <1>4 DEF ReadOverdue
  <2>3. tick' \in [Ticks -> Tick]
    BY <2>1, <2>2, TickReplaced
  <2>4. QED
    BY <1>4, <2>3 DEF ReadOverdue, TypeOK, task, note
<1>5. CASE RollTask(w)
  <2>1. PICK t \in tick[w].list :
          LET rest == tick[w].list \ {t}
              mine == IF rest = {} THEN Idle ELSE [tick[w] EXCEPT !.list = rest]
          IN IF status[t] = "purged"
             THEN tick' = [tick EXCEPT ![w] = mine] /\ UNCHANGED <<due, note>>
             ELSE Postpone(t, tick[w].day) /\ tick' = [Edited(t) EXCEPT ![w] = mine]
    BY <1>5 DEF RollTask
  <2> DEFINE rest == tick[w].list \ {t}
             mine == IF rest = {} THEN Idle ELSE [tick[w] EXCEPT !.list = rest]
  <2>2. t \in Tasks /\ tick[w].day \in Nat /\ tick[w] \in Tick
    BY DEF TypeOK, Tick
  <2>3. mine \in Tick
    BY <2>2 DEF Idle, Tick, Stages
  <2>4. tick' \in [Ticks -> Tick]
    BY <2>1, <2>2, <2>3, TickReplaced, EditedTypes
  <2>5. due' \in [Tasks -> Nat] /\ notices' \in [Tasks -> 0 .. 2] /\ vain' \in [Tasks -> BOOLEAN]
    BY <2>1, <2>2, PostponeTypes DEF note, TypeOK
  <2>6. QED
    BY <1>5, <2>4, <2>5 DEF RollTask, TypeOK
<1>6. CASE Crash(w)
  <2>1. tick' \in [Ticks -> Tick]
    BY <1>6, TickMoves DEF Crash, Stages
  <2>2. QED
    BY <1>6, <2>1 DEF Crash, TypeOK, task, note
<1>7. QED
  BY <1>1, <1>2, <1>3, <1>4, <1>5, <1>6 DEF Advance

\* The steps of the users keep the types.
LEMMA UserTypes ==
    ASSUME TypeOK, NEW t \in Tasks, Reschedule(t) \/ Complete(t) \/ ChangeStatus(t) \/ Assign(t)
    PROVE  TypeOK'
<1>1. CASE Reschedule(t)
  <2>1. PICK d \in today .. LastDay + 1 : due' = [due EXCEPT ![t] = d]
    BY <1>1 DEF Reschedule
  <2>2. d \in Nat
    BY RemindersConstants DEF TypeOK
  <2>3. QED
    BY <1>1, <2>1, <2>2, EditedTypes DEF Reschedule, Edit, Unstamped, TypeOK
<1>2. CASE Complete(t)
  <2>1. CASE t \in Recurring
    <3>1. Postpone(t, due[t] + 1) /\ due[t] + 1 \in Nat
      BY <1>2, <2>1 DEF Complete, TypeOK
    <3>2. due' \in [Tasks -> Nat] /\ notices' \in [Tasks -> 0 .. 2] /\ vain' \in [Tasks -> BOOLEAN]
      BY <3>1, PostponeTypes
    <3>3. QED
      BY <1>2, <2>1, <3>2, EditedTypes DEF Complete, Edit, TypeOK
  <2>2. CASE t \notin Recurring
    BY <1>2, <2>2 DEF Complete, Edit, TypeOK, note
  <2>3. QED
    BY <2>1, <2>2
<1>3. CASE ChangeStatus(t)
  BY <1>3 DEF ChangeStatus, Edit, TypeOK, note
<1>4. CASE Assign(t)
  BY <1>4 DEF Assign, Edit, TypeOK, note
<1>5. QED
  BY <1>1, <1>2, <1>3, <1>4

\* Every step keeps the types.
LEMMA StepTypes ==
    ASSUME TypeOK, [Next]_vars
    PROVE  TypeOK'
<1>1. ASSUME NEW w \in Ticks, TryLock(w) \/ Advance(w) \/ Crash(w)
      PROVE  TypeOK'
  BY <1>1, JobTypes
<1>2. CASE LockExpires
  BY <1>2 DEF LockExpires, Busy, TypeOK, task, note
<1>3. CASE Users
  BY <1>3, UserTypes DEF Users
<1>4. CASE NextDay
  BY <1>4 DEF NextDay, TypeOK, task, note
<1>5. CASE UNCHANGED vars
  BY <1>5 DEF vars, task, note, TypeOK
<1>6. QED
  BY <1>1, <1>2, <1>3, <1>4, <1>5 DEF Next

\* The first state has the types.
LEMMA InitTypes ==
    ASSUME Init
    PROVE  TypeOK
<1>1. 0 .. LastDay \subseteq Nat
  BY RemindersConstants
<1>2. Idle \in Tick
  BY DEF Idle, Tick, Stages
<1>3. due \in [Tasks -> Nat]
  BY <1>1 DEF Init
<1>4. /\ stamped = [t \in Tasks |-> FALSE] /\ vain = [t \in Tasks |-> FALSE]
      /\ lock = FALSE /\ overran = FALSE
  BY DEF Init
<1>5. /\ stamped \in [Tasks -> BOOLEAN] /\ vain \in [Tasks -> BOOLEAN]
      /\ lock \in BOOLEAN /\ overran \in BOOLEAN
  BY <1>4, Zenon
<1>6. notices \in [Tasks -> 0 .. 2] /\ tick \in [Ticks -> Tick]
  BY <1>2 DEF Init
<1>7. /\ status \in [Tasks -> {"open", "done", "trashed", "purged"}]
      /\ assignee \in [Tasks -> {"none", "member", "gone"}]
  BY DEF Init
<1>8. today \in Nat /\ edits \in Nat /\ crashes \in Nat
  BY DEF Init
<1>9. QED
  BY <1>3, <1>5, <1>6, <1>7, <1>8 DEF TypeOK

\* Every variable keeps its type (due-reminders.service.ts).
THEOREM RemindersTypeCorrect == Spec => []TypeOK
<1>1. Init => TypeOK
  BY InitTypes
<1>2. TypeOK /\ [Next]_vars => TypeOK'
  BY StepTypes
<1>3. QED
  BY <1>1, <1>2, PTL DEF Spec

-----------------------------------------------------------------------------
(* Stamps, reminders and the lock *)

\* While no tick has outlived its lock, one tick runs, and it holds the lock.
OneTick == ~overran => /\ \A v, w \in Ticks : ~At(v, "idle") /\ ~At(w, "idle") => v = w
                       /\ \A w \in Ticks : ~At(w, "idle") => lock

\* What was reminded of is stamped.
NoticesStamped == \A t \in Tasks : ~stamped[t] => notices[t] = 0

\* What the one tick is about to remind of is not yet stamped.
ListUnstamped == ~overran => \A w \in Ticks, t \in Tasks :
    At(w, "remind") /\ t \in tick[w].list /\ t \notin tick[w].edited => ~stamped[t]

\* What a tick is about to roll is overdue, or was edited meanwhile.
ListOverdue == \A w \in Ticks, t \in Tasks :
    At(w, "roll") /\ t \in tick[w].list => due[t] < today \/ t \in tick[w].edited

RemindersInv == /\ TypeOK /\ OneTick /\ NoticesStamped /\ ListUnstamped /\ ListOverdue
                /\ OnceWhileLocked /\ StampMeansReminded

\* What is noted of each tick when t is edited.
LEMMA EditedParts ==
    ASSUME TypeOK, NEW t \in Tasks
    PROVE  \A w \in Ticks : /\ Edited(t)[w].pc = tick[w].pc
                            /\ Edited(t)[w].list = tick[w].list
                            /\ tick[w].edited \subseteq Edited(t)[w].edited
                            /\ t \in tick[w].list => t \in Edited(t)[w].edited
<1>1. \A w \in Ticks : tick[w] \in Tick
  BY DEF TypeOK
<1>2. \A r \in Tick : LET q == [r EXCEPT !.edited = @ \cup {t}] IN
        q.pc = r.pc /\ q.list = r.list /\ q.edited = r.edited \cup {t}
  BY DEF Tick
<1>3. \A w \in Ticks : Edited(t)[w] = IF t \in tick[w].list
                          THEN [tick[w] EXCEPT !.edited = @ \cup {t}] ELSE tick[w]
  BY DEF Edited
<1>4. QED
  BY <1>1, <1>2, <1>3

\* A tick that is replaced by one that neither reminds nor rolls, all else unchanged.
LEMMA QuietTick ==
    ASSUME RemindersInv, TypeOK', NEW w \in Ticks, NEW r, tick' = [tick EXCEPT ![w] = r],
           r.pc \notin {"remind", "roll"},
           r.pc # "idle" => ~At(w, "idle"),
           UNCHANGED <<today, due, stamped, lock, notices, vain, overran>>
    PROVE  RemindersInv'
<1>1. \A v \in Ticks : tick'[v] = IF v = w THEN r ELSE tick[v]
  BY DEF RemindersInv, TypeOK
<1>2. OneTick'
  BY <1>1 DEF RemindersInv, OneTick, At
<1>3. NoticesStamped' /\ OnceWhileLocked' /\ StampMeansReminded'
  BY DEF RemindersInv, NoticesStamped, OnceWhileLocked, StampMeansReminded
<1>4. ListUnstamped'
  BY <1>1 DEF RemindersInv, ListUnstamped, At
<1>5. ListOverdue'
  BY <1>1 DEF RemindersInv, ListOverdue, At
<1>6. QED
  BY <1>2, <1>3, <1>4, <1>5 DEF RemindersInv

\* The due date of t moves on and every tick but perhaps one takes note of it.
LEMMA Postponed ==
    ASSUME RemindersInv, TypeOK', NEW t \in Tasks, NEW d \in Nat, Postpone(t, d),
           UNCHANGED <<today, stamped, lock, overran>>,
           \A w \in Ticks : At(w, "idle") => At(w, "idle")',
           \A w \in Ticks, p \in {"remind", "roll"} : At(w, p)' =>
             /\ At(w, p) /\ tick'[w].list \subseteq tick[w].list
             /\ tick[w].edited \subseteq tick'[w].edited
             /\ t \in tick'[w].list => t \in tick'[w].edited
    PROVE  RemindersInv'
<1>1. OneTick'
  BY DEF RemindersInv, OneTick
<1>2. \A u \in Tasks : /\ u # t => due'[u] = due[u] /\ notices'[u] = notices[u]
                       /\ notices'[u] = 0 \/ notices'[u] = notices[u]
                       /\ vain[u] => vain'[u]
                       /\ stamped[u] => notices'[u] = notices[u] \/ vain'[u]
  <2>1. due'[t] = d /\ \A u \in Tasks : u # t => due'[u] = due[u] /\ notices'[u] = notices[u] /\ vain'[u] = vain[u]
    BY DEF Postpone, RemindersInv, TypeOK
  <2>2. notices'[t] = IF d = due[t] THEN notices[t] ELSE 0
    BY DEF Postpone, RemindersInv, TypeOK
  <2>3. vain'[t] = (vain[t] \/ (stamped[t] /\ d # due[t]))
    BY DEF Postpone, RemindersInv, TypeOK
  <2>4. QED
    BY <2>1, <2>2, <2>3
<1>3. NoticesStamped' /\ OnceWhileLocked' /\ StampMeansReminded'
  BY <1>2 DEF RemindersInv, NoticesStamped, OnceWhileLocked, StampMeansReminded
<1>4. ListUnstamped'
  BY DEF RemindersInv, ListUnstamped
<1>5. ListOverdue'
  BY <1>2 DEF RemindersInv, ListOverdue
<1>6. QED
  BY <1>1, <1>3, <1>4, <1>5 DEF RemindersInv

\* Getting the lock: nobody else is running, as long as none has overrun.
LEMMA TryLockKeeps ==
    ASSUME RemindersInv, TypeOK', NEW w \in Ticks, TryLock(w)
    PROVE  RemindersInv'
<1>1. /\ ~lock /\ lock' = TRUE /\ tick' = [tick EXCEPT ![w] = [Idle EXCEPT !.pc = "sync"]]
      /\ UNCHANGED <<today, due, stamped, notices, vain, overran>>
  BY DEF TryLock, Go, task, note
<1>2. [Idle EXCEPT !.pc = "sync"].pc = "sync"
  BY DEF Idle
<1>3. /\ \A v \in Ticks : v # w => tick'[v] = tick[v]
      /\ tick'[w].pc = "sync"
  BY <1>1, <1>2 DEF RemindersInv, TypeOK
<1>4. OneTick'
  BY <1>1, <1>3 DEF RemindersInv, OneTick, At
<1>5. NoticesStamped' /\ OnceWhileLocked' /\ StampMeansReminded'
  BY <1>1 DEF RemindersInv, NoticesStamped, OnceWhileLocked, StampMeansReminded
<1>6. ListUnstamped'
  BY <1>1, <1>3 DEF RemindersInv, ListUnstamped, At
<1>7. ListOverdue'
  BY <1>1, <1>3 DEF RemindersInv, ListOverdue, At
<1>8. QED
  BY <1>4, <1>5, <1>6, <1>7 DEF RemindersInv

\* Reading a batch, or the overdue tasks: what is read is as the invariant says.
LEMMA ReadsKeep ==
    ASSUME RemindersInv, TypeOK', NEW w \in Ticks, SyncBatch(w) \/ ReadOverdue(w)
    PROVE  RemindersInv'
<1>1. /\ UNCHANGED <<today, due, stamped, lock, notices, vain, overran>>
      /\ ~At(w, "idle")
  BY DEF SyncBatch, ReadOverdue, At, task, note
<1>2. /\ \A v \in Ticks : v # w => tick'[v] = tick[v]
      /\ tick'[w].pc = "remind" => \A t \in tick'[w].list : t \in Tasks => ~stamped[t]
      /\ tick'[w].pc = "roll" => \A t \in tick'[w].list : t \in Tasks => due[t] < today
  <2>1. CASE SyncBatch(w)
    <3>1. PICK kept \in SUBSET {t \in Tasks : Remindable(t)} :
            tick' = [tick EXCEPT ![w] = [Idle EXCEPT
                       !.pc = IF kept = {} THEN "overdue" ELSE "remind", !.list = kept]]
      BY <2>1 DEF SyncBatch
    <3> DEFINE r == [Idle EXCEPT !.pc = IF kept = {} THEN "overdue" ELSE "remind", !.list = kept]
    <3>2. r.pc \in {"overdue", "remind"} /\ r.list = kept
      BY DEF Idle
    <3>3. tick'[w] = r /\ \A v \in Ticks : v # w => tick'[v] = tick[v]
      BY <3>1 DEF RemindersInv, TypeOK
    <3>4. \A t \in kept : t \in Tasks => ~stamped[t]
      BY DEF Remindable
    <3>5. QED
      BY <3>2, <3>3, <3>4
  <2>2. CASE ReadOverdue(w)
    <3> DEFINE old == {t \in Tasks : Overdue(t)}
               r == [Idle EXCEPT !.pc = "roll", !.list = old, !.day = today + 1]
    <3>1. r.pc = "roll" /\ r.list = old /\ Idle.pc = "idle"
      BY DEF Idle
    <3>2. tick'[w] \in {Idle, r} /\ \A v \in Ticks : v # w => tick'[v] = tick[v]
      BY <2>2 DEF ReadOverdue, RemindersInv, TypeOK
    <3>3. \A t \in old : due[t] < today
      BY DEF Overdue
    <3>4. QED
      BY <3>1, <3>2, <3>3
  <2>3. QED
    BY <2>1, <2>2
<1>3. OneTick'
  BY <1>1, <1>2 DEF RemindersInv, OneTick, At
<1>4. NoticesStamped' /\ OnceWhileLocked' /\ StampMeansReminded'
  BY <1>1 DEF RemindersInv, NoticesStamped, OnceWhileLocked, StampMeansReminded
<1>5. ListUnstamped'
  BY <1>1, <1>2 DEF RemindersInv, ListUnstamped, At
<1>6. ListOverdue'
  BY <1>1, <1>2 DEF RemindersInv, ListOverdue, At
<1>7. QED
  BY <1>3, <1>4, <1>5, <1>6 DEF RemindersInv

\* The reminders are committed: only the tick that holds the lock does so, unless
\* one has overrun, and its list was not reminded of before.
LEMMA CommitKeeps ==
    ASSUME RemindersInv, TypeOK', NEW w \in Ticks, CommitReminders(w)
    PROVE  RemindersInv'
<1> DEFINE list == tick[w].list
           old  == tick[w].edited
<1>1. /\ At(w, "remind") /\ ~At(w, "idle")
      /\ UNCHANGED <<today, due, lock, overran>>
  BY DEF CommitReminders, At
<1>2. /\ Idle.pc = "idle"
      /\ [Idle EXCEPT !.pc = "overdue"].pc = "overdue"
  BY DEF Idle
<1>3. CASE \E t \in list : status[t] = "purged"
  BY <1>1, <1>2, <1>3, QuietTick DEF CommitReminders, Done
<1>4. CASE ~\E t \in list : status[t] = "purged"
  <2>1. /\ stamped' = [t \in Tasks |-> stamped[t] \/ t \in list]
        /\ notices' = [t \in Tasks |-> IF t \in list \ old /\ notices[t] < 2
                                       THEN notices[t] + 1 ELSE notices[t]]
        /\ vain' = [t \in Tasks |-> vain[t] \/ t \in list \cap old]
        /\ tick' = [tick EXCEPT ![w] = [Idle EXCEPT !.pc = "overdue"]]
    BY <1>4 DEF CommitReminders, Go
  <2>2. /\ \A v \in Ticks : v # w => tick'[v] = tick[v]
        /\ tick'[w].pc = "overdue"
    BY <1>2, <2>1 DEF RemindersInv, TypeOK
  <2>3. OneTick'
    BY <1>1, <2>2 DEF RemindersInv, OneTick, At
  <2>4. \A t \in Tasks : /\ stamped[t] => stamped'[t]
                         /\ ~stamped'[t] => ~stamped[t] /\ t \notin list
                         /\ stamped'[t] => stamped[t] \/ t \in list
    BY <2>1
  <2>5. \A t \in Tasks : /\ notices[t] \in 0 .. 2
                         /\ t \notin list \ old => notices'[t] = notices[t]
                         /\ t \in list \ old => notices'[t] # 0
                         /\ t \in list \ old /\ notices[t] = 0 => notices'[t] = 1
                         /\ notices[t] # 0 => notices'[t] # 0
    BY <2>1 DEF RemindersInv, TypeOK
  <2>6. \A t \in Tasks : vain[t] \/ (t \in list /\ t \in old) => vain'[t]
    BY <2>1
  <2>7. NoticesStamped'
    BY <2>4, <2>5 DEF RemindersInv, NoticesStamped
  <2>8. OnceWhileLocked'
    BY <1>1, <2>5 DEF RemindersInv, OnceWhileLocked, NoticesStamped, ListUnstamped
  <2>9. StampMeansReminded'
    <3>1. \A t \in Tasks : notices'[t] \in 0 .. 2
      BY DEF TypeOK
    <3>2. \A t \in Tasks : stamped'[t] => notices'[t] # 0 \/ vain'[t]
      BY <2>4, <2>5, <2>6 DEF RemindersInv, StampMeansReminded
    <3>3. QED
      BY <3>1, <3>2 DEF StampMeansReminded
  <2>10. ListUnstamped'
    BY <1>1, <2>2 DEF RemindersInv, ListUnstamped, OneTick, At
  <2>11. ListOverdue'
    BY <1>1, <2>2 DEF RemindersInv, ListOverdue, At
  <2>12. QED
    BY <2>3, <2>7, <2>8, <2>9, <2>10, <2>11 DEF RemindersInv
<1>5. QED
  BY <1>3, <1>4

\* One overdue task is rolled over.
LEMMA RollKeeps ==
    ASSUME RemindersInv, TypeOK', NEW w \in Ticks, RollTask(w)
    PROVE  RemindersInv'
<1>1. PICK t \in tick[w].list :
        LET rest == tick[w].list \ {t}
            mine == IF rest = {} THEN Idle ELSE [tick[w] EXCEPT !.list = rest]
        IN IF status[t] = "purged"
           THEN tick' = [tick EXCEPT ![w] = mine] /\ UNCHANGED <<due, note>>
           ELSE Postpone(t, tick[w].day) /\ tick' = [Edited(t) EXCEPT ![w] = mine]
  BY DEF RollTask
<1> DEFINE rest == tick[w].list \ {t}
           mine == IF rest = {} THEN Idle ELSE [tick[w] EXCEPT !.list = rest]
<1>2. At(w, "roll") /\ ~At(w, "idle") /\ UNCHANGED <<today, stamped, lock, overran>>
  BY DEF RollTask, At
<1>3. t \in Tasks /\ tick[w].day \in Nat /\ tick[w] \in Tick
  BY DEF RemindersInv, TypeOK, Tick
<1>4. \/ mine.pc = "idle"
      \/ mine.pc = "roll" /\ mine.list = rest /\ mine.edited = tick[w].edited
  BY <1>2, <1>3 DEF Idle, Tick, At
<1>5. CASE status[t] = "purged"
  <2>1. \A v \in Ticks : tick'[v] = IF v = w THEN mine ELSE tick[v]
    BY <1>1, <1>5 DEF RemindersInv, TypeOK
  <2>2. UNCHANGED <<due, notices, vain>>
    BY <1>1, <1>5 DEF note
  <2>3. OneTick'
    BY <1>2, <1>4, <2>1 DEF RemindersInv, OneTick, At
  <2>4. NoticesStamped' /\ OnceWhileLocked' /\ StampMeansReminded'
    BY <1>2, <2>2 DEF RemindersInv, NoticesStamped, OnceWhileLocked, StampMeansReminded
  <2>5. ListUnstamped'
    BY <1>2, <1>4, <2>1 DEF RemindersInv, ListUnstamped, At
  <2>6. ListOverdue'
    BY <1>2, <1>4, <2>1, <2>2 DEF RemindersInv, ListOverdue, At
  <2>7. QED
    BY <2>3, <2>4, <2>5, <2>6 DEF RemindersInv
<1>6. CASE status[t] # "purged"
  <2>1. Postpone(t, tick[w].day) /\ tick' = [Edited(t) EXCEPT ![w] = mine]
    BY <1>1, <1>6
  <2>2. \A v \in Ticks : tick'[v] = IF v = w THEN mine ELSE Edited(t)[v]
    BY <1>3, <2>1, EditedTypes DEF RemindersInv
  <2>3. \A v \in Ticks : At(v, "idle") => At(v, "idle")'
    BY <1>2, <1>3, <2>2, EditedParts DEF RemindersInv, At
  <2>4. \A v \in Ticks, p \in {"remind", "roll"} : At(v, p)' =>
             /\ At(v, p) /\ tick'[v].list \subseteq tick[v].list
             /\ tick[v].edited \subseteq tick'[v].edited
             /\ t \in tick'[v].list => t \in tick'[v].edited
    <3>1. ASSUME NEW v \in Ticks, v # w
          PROVE  /\ tick'[v].pc = tick[v].pc /\ tick'[v].list = tick[v].list
                 /\ tick[v].edited \subseteq tick'[v].edited
                 /\ t \in tick[v].list => t \in tick'[v].edited
      BY <1>3, <2>2, <3>1, EditedParts DEF RemindersInv
    <3>2. /\ tick'[w] = mine /\ rest \subseteq tick[w].list /\ t \notin rest
          /\ mine.pc # "idle" => mine.pc = "roll" /\ mine.list = rest /\ mine.edited = tick[w].edited
      BY <1>4, <2>2
    <3>3. QED
      BY <1>2, <3>1, <3>2 DEF At
  <2>5. QED
    BY <1>2, <1>3, <2>1, <2>3, <2>4, Postponed
<1>7. QED
  BY <1>5, <1>6

\* The lock expires: either no tick runs, or one has overrun now.
LEMMA ExpiryKeeps ==
    ASSUME RemindersInv, TypeOK', LockExpires
    PROVE  RemindersInv'
<1>1. /\ UNCHANGED <<today, due, stamped, tick, notices, vain>>
      /\ ~overran' => ~overran /\ ~Busy
  BY DEF LockExpires, task, note
<1>2. OneTick'
  BY <1>1 DEF OneTick, Busy, At
<1>3. NoticesStamped' /\ OnceWhileLocked' /\ StampMeansReminded'
  BY <1>1 DEF RemindersInv, NoticesStamped, OnceWhileLocked, StampMeansReminded
<1>4. ListUnstamped'
  BY <1>1 DEF RemindersInv, ListUnstamped, At
<1>5. ListOverdue'
  BY <1>1 DEF RemindersInv, ListOverdue, At
<1>6. QED
  BY <1>2, <1>3, <1>4, <1>5 DEF RemindersInv

\* Nothing that matters here changes, but perhaps the day.
LEMMA SameRows ==
    ASSUME RemindersInv, TypeOK', today' \in {today, today + 1},
           UNCHANGED <<due, stamped, lock, tick, notices, vain, overran>>
    PROVE  RemindersInv'
<1>1. OneTick'
  BY DEF RemindersInv, OneTick, At
<1>2. NoticesStamped' /\ OnceWhileLocked' /\ StampMeansReminded'
  BY DEF RemindersInv, NoticesStamped, OnceWhileLocked, StampMeansReminded
<1>3. ListUnstamped'
  BY DEF RemindersInv, ListUnstamped, At
<1>4. ListOverdue'
  BY DEF RemindersInv, ListOverdue, TypeOK, At
<1>5. QED
  BY <1>1, <1>2, <1>3, <1>4 DEF RemindersInv

\* The stages of ticks stay as they are when a task is edited.
LEMMA EditNoted ==
    ASSUME RemindersInv, NEW t \in Tasks, tick' = Edited(t)
    PROVE  /\ \A w \in Ticks : At(w, "idle") => At(w, "idle")'
           /\ \A w \in Ticks, p \in {"remind", "roll"} : At(w, p)' =>
             /\ At(w, p) /\ tick'[w].list \subseteq tick[w].list
             /\ tick[w].edited \subseteq tick'[w].edited
             /\ t \in tick'[w].list => t \in tick'[w].edited
BY EditedParts DEF RemindersInv, At

\* A user gives a task a new date, which takes its stamp off.
LEMMA RescheduleKeeps ==
    ASSUME RemindersInv, TypeOK', NEW t \in Tasks, Reschedule(t)
    PROVE  RemindersInv'
<1>1. PICK d \in today .. LastDay + 1 : due' = [due EXCEPT ![t] = d]
  BY DEF Reschedule
<1>2. /\ stamped' = [stamped EXCEPT ![t] = FALSE]
      /\ notices' = [notices EXCEPT ![t] = 0]
      /\ vain' = [vain EXCEPT ![t] = FALSE]
      /\ tick' = Edited(t)
      /\ UNCHANGED <<today, lock, overran>>
  BY DEF Reschedule, Unstamped
<1>3. \A u \in Tasks : u # t => /\ due'[u] = due[u] /\ stamped'[u] = stamped[u]
                                /\ notices'[u] = notices[u] /\ vain'[u] = vain[u]
  BY <1>1, <1>2 DEF RemindersInv, TypeOK
<1>4. ~stamped'[t] /\ notices'[t] = 0
  BY <1>2 DEF RemindersInv, TypeOK
<1>5. OneTick'
  BY <1>2, EditNoted DEF RemindersInv, OneTick
<1>6. NoticesStamped' /\ OnceWhileLocked' /\ StampMeansReminded'
  BY <1>2, <1>3, <1>4 DEF RemindersInv, NoticesStamped, OnceWhileLocked, StampMeansReminded
<1>7. ListUnstamped'
  BY <1>2, <1>3, <1>4, EditNoted DEF RemindersInv, ListUnstamped
<1>8. ListOverdue'
  BY <1>2, <1>3, EditNoted DEF RemindersInv, ListOverdue
<1>9. QED
  BY <1>5, <1>6, <1>7, <1>8 DEF RemindersInv

\* A task is completed; a recurring one comes back with its stamp.
LEMMA CompleteKeeps ==
    ASSUME RemindersInv, TypeOK', NEW t \in Tasks, Complete(t)
    PROVE  RemindersInv'
<1>1. CASE t \in Recurring
  <2>1. /\ Postpone(t, due[t] + 1) /\ tick' = Edited(t)
        /\ UNCHANGED <<today, stamped, lock, overran>>
    BY <1>1 DEF Complete
  <2>2. due[t] + 1 \in Nat
    BY DEF RemindersInv, TypeOK
  <2>3. QED
    BY <2>1, <2>2, EditNoted, Postponed
<1>2. CASE t \notin Recurring
  BY <1>2, SameRows DEF Complete, note
<1>3. QED
  BY <1>1, <1>2

\* Every step keeps the invariant.
LEMMA StepReminders ==
    ASSUME RemindersInv, [Next]_vars
    PROVE  RemindersInv'
<1>1. TypeOK'
  BY StepTypes DEF RemindersInv
<1>2. ASSUME NEW w \in Ticks, TryLock(w) \/ Advance(w)
      PROVE  RemindersInv'
  BY <1>1, <1>2, TryLockKeeps, ReadsKeep, CommitKeeps, RollKeeps DEF Advance
<1>3. ASSUME NEW w \in Ticks, Crash(w)
      PROVE  RemindersInv'
  <2>1. Idle.pc = "idle"
    BY DEF Idle
  <2>2. QED
    BY <1>1, <1>3, <2>1, QuietTick DEF Crash, Done, task, note
<1>4. ASSUME NEW t \in Tasks, ChangeStatus(t) \/ Assign(t)
      PROVE  RemindersInv'
  BY <1>1, <1>4, SameRows DEF ChangeStatus, Assign, note
<1>5. ASSUME NEW t \in Tasks, Reschedule(t) \/ Complete(t)
      PROVE  RemindersInv'
  BY <1>1, <1>5, RescheduleKeeps, CompleteKeeps
<1>6. CASE LockExpires
  BY <1>1, <1>6, ExpiryKeeps
<1>7. CASE NextDay
  BY <1>1, <1>7, SameRows DEF NextDay, task, note
<1>8. CASE UNCHANGED vars
  BY <1>1, <1>8, SameRows DEF vars, task, note
<1>9. QED
  BY <1>2, <1>3, <1>4, <1>5, <1>6, <1>7, <1>8 DEF Next, Users

\* The first state.
LEMMA InitReminders ==
    ASSUME Init
    PROVE  RemindersInv
<1>1. TypeOK
  BY InitTypes
<1>2. \A w \in Ticks : tick[w].pc = "idle"
  BY DEF Init, Idle
<1>3. \A t \in Tasks : ~stamped[t] /\ notices[t] = 0
  BY DEF Init
<1>4. OneTick /\ ListUnstamped /\ ListOverdue
  BY <1>2 DEF OneTick, ListUnstamped, ListOverdue, At
<1>5. NoticesStamped /\ OnceWhileLocked /\ StampMeansReminded
  BY <1>3 DEF NoticesStamped, OnceWhileLocked, StampMeansReminded
<1>6. QED
  BY <1>1, <1>4, <1>5 DEF RemindersInv

\* The inductive invariant of the job.
THEOREM RemindersInvariant == Spec => []RemindersInv
<1>1. Init => RemindersInv
  BY InitReminders
<1>2. RemindersInv /\ [Next]_vars => RemindersInv'
  BY StepReminders
<1>3. QED
  BY <1>1, <1>2, PTL DEF Spec

\* While no tick outlives the 55 seconds of its lock, nobody is reminded twice.
THEOREM RemindedOnce == Spec => []OnceWhileLocked
<1>1. RemindersInv => OnceWhileLocked
  BY DEF RemindersInv
<1>2. QED
  BY <1>1, RemindersInvariant, PTL

\* A stamp stands for a reminder of the present date, but for the named ways.
THEOREM StampsAreTrue == Spec => []StampMeansReminded
<1>1. RemindersInv => StampMeansReminded
  BY DEF RemindersInv
<1>2. QED
  BY <1>1, RemindersInvariant, PTL

\* The roll moves overdue tasks only, or ones edited under it.
THEOREM RollsAreDue == Spec => RollsOnlyOverdue
<1>1. RemindersInv /\ [Next]_vars =>
        [\A t \in Tasks, w \in Ticks :
           At(w, "roll") /\ t \in tick[w].list /\ t \notin tick'[w].list /\ due'[t] # due[t]
           => due[t] < today \/ t \in tick[w].edited]_vars
  BY DEF RemindersInv, ListOverdue
<1>2. QED
  BY <1>1, RemindersInvariant, PTL DEF Spec, RollsOnlyOverdue
=============================================================================
