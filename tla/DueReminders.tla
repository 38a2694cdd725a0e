------------------------------ MODULE DueReminders ------------------------------
(***************************************************************************)
(* The due-reminder job of the backend and the users who change the tasks  *)
(* under it.                                                               *)
(*                                                                         *)
(*   notifications/due-reminders.service.ts   tick: the lock in Redis, the *)
(*                     reminders, the rolling over of overdue tasks        *)
(*   tasks/tasks.service.ts                   update, recurrence           *)
(*   trash/trash.service.ts                   trash, restore, purge        *)
(*                                                                         *)
(* Time is counted in days, due dates are midnights: on day n a task due   *)
(* at midnight n + 1 is within the reminder's 24 hours, and one due before *)
(* midnight n is overdue.  A tick is a run of timer callbacks of some      *)
(* replica; timers do not wait for the tick before, so ticks may overlap.  *)
(* The mail that follows each notification leaves no trace in the state.   *)
(***************************************************************************)
EXTENDS Integers, FiniteSets

CONSTANTS
    Tasks,       \* task rows of workspaces with autoRollOverdue
    Ticks,       \* ticks that may run at the same time
    BatchSize,   \* BATCH_SIZE of syncBatch
    Recurring,   \* tasks that recur daily by MOVE_TASK
    LastDay,     \* the last day (bounds an instance)
    MaxEdits,    \* how many changes users make (bounds an instance)
    MaxCrashes   \* how many ticks die half-way (bounds an instance)

ASSUME RemindersConstants ==
    /\ IsFiniteSet(Tasks) /\ IsFiniteSet(Ticks)
    /\ Recurring \subseteq Tasks
    /\ BatchSize \in Nat \ {0}
    /\ LastDay \in Nat /\ MaxEdits \in Nat /\ MaxCrashes \in Nat

VARIABLES
    today,     \* the day it is
    status,    \* "open" | "done" (completedAt) | "trashed" (deletedAt) | "purged"
    due,       \* Task.dueDate
    assignee,  \* "none" | "member" | "gone" (no longer in the workspace)
    stamped,   \* Task.dueReminderSentAt is set
    lock,      \* the Redis key jobs:due-reminders:tick exists
    tick,      \* the state of each tick
    edits,     \* how many changes users made
    crashes,   \* how many ticks died
    notices,   \* history: reminders of a task's current due date (counted up to 2)
    vain,      \* history: the stamp is older than the due date, or came too late
    overran    \* history: the lock expired while its tick was still running

task == <<status, due, assignee, stamped>>
note == <<notices, vain>>
vars == <<today, task, lock, tick, edits, crashes, note, overran>>

Stages == {"idle", "sync", "remind", "overdue", "roll"}
Tick   == [pc : Stages, list : SUBSET Tasks, edited : SUBSET Tasks, day : Nat]
Idle   == [pc |-> "idle", list |-> {}, edited |-> {}, day |-> 0]

At(w, pc) == tick[w].pc = pc
Go(w, pc) == tick' = [tick EXCEPT ![w] = [Idle EXCEPT !.pc = pc]]
Done(w)   == tick' = [tick EXCEPT ![w] = Idle]

-----------------------------------------------------------------------------
(* The job *)

\* Mutant: the lock is set whether it exists or not (no NX).
TryLockBlindly(w) ==
    /\ At(w, "idle")
    /\ lock' = TRUE
    /\ Go(w, "sync")
    /\ UNCHANGED <<today, task, edits, crashes, note, overran>>

\* SET ... EX 55 NX; a tick that does not get the lock does nothing.
TryLock(w) ==
    /\ At(w, "idle") /\ ~lock
    /\ lock' = TRUE
    /\ Go(w, "sync")
    /\ UNCHANGED <<today, task, edits, crashes, note, overran>>

Busy == \E w \in Ticks : ~At(w, "idle")

\* Mutant: the lock has no time to live.
LockKept == lock /\ FALSE /\ UNCHANGED vars

\* The time to live is over, and so is the tick as a rule: nobody releases it.
LockExpires ==
    /\ lock
    /\ lock' = FALSE
    /\ overran' = (overran \/ Busy)
    /\ UNCHANGED <<today, task, tick, edits, crashes, note>>

Remindable(t) == /\ status[t] = "open" /\ assignee[t] # "none"
                 /\ due[t] = today + 1 /\ ~stamped[t]

\* A batch of tasks is read, and of those the ones whose assignee is a member
\* are kept.
SyncBatch(w) ==
    LET found == {t \in Tasks : Remindable(t)} IN
    /\ At(w, "sync")
    /\ \E batch \in SUBSET found :
        /\ Cardinality(batch) <= BatchSize
        /\ batch # found => Cardinality(batch) = BatchSize
        /\ LET kept == {t \in batch : assignee[t] = "member"}
           IN tick' = [tick EXCEPT ![w] = [Idle EXCEPT
                         !.pc = IF kept = {} THEN "overdue" ELSE "remind", !.list = kept]]
    /\ UNCHANGED <<today, task, lock, edits, crashes, note, overran>>

\* One transaction: the notifications and the stamps, by id.  A task purged
\* meanwhile breaks it, and with it the tick.
CommitReminders(w) ==
    LET list == tick[w].list
        old  == tick[w].edited IN
    /\ At(w, "remind")
    /\ IF \E t \in list : status[t] = "purged"
       THEN Done(w) /\ UNCHANGED <<stamped, notices, vain>>
       ELSE /\ stamped' = [t \in Tasks |-> stamped[t] \/ t \in list]
            /\ notices' = [t \in Tasks |-> IF t \in list \ old /\ notices[t] < 2
                                           THEN notices[t] + 1 ELSE notices[t]]
            /\ vain' = [t \in Tasks |-> vain[t] \/ t \in list \cap old]
            /\ Go(w, "overdue")
    /\ UNCHANGED <<today, status, due, assignee, lock, edits, crashes, overran>>

\* Mutant: a task due today counts as overdue.
OverdueEarly(t) == status[t] = "open" /\ due[t] <= today

Overdue(t) == status[t] = "open" /\ due[t] < today

\* rollOverdueBatch reads the overdue tasks; nextRolledDueDate is tomorrow.
ReadOverdue(w) ==
    LET late == {t \in Tasks : Overdue(t)} IN
    /\ At(w, "overdue")
    /\ tick' = [tick EXCEPT ![w] = IF late = {} THEN Idle
                  ELSE [Idle EXCEPT !.pc = "roll", !.list = late, !.day = today + 1]]
    /\ UNCHANGED <<today, task, lock, edits, crashes, note, overran>>

\* The due date of t becomes d: what ticks have read of t is outdated.
Edited(t) == [w \in Ticks |-> IF t \in tick[w].list
                              THEN [tick[w] EXCEPT !.edited = @ \cup {t}] ELSE tick[w]]

\* Mutant: the days are subtracted.
PostponeBackwards(t, d) ==
    /\ due' = [due EXCEPT ![t] = 2 * due[t] - d]
    /\ notices' = [notices EXCEPT ![t] = 0]
    /\ vain' = [vain EXCEPT ![t] = @ \/ stamped[t]]

\* Without touching the stamp.
Postpone(t, d) ==
    /\ due' = [due EXCEPT ![t] = d]
    /\ notices' = [notices EXCEPT ![t] = IF d = due[t] THEN @ ELSE 0]
    /\ vain' = [vain EXCEPT ![t] = @ \/ (stamped[t] /\ d # due[t])]

\* The updates go out together, by id, each on its own.
RollTask(w) == \E t \in tick[w].list :
    LET rest == tick[w].list \ {t}
        mine == IF rest = {} THEN Idle ELSE [tick[w] EXCEPT !.list = rest]
    IN /\ At(w, "roll")
       /\ IF status[t] = "purged"
          THEN tick' = [tick EXCEPT ![w] = mine] /\ UNCHANGED <<due, note>>
          ELSE Postpone(t, tick[w].day) /\ tick' = [Edited(t) EXCEPT ![w] = mine]
       /\ UNCHANGED <<today, status, assignee, stamped, lock, edits, crashes, overran>>

\* The process dies; its lock stays until it expires.
Crash(w) ==
    /\ ~At(w, "idle") /\ crashes < MaxCrashes
    /\ crashes' = crashes + 1
    /\ Done(w)
    /\ UNCHANGED <<today, task, lock, edits, note, overran>>

-----------------------------------------------------------------------------
(* The users *)

Edit == edits < MaxEdits /\ edits' = edits + 1

\* Mutant: the stamp of the old due date stays.
UnstampedNot(t) == stamped

Unstamped(t) == [stamped EXCEPT ![t] = FALSE]

\* TasksService.update with a due date.
Reschedule(t) == \E d \in today .. LastDay + 1 :
    /\ Edit /\ status[t] \in {"open", "done"}
    /\ due' = [due EXCEPT ![t] = d]
    /\ stamped' = Unstamped(t)
    /\ notices' = [notices EXCEPT ![t] = 0]
    /\ vain' = [vain EXCEPT ![t] = FALSE]
    /\ tick' = Edited(t)
    /\ UNCHANGED <<today, status, assignee, lock, crashes, overran>>

\* Into a done column: a recurring task comes back with its next date.
Complete(t) ==
    /\ Edit /\ status[t] = "open"
    /\ IF t \in Recurring
       THEN /\ due[t] <= LastDay
            /\ Postpone(t, due[t] + 1) /\ tick' = Edited(t) /\ UNCHANGED status
       ELSE /\ status' = [status EXCEPT ![t] = "done"]
            /\ UNCHANGED <<due, note, tick>>
    /\ UNCHANGED <<today, assignee, stamped, lock, crashes, overran>>

\* Out of the done column, into the trash, out of it, for good.
ChangeStatus(t) == \E to \in {"open", "trashed", "purged"} :
    /\ Edit
    /\ CASE to = "open"    -> status[t] \in {"done", "trashed"}
         [] to = "trashed" -> status[t] \in {"open", "done"}
         [] to = "purged"  -> status[t] = "trashed"
    /\ status' = [status EXCEPT ![t] = to]
    /\ UNCHANGED <<today, due, assignee, stamped, lock, tick, crashes, note, overran>>

\* The assignee is set, removed, or turns out to have left the workspace.
Assign(t) == \E a \in {"none", "member", "gone"} \ {assignee[t]} :
    /\ Edit /\ status[t] \in {"open", "done"}
    /\ assignee' = [assignee EXCEPT ![t] = a]
    /\ UNCHANGED <<today, status, due, stamped, lock, tick, crashes, note, overran>>

NextDay ==
    /\ today < LastDay
    /\ today' = today + 1
    /\ UNCHANGED <<task, lock, tick, edits, crashes, note, overran>>

-----------------------------------------------------------------------------
Init ==
    /\ today = 0
    /\ status = [t \in Tasks |-> "open"]
    /\ due \in [Tasks -> 0 .. LastDay]
    /\ assignee = [t \in Tasks |-> "member"]
    /\ stamped = [t \in Tasks |-> FALSE]
    /\ lock = FALSE
    /\ tick = [w \in Ticks |-> Idle]
    /\ edits = 0 /\ crashes = 0
    /\ notices = [t \in Tasks |-> 0]
    /\ vain = [t \in Tasks |-> FALSE]
    /\ overran = FALSE

Advance(w) == SyncBatch(w) \/ CommitReminders(w) \/ ReadOverdue(w) \/ RollTask(w)
Users      == \E t \in Tasks : Reschedule(t) \/ Complete(t) \/ ChangeStatus(t) \/ Assign(t)

Next ==
    \/ \E w \in Ticks : TryLock(w) \/ Advance(w) \/ Crash(w)
    \/ LockExpires \/ Users \/ NextDay

\* The timer fires every minute, a running tick goes on, Redis drops the key.
Fairness ==
    /\ WF_vars(\E w \in Ticks : TryLock(w))
    /\ \A w \in Ticks : WF_vars(Advance(w))
    /\ WF_vars(LockExpires)

Spec == Init /\ [][Next]_vars /\ Fairness

-----------------------------------------------------------------------------
(* Properties *)

\* Every variable has its type.
TypeOK ==
    /\ today \in Nat /\ edits \in Nat /\ crashes \in Nat
    /\ status \in [Tasks -> {"open", "done", "trashed", "purged"}]
    /\ due \in [Tasks -> Nat]
    /\ assignee \in [Tasks -> {"none", "member", "gone"}]
    /\ stamped \in [Tasks -> BOOLEAN]
    /\ lock \in BOOLEAN /\ overran \in BOOLEAN
    /\ tick \in [Ticks -> Tick]
    /\ notices \in [Tasks -> 0 .. 2]
    /\ vain \in [Tasks -> BOOLEAN]

\* As long as no tick has outlived its lock, nobody is reminded twice of the
\* same due date: two ticks never hold the same task, crashes included.
OnceWhileLocked == ~overran => \A t \in Tasks : notices[t] < 2

\* A task that is stamped was reminded of the due date it has now, unless the
\* date was moved on by the roll or by a recurrence, which keep the stamp, or
\* was changed after the tick had read it.
StampMeansReminded == \A t \in Tasks : stamped[t] => notices[t] > 0 \/ vain[t]

\* Only an overdue task is rolled, unless someone gave it a new date after the
\* tick had read it.
RollsOnlyOverdue ==
    [][\A t \in Tasks, w \in Ticks :
         At(w, "roll") /\ t \in tick[w].list /\ t \notin tick'[w].list /\ due'[t] # due[t]
         => due[t] < today \/ t \in tick[w].edited]_vars

Missing(t) == Remindable(t) /\ assignee[t] = "member"

\* As many tasks of former members as a batch holds are due as well: syncBatch
\* reads them again and again.
Crowded == Cardinality({t \in Tasks : Remindable(t) /\ assignee[t] = "gone"}) >= BatchSize

\* A task due within a day is reminded, if it stays due long enough: ticks that
\* die, overrun or fail on a purged task are made up for by later ones.
Reminded == \A t \in Tasks : Missing(t) ~> ~Missing(t) \/ Crowded
=============================================================================
