\* Overlapping ticks, their lock, and users who change the tasks meanwhile.
SPECIFICATION Spec
CONSTANTS
    Tasks = {t1, t2}
    Ticks = {w1, w2}
    BatchSize = 1
    Recurring = {t1}
    LastDay = 1
    MaxEdits = 2
    MaxCrashes = 1
INVARIANTS
    TypeOK
    OnceWhileLocked
    StampMeansReminded
PROPERTIES
    RollsOnlyOverdue
    Reminded
