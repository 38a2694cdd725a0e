\* More live blockers than the gate reads.
SPECIFICATION Spec
CONSTANTS
    t1 = t1
    t2 = t2
    t3 = t3
    c1 = c1
    Tasks = {t1, t2, t3}
    Clients = {c1}
    NoOne = NoOne
    todo = todo
    done = done
    Columns = {todo, done}
    Origin = todo
    Layouts = {{done}}
    AutoCols = {}
    Recurring = {}
    GateTake = 1
    MaxBlocking = 50
    Ops = {"relate", "move"}
INVARIANTS
    BlockersFinished
