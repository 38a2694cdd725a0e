\* Moves and bulk moves into done racing with the relations, the trash and the
\* column layout.
SPECIFICATION Spec
CONSTANTS
    t1 = t1
    t2 = t2
    c1 = c1
    c2 = c2
    Tasks = {t1, t2}
    Clients = {c1, c2}
    NoOne = NoOne
    todo = todo
    done = done
    Columns = {todo, done}
    Origin = todo
    Layouts = {{done}, {todo, done}}
    AutoCols = {todo}
    Recurring = {}
    GateTake = 100
    MaxBlocking = 5000
    Ops = {"relate", "move", "bulk", "trash", "restore", "reshape"}
SYMMETRY Symmetry
INVARIANTS
    BlockersFinished
