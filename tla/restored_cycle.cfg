\* A relation created while one of the tasks of its cycle is in the trash.
SPECIFICATION Spec
CONSTANTS
    t1 = t1
    t2 = t2
    t3 = t3
    c1 = c1
    Tasks = {t1, t2, t3}
    Clients = {c1}
    NoOne = NoOne
    todo = todo
    done = done
    Columns = {todo, done}
    Origin = todo
    Layouts = {{done}}
    AutoCols = {}
    Recurring = {}
    GateTake = 100
    MaxBlocking = 5000
    Ops = {"relate", "unrelate", "trash", "restore", "purge"}
SYMMETRY Symmetry
INVARIANTS
    LiveGraphAcyclic
CHECK_DEADLOCK FALSE
