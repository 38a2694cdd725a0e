\* Bulk moves, relation inserts and recurrences waiting for each other's locks.
SPECIFICATION FairSpec
CONSTANTS
    t1 = t1
    t2 = t2
    c1 = c1
    c2 = c2
    Tasks = {t1, t2}
    Clients = {c1, c2}
    NoOne = NoOne
    todo = todo
    done = done
    Columns = {todo, done}
    Origin = todo
    Layouts = {{done}}
    AutoCols = {}
    Recurring = {t1}
    GateTake = 100
    MaxBlocking = 5000
    Ops = {"relate", "bulk", "abort"}
PROPERTIES
    RequestsAnswered
