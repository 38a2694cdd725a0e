\* Relations created and removed while their tasks come and go; the checklist of
\* one task while moves and automations complete it.
SPECIFICATION Spec
CONSTANTS
    t1 = t1
    t2 = t2
    t3 = t3
    c1 = c1
    c2 = c2
    Tasks = {t1, t2, t3}
    Clients = {c1, c2}
    NoOne = NoOne
    todo = todo
    done = done
    review = review
    Columns = {todo, review, done}
    Origin = todo
    Layouts = {{done}, {review, done}}
    AutoCols = {review}
    Recurring = {}
    GateTake = 100
    MaxBlocking = 5000
    Ops = {"relate", "unrelate", "create", "trash", "restore", "purge", "move", "bulk",
           "checklist", "reshape", "abort"}
SYMMETRY Symmetry
CONSTRAINT RelationsOrMoves
INVARIANTS
    TypeOK
    SettledGraphAcyclic
    OneRelationPerPair
    NoDanglingRelation
    DoDSatisfied
PROPERTIES
    ImplementsGraph
CHECK_DEADLOCK FALSE
