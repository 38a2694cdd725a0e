\* Moves, reorders, removals and restores racing with each other, and bulk moves
\* racing with moves and creates while two of the tasks recur.
SPECIFICATION Spec
CONSTANTS
    t1 = t1
    t2 = t2
    t3 = t3
    c1 = c1
    c2 = c2
    Tasks = {t1, t2, t3}
    Clients = {c1, c2}
    NoOne = NoOne
    todo = todo
    done = done
    Columns = {todo, done}
    Rank <- MCRank
    Done = done
    Origin = todo
    MaxTangled = 0
    Mixes <- MCMixes
SYMMETRY Symmetry
INVARIANTS
    TypeOK
    UniqueUnlessRaced
PROPERTIES
    OrderKept
    LandsWhereAsked
