\* Columns and boards, stages and funnels, deleted and rearranged while tasks and
\* deals come and go.
SPECIFICATION Spec
CONSTANTS
    c1 = c1
    c2 = c2
    Clients = {c1, c2}
    i1 = i1
    Items = {i1}
    None = None
    MaxBoards = 2
    MaxLanes = 4
    Starts <- MCStarts
    MaxRequests = 4
    Ops = {"board", "unboard", "lane", "delete", "move", "default", "add", "carry",
           "trash", "restore", "purge", "submit", "import", "abort"}
SYMMETRY Symmetry
INVARIANTS
    TypeOK
    LastOnesKept
    TrashKept
    AnswersFiled
PROPERTIES
    Mends
CHECK_DEADLOCK FALSE
