\* Overlapping index jobs for a task and its comment.
SPECIFICATION Spec
CONSTANTS
    t1 = t1
    c1 = c1
    a = a
    b = b
    d = d
    Tasks = {t1}
    Comments = {c1}
    TaskOf <- MCTaskOf
    Chunks = {a, b, d}
    Texts <- MCTexts
    CommentText <- MCCommentText
    None = None
    BatchSize = 1
    Slots = {j1, j2}
    MaxEdits = 3
    MaxFaults = 2
    Ops = {"save", "file", "comment", "trash", "restore", "purge", "cascade", "reindex", "refuse", "break"}
SYMMETRY Symmetry
INVARIANTS
    TypeOK
    SettledIndex
    NoGhosts
    Whole
CHECK_DEADLOCK FALSE
