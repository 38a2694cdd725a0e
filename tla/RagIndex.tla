-------------------------------- MODULE RagIndex --------------------------------
(***************************************************************************)
(* The search index of the AI assistant: chunks of the texts of tasks and  *)
(* comments, kept by jobs that run in memory after the request that        *)
(* changed the text has been answered.                                     *)
(*                                                                         *)
(*   ai/rag/rag-index.listener.ts    which event schedules which job       *)
(*   ai/rag/rag-indexer.service.ts   the jobs, statement by statement      *)
(*   ai/rag/rag-chunk.store.ts       rows of rag_chunks                    *)
(*   tasks, comments, trash, boards,                                       *)
(*   forms, import, ai.service.ts    what changes the texts                *)
(*                                                                         *)
(* A chunk is a model value, so equal chunks have equal hashes.  That the  *)
(* chunks of a comment also quote its task's title is left out: renaming   *)
(* the task schedules nothing for its comments.                            *)
(***************************************************************************)
EXTENDS Naturals, Sequences, FiniteSets

CONSTANTS
    Tasks, Comments,
    TaskOf,       \* the task of each comment
    Chunks,       \* contents of chunks
    Texts,        \* the texts a task may have, cut into chunks
    CommentText,  \* the text of each comment, cut into chunks
    None,         \* "no row, no source"
    BatchSize,    \* RAG_EMBED_BATCH_SIZE
    Slots,        \* jobs that may be pending or running at once
    MaxEdits,     \* how many changes users make (bounds an instance)
    MaxFaults,    \* how many jobs break or are refused (bounds an instance)
    Ops           \* what may happen (bounds an instance)

Sources    == Tasks \cup Comments
Operations == {"save", "file", "comment", "trash", "restore", "purge", "cascade",
               "reindex", "refuse", "break"}

ASSUME RagConstants ==
    /\ IsFiniteSet(Tasks) /\ IsFiniteSet(Comments) /\ IsFiniteSet(Slots)
    /\ Tasks \cap Comments = {} /\ None \notin Sources
    /\ None \notin [id : Nat, chunk : Chunks]
    /\ TaskOf \in [Comments -> Tasks]
    /\ IsFiniteSet(Texts) /\ Texts # {} /\ Texts \subseteq Seq(Chunks)
    /\ CommentText \in [Comments -> Seq(Chunks) \ {<<>>}]
    /\ BatchSize \in Nat \ {0}
    /\ MaxEdits \in Nat /\ MaxFaults \in Nat /\ Ops \subseteq Operations

VARIABLES
    status,   \* of each task: "none" | "live" | "trashed" | "gone"
    text,     \* title and description of each task
    written,  \* the comments that exist
    index,    \* rag_chunks: the row of each source at each place
    job,      \* the state of each job
    edits, faults,
    doubt     \* history: why the index of a source may be wrong

vars == <<status, text, written, index, job, edits, faults, doubt>>
data == <<status, text, written>>

AllTexts == Texts \cup {CommentText[c] : c \in Comments}
Places   == 1 .. (CHOOSE n \in {Len(x) : x \in AllTexts} : \A x \in AllTexts : Len(x) <= n)

CommentsOf(t) == {c \in Comments : TaskOf[c] = t}

\* A source that has a text, and that text.
Present(s) == IF s \in Tasks THEN status[s] = "live"
                             ELSE s \in written /\ status[TaskOf[s]] = "live"
TextOf(s)  == IF s \in Tasks THEN text[s] ELSE CommentText[s]
Wanted(s)  == IF Present(s) THEN TextOf(s) ELSE <<>>

-----------------------------------------------------------------------------
(* Jobs *)

Steps == {"idle", "wipe", "listTasks", "listComments", "read", "list", "embed",
          "store", "stale", "dropTask", "dropComments", "dropSource"}

\* queue: sources still to be read; seen: rows as listExisting returned them;
\* todo: places to embed, batch: places whose embedding is to be stored.
NoRows == [i \in Places |-> None]
Idle   == [pc |-> "idle", queue |-> {}, src |-> None, chunks |-> <<>>, seen |-> NoRows,
           todo |-> {}, batch |-> {}, wrote |-> FALSE, raced |-> FALSE]

At(j, pc) == job[j].pc = pc
Go(j, pc) == [job EXCEPT ![j].pc = pc]

\* On to the next source of a reindexing, or finished.
Finished(j) == [job EXCEPT ![j] = [Idle EXCEPT
                   !.queue = job[j].queue,
                   !.pc = IF job[j].queue = {} THEN "idle" ELSE "read"]]

\* defer(): the job starts some time after its event.
Schedule(pc, src, queue) == \E j \in Slots :
    /\ At(j, "idle")
    /\ job' = [job EXCEPT ![j] = [Idle EXCEPT !.pc = pc, !.src = src, !.queue = queue]]

\* The job has read the text of s and not yet finished with its chunks.
Working(j, s) == job[j].src = s /\ job[j].pc \in {"list", "embed", "store", "stale"}

\* The sources a pending or running job is going to bring up to date.
Concerns(j) == job[j].queue \cup
    CASE job[j].pc = "dropTask"     -> {job[j].src} \cup CommentsOf(job[j].src)
      [] job[j].pc = "dropComments" -> CommentsOf(job[j].src)
      [] OTHER                      -> {job[j].src} \ {None}

Quiet(s) == \A j \in Slots : s \notin Concerns(j)

\* Every job at work on one of the sources ss notices that it was overtaken.
Overtaken(jobs, ss) == [j \in Slots |-> IF \E s \in ss : Working(j, s)
                                        THEN [jobs[j] EXCEPT !.raced = TRUE] ELSE jobs[j]]

Cleared(ss) == [s \in Sources |-> IF s \in ss THEN NoRows ELSE index[s]]

\* After the rows of ss were deleted: right, unless s has a text or a job at
\* work on s may still write.
DoubtAfterDrop(ss) == [s \in Sources |->
    IF s \notin ss THEN doubt[s]
    ELSE IF Wanted(s) # <<>> \/ \E j \in Slots : Working(j, s)
    THEN doubt[s] \cup {"raced"} ELSE {}]

-----------------------------------------------------------------------------
(* deleteTaskIndex, deleteSource *)

DropTask(j) ==
    /\ At(j, "dropTask")
    /\ index' = Cleared({job[j].src})
    /\ doubt' = DoubtAfterDrop({job[j].src})
    /\ job' = Overtaken(Go(j, "dropComments"), {job[j].src})
    /\ UNCHANGED <<data, edits, faults>>

\* Mutant: the rows of the comments are left.
CommentRowsNone(t) == {}

\* By the taskId in their metadata.
CommentRows(t) == CommentsOf(t)

DropComments(j) ==
    LET cs == CommentRows(job[j].src) IN
    /\ At(j, "dropComments")
    /\ index' = Cleared(cs)
    /\ doubt' = DoubtAfterDrop(CommentsOf(job[j].src))
    /\ job' = Overtaken(Finished(j), cs)
    /\ UNCHANGED <<data, edits, faults>>

DropSource(j) ==
    /\ At(j, "dropSource")
    /\ index' = Cleared({job[j].src})
    /\ doubt' = DoubtAfterDrop({job[j].src})
    /\ job' = Overtaken(Finished(j), {job[j].src})
    /\ UNCHANGED <<data, edits, faults>>

-----------------------------------------------------------------------------
(* upsertTask, upsertComment, replaceSourceChunks *)

\* Tasks before comments, in no given order.
NextSources(j) == IF job[j].queue \cap Tasks # {} THEN job[j].queue \cap Tasks
                                                  ELSE job[j].queue

\* The text is read; without one the rows go.
ReadSource(j) == \E s \in NextSources(j) :
    LET others == {k \in Slots : Working(k, s)}
        started == [job[j] EXCEPT !.queue = @ \ {s}, !.src = s, !.chunks = TextOf(s)] IN
    /\ At(j, "read")
    /\ IF Wanted(s) = <<>>
       THEN /\ job' = [job EXCEPT ![j] = [started EXCEPT !.pc =
                          IF s \in Tasks /\ ~Present(s) THEN "dropTask" ELSE "dropSource"]]
            /\ UNCHANGED doubt
       ELSE /\ job' = [Overtaken(job, {s}) EXCEPT ![j] =
                          [started EXCEPT !.pc = "list", !.raced = others # {}]]
            /\ doubt' = IF others = {} THEN doubt ELSE [doubt EXCEPT ![s] = @ \cup {"raced"}]
    /\ UNCHANGED <<data, index, edits, faults>>

Doubted(ss, why) == [s \in Sources |-> IF s \in ss THEN doubt[s] \cup why ELSE doubt[s]]

\* No embeddings: credentials missing, or a request to the provider failed.
\* The rest of this source is given up, without an error.
Refuse(j) ==
    /\ "refuse" \in Ops /\ faults < MaxFaults
    /\ At(j, "list") \/ (At(j, "embed") /\ job[j].todo # {})
    /\ faults' = faults + 1
    /\ doubt' = Doubted({job[j].src}, {"refused"} \cup IF job[j].wrote THEN {"partial"} ELSE {})
    /\ job' = Finished(j)
    /\ UNCHANGED <<data, index, edits>>

\* Mutant: a place that has a row is taken for unchanged.
ToEmbedMissing(chunks, rows) == {i \in 1 .. Len(chunks) : rows[i] = None}

\* Places whose row is missing or has another hash.
ToEmbed(chunks, rows) ==
    {i \in 1 .. Len(chunks) : rows[i] = None \/ rows[i].chunk # chunks[i]}

ListExisting(j) ==
    LET rows == index[job[j].src] IN
    /\ At(j, "list")
    /\ job' = [job EXCEPT ![j].pc = "embed", ![j].seen = rows,
                          ![j].todo = ToEmbed(job[j].chunks, rows)]
    /\ UNCHANGED <<data, index, edits, faults, doubt>>

\* createEmbeddings for the first of the places left.
EmbedBatch(j) ==
    LET todo  == job[j].todo
        batch == {i \in todo : Cardinality({k \in todo : k < i}) < BatchSize} IN
    /\ At(j, "embed")
    /\ job' = IF todo = {} THEN Go(j, "stale")
              ELSE [job EXCEPT ![j].pc = "store", ![j].todo = todo \ batch, ![j].batch = batch]
    /\ UNCHANGED <<data, index, edits, faults, doubt>>

\* An id that no row of s has or had when a job listed it.
NewId(s) ==
    LET rows == {index[s][i] : i \in Places}
                \cup {job[k].seen[i] : k \in {m \in Slots : job[m].src = s}, i \in Places}
        used == {r.id : r \in rows \ {None}}
    IN CHOOSE n \in 0 .. Cardinality(used) : n \notin used

\* Mutant: the id of the listed row, or none.
IdForListedOnly(s, row) == IF row = None THEN None ELSE row.id

IdFor(s, row) == IF row = None THEN NewId(s) ELSE row.id

\* INSERT ... ON CONFLICT (source, place) DO UPDATE: a row there keeps its id.
StoreChunk(j) ==
    LET s == job[j].src
        i == CHOOSE p \in job[j].batch : \A q \in job[j].batch : p <= q
        row == index[s][i]
        rest == job[j].batch \ {i} IN
    /\ At(j, "store")
    /\ index' = [index EXCEPT ![s][i] =
          [id |-> IF row # None THEN row.id ELSE IdFor(s, job[j].seen[i]),
           chunk |-> job[j].chunks[i]]]
    /\ job' = [job EXCEPT ![j].batch = rest, ![j].wrote = TRUE,
                          ![j].pc = IF rest = {} THEN "embed" ELSE "store"]
    /\ UNCHANGED <<data, edits, faults, doubt>>

\* Mutant: rows beyond the new text are kept.
StaleKept(chunks, rows) == {}

\* Ids of the listed rows beyond the end of the text.
Stale(chunks, rows) == {rows[i].id : i \in {p \in Places : p > Len(chunks) /\ rows[p] # None}}

DeleteStale(j) ==
    LET s == job[j].src
        stale == Stale(job[j].chunks, job[j].seen) IN
    /\ At(j, "stale")
    /\ index' = [index EXCEPT ![s] = [i \in Places |->
          IF @[i] # None /\ @[i].id \in stale THEN None ELSE @[i]]]
    /\ doubt' = IF job[j].raced THEN doubt ELSE [doubt EXCEPT ![s] = {}]
    /\ job' = Finished(j)
    /\ UNCHANGED <<data, edits, faults>>

-----------------------------------------------------------------------------
(* reindexWorkspace *)

Wipe(j) ==
    /\ At(j, "wipe")
    /\ index' = Cleared(Sources)
    /\ doubt' = [s \in Sources |-> IF Wanted(s) = <<>> \/ \E k \in Slots : Working(k, s)
                                   THEN DoubtAfterDrop(Sources)[s] ELSE doubt[s]]
    /\ job' = Overtaken(Go(j, "listTasks"), Sources)
    /\ UNCHANGED <<data, edits, faults>>

\* Live tasks, then comments of live tasks, each by a query of its own.
ListTasks(j) ==
    /\ At(j, "listTasks")
    /\ job' = [job EXCEPT ![j].pc = "listComments",
                          ![j].queue = {s \in @ : s \in Tasks => Present(s)}]
    /\ UNCHANGED <<data, index, edits, faults, doubt>>

ListComments(j) ==
    LET found == {s \in job[j].queue : s \in Comments => Present(s)} IN
    /\ At(j, "listComments")
    /\ job' = [job EXCEPT ![j] = [Idle EXCEPT !.queue = found,
                                    !.pc = IF found = {} THEN "idle" ELSE "read"]]
    /\ UNCHANGED <<data, index, edits, faults, doubt>>

\* An error of the database ends a job, an end of the process all of them; a
\* reindexing ends with the source it is at.
Break(j) ==
    /\ "break" \in Ops /\ faults < MaxFaults /\ ~At(j, "idle")
    /\ faults' = faults + 1
    /\ doubt' = [s \in Sources |-> Doubted(Concerns(j), {"lost"})[s] \cup
                    IF job[j].wrote /\ s = job[j].src THEN {"partial"} ELSE {}]
    /\ job' = [Overtaken(job, Concerns(j)) EXCEPT ![j] = Idle]
    /\ UNCHANGED <<data, index, edits>>

-----------------------------------------------------------------------------
(* What changes the texts, and the jobs its events schedule *)

Edit(op) == op \in Ops /\ edits < MaxEdits /\ edits' = edits + 1

\* create, duplicate and update: TASK_CHANGED.
SaveTask(t) == \E x \in Texts :
    /\ Edit("save") /\ status[t] \in {"none", "live"}
    /\ status' = [status EXCEPT ![t] = "live"]
    /\ text' = [text EXCEPT ![t] = x]
    /\ Schedule("read", None, {t})
    /\ UNCHANGED <<written, index, faults, doubt>>

\* A public form, an import, a recurrence by DUPLICATE and the breakdown of an
\* epic create tasks without an event.
FileTask(t) == \E x \in Texts :
    /\ Edit("file") /\ status[t] = "none"
    /\ status' = [status EXCEPT ![t] = "live"]
    /\ text' = [text EXCEPT ![t] = x]
    /\ doubt' = Doubted({t}, {"missed"})
    /\ UNCHANGED <<written, index, job, faults>>

\* TASK_SOFT_DELETED.
TrashTask(t) ==
    /\ Edit("trash") /\ status[t] = "live"
    /\ status' = [status EXCEPT ![t] = "trashed"]
    /\ Schedule("dropTask", t, {})
    /\ UNCHANGED <<text, written, index, faults, doubt>>

\* restore emits no event the indexer listens to.
RestoreTask(t) ==
    /\ Edit("restore") /\ status[t] = "trashed"
    /\ status' = [status EXCEPT ![t] = "live"]
    /\ doubt' = Doubted({t} \cup CommentsOf(t), {"missed"})
    /\ UNCHANGED <<text, written, index, job, faults>>

\* purge neither; the comments go with the task.
PurgeTask(t) ==
    /\ Edit("purge") /\ status[t] = "trashed"
    /\ status' = [status EXCEPT ![t] = "gone"]
    /\ written' = written \ CommentsOf(t)
    /\ UNCHANGED <<text, index, job, faults, doubt>>

\* deleteColumn and deleteBoard take live tasks with them, without an event.
CascadeTask(t) ==
    /\ Edit("cascade") /\ status[t] \in {"live", "trashed"}
    /\ status' = [status EXCEPT ![t] = "gone"]
    /\ written' = written \ CommentsOf(t)
    /\ doubt' = Doubted({t} \cup CommentsOf(t),
                        IF status[t] = "live" THEN {"orphaned"} ELSE {})
    /\ job' = Overtaken(job, {t} \cup CommentsOf(t))
    /\ UNCHANGED <<text, index, faults>>

\* COMMENT_CREATED, COMMENT_DELETED.
WriteComment(c) ==
    /\ Edit("comment") /\ status[TaskOf[c]] = "live" /\ c \notin written
    /\ written' = written \cup {c}
    /\ Schedule("read", None, {c})
    /\ UNCHANGED <<status, text, index, faults, doubt>>

RemoveComment(c) ==
    /\ Edit("comment") /\ status[TaskOf[c]] = "live" /\ c \in written
    /\ written' = written \ {c}
    /\ Schedule("dropSource", c, {})
    /\ UNCHANGED <<status, text, index, faults, doubt>>

RequestReindex ==
    /\ Edit("reindex")
    /\ Schedule("wipe", None, Sources)
    /\ UNCHANGED <<data, index, faults, doubt>>

-----------------------------------------------------------------------------
\* Rows for a text nobody has touched since it was indexed.
Indexed(x) == [i \in Places |-> IF i <= Len(x) THEN [id |-> i, chunk |-> x[i]] ELSE None]

Init ==
    /\ status \in [Tasks -> {"none", "live"}]
    /\ text \in [Tasks -> Texts]
    /\ written \in SUBSET {c \in Comments : status[TaskOf[c]] = "live"}
    /\ index = [s \in Sources |-> Indexed(Wanted(s))]
    /\ job = [j \in Slots |-> Idle]
    /\ edits = 0 /\ faults = 0
    /\ doubt = [s \in Sources |-> {}]

Drop(j)    == DropTask(j) \/ DropComments(j) \/ DropSource(j)
Replace(j) == \/ ReadSource(j) \/ ListExisting(j) \/ EmbedBatch(j) \/ StoreChunk(j)
              \/ DeleteStale(j)
Reindex(j) == Wipe(j) \/ ListTasks(j) \/ ListComments(j)
Users      == \/ \E t \in Tasks : \/ SaveTask(t) \/ FileTask(t) \/ TrashTask(t) \/ RestoreTask(t)
                                  \/ PurgeTask(t) \/ CascadeTask(t)
              \/ \E c \in Comments : WriteComment(c) \/ RemoveComment(c)
              \/ RequestReindex

Next == \/ \E j \in Slots : Drop(j) \/ Replace(j) \/ Reindex(j) \/ Refuse(j) \/ Break(j)
        \/ Users

Spec == Init /\ [][Next]_vars

-----------------------------------------------------------------------------
(* Properties *)

Row    == [id : Nat, chunk : Chunks]
Rows   == [Places -> Row \cup {None}]
Job    == [pc : Steps, queue : SUBSET Sources, src : Sources \cup {None},
           chunks : AllTexts \cup {<<>>}, seen : Rows, todo : SUBSET Places,
           batch : SUBSET Places, wrote : BOOLEAN, raced : BOOLEAN]
Doubts == {"raced", "refused", "partial", "lost", "missed", "orphaned"}

\* Every variable has its type; in particular every row has an id.
TypeOK ==
    /\ status \in [Tasks -> {"none", "live", "trashed", "gone"}]
    /\ text \in [Tasks -> Texts]
    /\ written \subseteq Comments
    /\ index \in [Sources -> Rows]
    /\ job \in [Slots -> Job]
    /\ edits \in Nat /\ faults \in Nat
    /\ doubt \in [Sources -> SUBSET Doubts]

\* The rows of s are exactly the chunks of x, in their places.
Holds(s, x) == \A i \in Places :
    IF i <= Len(x) THEN index[s][i] # None /\ index[s][i].chunk = x[i] ELSE index[s][i] = None

\* When no job is left for a source, its rows are its current text, whatever
\* the order in which edits, jobs, deletions and reindexings ran, unless one of
\* six things happened to it and no job ran undisturbed since: two jobs
\* overlapped or a deletion came late, the provider refused, half of a text was
\* written, a job was lost, it came to be without an event (a task from a form,
\* an import, a recurrence or an epic, or one back from the trash), or its board
\* or column was deleted.
SettledIndex == \A s \in Sources : Quiet(s) /\ doubt[s] = {} => Holds(s, Wanted(s))

\* What is deleted stays findable only after a race, a lost job or the deletion
\* of a whole column or board: a refusing provider, a half-written text or an
\* earlier restore never leave rows of a dead task or comment behind.
NoGhosts == \A s \in Sources :
    Quiet(s) /\ ~Present(s) /\ doubt[s] \cap {"raced", "lost", "orphaned"} = {}
        => Holds(s, <<>>)

\* The rows of a source are never a mixture of two of its texts, except after a
\* race or when a job ended half-way: outdated rows are outdated together.
Whole == \A s \in Sources :
    Quiet(s) /\ doubt[s] \cap {"raced", "partial"} = {}
        => \/ Holds(s, <<>>)
           \/ \E x \in IF s \in Tasks THEN Texts ELSE {CommentText[s]} : Holds(s, x)
=============================================================================
