------------------------------- MODULE FileImport -------------------------------
(***************************************************************************)
(* The import of a zip archive of md and html files as a tree of pages: the *)
(* request that stores the archive and queues the task, the job with its    *)
(* one attempt, which BullMQ takes up again when its process has stopped,   *)
(* and the algorithm that turns paths into pages.  In a Notion archive file *)
(* names end in an id, and of folders only those whose name is not unique   *)
(* have a part of it.                                                       *)
(***************************************************************************)
EXTENDS Naturals, Sequences, FiniteSets

CONSTANTS
    Archives,   \* what may be imported: [source, files]
    Stalls,     \* how often a job is taken up again (BullMQ: maxStalledCount)
    Nil

VARIABLES
    archive,    \* the archive of this behaviour
    req,        \* how far the request has come
    status,     \* file_tasks.status; Nil: no row
    zip,        \* the stored archive
    job,        \* [at, stalls]: "none", "waiting", "active" or "over"
    run,        \* what the job holds in memory
    table,      \* pages: [run, key, file, content, parent]
    space       \* whether the space still exists

vars == <<archive, req, status, zip, job, run, table, space>>
outside == <<archive, req, space>>

-------------------------------------------------------------------------------
(* Paths.  A file is [dir, base, ext]; a folder and the base of a file are    *)
(* [name, id, part]: id is Nil, or the id at the end of the name, of which    *)
(* part says that it is abbreviated.                                          *)

Folder(f) == Append(f.dir, f.base)
Prefixes(s) == {SubSeq(s, 1, i) : i \in 1..Len(s)}
FoldersOf(files) == UNION {Prefixes(f.dir) : f \in files}

Md(d) == [dir |-> SubSeq(d, 1, Len(d) - 1), base |-> d[Len(d)], ext |-> "md"]
PagesFor(d) == {Md(d), [Md(d) EXCEPT !.ext = "html"]}

\* A single folder around everything gets no page.
SkipRootFolder(files) ==
    IF \E d \in FoldersOf(files) : \A f \in files : f.dir # <<>> /\ f.dir[1] = d[1]
      THEN {d \in FoldersOf(files) : Len(d) = 1} ELSE {}

\* Notion: the page that a folder without a file of its name belongs to.
\* (The code takes files of every folder at the top for those of the top.)
IsSameDir(dir, parent) == dir = parent \/ (parent = <<>> /\ Len(dir) <= 1)
Matches(map, d) ==
    {p \in map : /\ IsSameDir(p.key.dir, Md(d).dir)
                 /\ p.name = d[Len(d)].name
                 /\ d[Len(d)].part => p.key.base.id = d[Len(d)].id /\ ~p.key.base.part}

\* A page that was taken over, or made for a folder, is at the end of the map.
FirstMatches(map, d) ==
    LET untouched == {p \in Matches(map, d) : p.key = p.file}
    IN  IF untouched = {} THEN Matches(map, d) ELSE untouched

\* The folders around a page that have one.
FoldersAbove(keys, k) == {d \in Prefixes(k.dir) : PagesFor(d) \cap keys # {}}

\* Parents: the nearest folder above that has a page; md before html.
ParentKey(keys, k) ==
    LET above == FoldersAbove(keys, k)
        near == CHOOSE d \in above : \A e \in above : Len(e) <= Len(d)
    IN  IF above = {} THEN Nil
        ELSE IF Md(near) \in keys THEN Md(near) ELSE [Md(near) EXCEPT !.ext = "html"]

Keys(map) == {p.key : p \in map}
\* The BFS from the top takes as many steps to a page as there are pages above it.
PageLevel(keys, k) == Cardinality(FoldersAbove(keys, k))

-------------------------------------------------------------------------------
(* The request. *)

Idle == [pc |-> "idle", map |-> {}, todo |-> {}, done |-> {}]

Init ==
    /\ archive \in Archives
    /\ req = "start" /\ status = Nil /\ zip = FALSE /\ space = TRUE
    /\ job = [at |-> "none", stalls |-> Stalls]
    /\ run = Idle /\ table = {}

\* importZip: the archive is stored, the row inserted, the job queued.
ImportZip ==
    \/ /\ req = "start" /\ req' = "stored" /\ zip' = TRUE
       /\ UNCHANGED <<status, job>>
    \/ /\ req = "stored" /\ space /\ req' = "listed" /\ status' = "processing"
       /\ UNCHANGED <<zip, job>>
    \/ /\ req = "listed" /\ req' = "queued" /\ job' = [job EXCEPT !.at = "waiting"]
       /\ UNCHANGED <<status, zip>>

RequestStep == ImportZip /\ UNCHANGED <<archive, run, table, space>>

-------------------------------------------------------------------------------
(* The job. *)

Goto(pc) == run' = [run EXCEPT !.pc = pc]
At(pc) == job.at = "active" /\ run.pc = pc
Quiet == UNCHANGED <<outside, status, zip, job, table>>

Take ==
    /\ job.at = "waiting"
    /\ job' = [job EXCEPT !.at = "active"]
    /\ run' = [Idle EXCEPT !.pc = "read"]
    /\ UNCHANGED <<outside, status, zip, table>>

\* Mutant: the task is a success before its pages are in.
ReadTaskMarks ==
    /\ At("read") /\ Goto(IF status = "processing" THEN "unpack" ELSE "returned")
    /\ status' = IF status = "processing" THEN "success" ELSE status
    /\ UNCHANGED <<outside, zip, job, table>>

\* A task that is gone, failed or done is left alone.
ReadTask == At("read") /\ Goto(IF status = "processing" THEN "unpack" ELSE "returned") /\ Quiet

Unpack ==
    /\ At("unpack") /\ zip
    /\ run' = [run EXCEPT !.pc = "folders",
                  !.map = {[key |-> f, file |-> f, name |-> f.base.name] : f \in archive.files},
                  !.todo = FoldersOf(archive.files) \ SkipRootFolder(archive.files)]
    /\ Quiet

UnpackFails == At("unpack") /\ Goto("thrown") /\ Quiet

\* Folders come in the order of the directory; those with a partial id first.
NextFolder(d) ==
    /\ d \in run.todo
    /\ archive.source = "notion" /\ ~d[Len(d)].part => \A e \in run.todo : ~e[Len(e)].part

\* The folder has a page, takes over the page of a file, or gets an empty one.
MakeFolder(d) ==
    LET matches == IF archive.source = "notion" THEN FirstMatches(run.map, d) ELSE {}
        rest == [run EXCEPT !.todo = @ \ {d}]
    IN  /\ At("folders") /\ NextFolder(d)
        /\ \/ PagesFor(d) \cap Keys(run.map) # {} /\ run' = rest
           \/ /\ PagesFor(d) \cap Keys(run.map) = {}
              /\ \E p \in matches : run' = [rest EXCEPT !.map = (@ \ {p}) \cup {[p EXCEPT !.key = Md(d)]}]
           \/ /\ PagesFor(d) \cap Keys(run.map) = {} /\ matches = {}
              /\ run' = [rest EXCEPT !.map = @ \cup {[key |-> Md(d), file |-> Nil, name |-> d[Len(d)].name]}]
        /\ Quiet

FoldersDone == At("folders") /\ run.todo = {} /\ Goto("insert") /\ Quiet

\* Mutant: in the order of the map.
InsertPageAnyOrder(p) ==
    /\ At("insert") /\ p \in run.map /\ p.key \notin run.done
    /\ run' = [run EXCEPT !.done = @ \cup {p.key}]
    /\ Quiet

\* In the transaction, level by level.
InsertPage(p) ==
    LET keys == Keys(run.map)
    IN  /\ At("insert") /\ p \in run.map /\ p.key \notin run.done
        /\ \A k \in keys \ run.done : PageLevel(keys, p.key) <= PageLevel(keys, k)
        /\ run' = [run EXCEPT !.done = @ \cup {p.key}]
        /\ Quiet

\* The row of a page: its content is that of the file found under its key.
Row(p) ==
    [file |-> p.file, key |-> p.key, content |-> IF p.key \in archive.files THEN p.key ELSE Nil,
     parent |-> ParentKey(Keys(run.map), p.key)]

Commit ==
    /\ At("insert") /\ run.done = Keys(run.map)
    /\ space \/ run.map = {}
    /\ table' = table \cup {[run |-> job.stalls, row |-> Row(p)] : p \in run.map}
    /\ Goto("mark")
    /\ UNCHANGED <<outside, status, zip, job>>

\* A statement fails, as every insert does once the space is gone.
Rollback == At("insert") /\ Goto("thrown") /\ Quiet

SetStatus(s) == status' \in {status, IF status = Nil THEN Nil ELSE s}

\* An update that fails is logged; so is a deletion.
MarkSuccess ==
    /\ At("mark") /\ SetStatus("success") /\ Goto("drop")
    /\ UNCHANGED <<outside, zip, job, table>>

DropZip ==
    /\ At("drop") /\ zip' \in {zip, FALSE} /\ Goto("returned")
    /\ UNCHANGED <<outside, status, job, table>>

\* BullMQ notes the result, then emits the event.
Settle ==
    /\ \/ At("returned") /\ Goto("completed")
       \/ At("thrown") /\ Goto("failed")
    /\ Quiet

\* The handlers of the events: of a task that still has its row the archive goes.
Finish == job' = [job EXCEPT !.at = "over"] /\ run' = Idle

OnCompleted ==
    /\ At("completed") /\ Finish
    /\ zip' \in {zip, IF status = Nil THEN zip ELSE FALSE}
    /\ UNCHANGED <<outside, status, table>>

HandleFailedJob ==
    /\ At("failed") /\ Finish
    /\ SetStatus("failed")
    /\ zip' \in {zip, IF status = Nil THEN zip ELSE FALSE}
    /\ UNCHANGED <<outside, table>>

\* The process stops.  The job is waiting again, or failed when that happened
\* before; a job that was finished already gets no handler.
Stop ==
    /\ job.at = "active"
    /\ IF run.pc \in {"completed", "failed"} THEN Finish
       ELSE IF job.stalls > 0
         THEN job' = [at |-> "waiting", stalls |-> job.stalls - 1] /\ run' = Idle
         ELSE job' = job /\ run' = [Idle EXCEPT !.pc = "failed"]
    /\ UNCHANGED <<outside, status, zip, table>>

\* The space is deleted, with its tasks and its pages.
DeleteSpace ==
    /\ space /\ space' = FALSE
    /\ status' = Nil /\ table' = {}
    /\ UNCHANGED <<archive, req, zip, job, run>>

Next ==
    \/ RequestStep
    \/ Take \/ ReadTask \/ Unpack \/ UnpackFails
    \/ \E d \in run.todo : MakeFolder(d)
    \/ FoldersDone
    \/ \E p \in run.map : InsertPage(p)
    \/ Commit \/ Rollback \/ MarkSuccess \/ DropZip \/ Settle
    \/ OnCompleted \/ HandleFailedJob \/ Stop \/ DeleteSpace

Spec == Init /\ [][Next]_vars

-------------------------------------------------------------------------------
(* Properties. *)

TypeOK ==
    /\ archive \in Archives /\ req \in {"start", "stored", "listed", "queued"}
    /\ status \in {Nil, "processing", "success", "failed"}
    /\ zip \in BOOLEAN /\ space \in BOOLEAN
    /\ job \in [at : {"none", "waiting", "active", "over"}, stalls : 0..Stalls]
    /\ run.done \subseteq Keys(run.map)

\* No page is inserted before its parent: the foreign key of pages holds at
\* every insert, whatever folders the archive has and whatever pages they took over.
ParentsFirst ==
    \A k \in run.done : ParentKey(Keys(run.map), k) \in run.done \cup {Nil}

\* A task that is a success has been imported, whatever stopped in between:
\* every file is one page of one and the same run, and where the folders of
\* the archive name their files it has its content and hangs below its folder.
SuccessMeansImported ==
    status = "success" =>
        \E n \in 0..Stalls :
            LET rows == {t.row : t \in {u \in table : u.run = n}}
            IN  /\ \A f \in archive.files : Cardinality({r \in rows : r.file = f}) = 1
                /\ archive.source = "generic" =>
                      \A r \in rows : /\ r.content = r.file
                                      /\ r.parent = Nil \/ \E s \in rows : s.key = r.parent

\* The comment of the importer: only a page made for a folder has no file.
OnlyPlaceholdersAreEmpty == \A t \in table : t.row.content = Nil => t.row.file = Nil
===============================================================================
