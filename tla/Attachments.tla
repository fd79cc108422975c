------------------------------ MODULE Attachments ------------------------------
(***************************************************************************)
(* Uploaded files: the object in the storage and its row in attachments,   *)
(* which no transaction spans.  Files of a page of some space, and the     *)
(* avatar of a user, stand for the files of pages and for the avatars and  *)
(* logos.  Uploads, replacements, removals and the jobs that delete the    *)
(* files of a page, of a space and of a user run at the same time; each    *)
(* statement and each call of the storage and of the queue may fail and    *)
(* any process may stop between two of them.                               *)
(***************************************************************************)
EXTENDS Naturals, FiniteSets

CONSTANTS
    File,       \* names of stored objects, each a fresh uuid
    Request,    \* requests and jobs that run at the same time
    Attempts,   \* how often BullMQ runs a job that throws
    Nil

VARIABLES
    owner,      \* what an upload is for: "page", "avatar", or Nil when the name is unused
    rows,       \* the attachments table
    files,      \* the storage
    icon,       \* users.avatar_url
    gone,       \* what has been deleted: {"page", "space", "user"}
    doomed,     \* history: what somebody has begun to delete for good
    queue,      \* jobs that wait: [kind, left]
    req,        \* the running requests and jobs
    lost        \* history: files whose upload or removal broke off

vars == <<owner, rows, files, icon, gone, doomed, queue, req, lost>>
stores == <<owner, rows, files, icon, gone, doomed>>

Idle == [pc |-> "idle", file |-> Nil, old |-> Nil, kind |-> Nil, left |-> 0, todo |-> {}, done |-> FALSE, failed |-> FALSE]
Jobs == [kind : {"page", "space", "user"}, left : 1..Attempts]
Running == {r \in Request : req[r].pc # "idle"}

Begin(r, rec) == req[r].pc = "idle" /\ req' = [req EXCEPT ![r] = rec]
Goto(r, pc) == req' = [req EXCEPT ![r].pc = pc]
Leave(r) == req' = [req EXCEPT ![r] = Idle]

Init ==
    /\ owner = [f \in File |-> Nil] /\ rows = {} /\ files = {} /\ icon = Nil
    /\ gone = {} /\ doomed = {} /\ queue = {} /\ req = [r \in Request |-> Idle] /\ lost = {}

-------------------------------------------------------------------------------
(* uploadFile, for a page. *)

UploadStart(r, f) ==
    /\ owner[f] = Nil /\ "page" \notin gone
    /\ Begin(r, [Idle EXCEPT !.pc = "upload", !.file = f])
    /\ owner' = [owner EXCEPT ![f] = "page"]
    /\ UNCHANGED <<rows, files, icon, gone, doomed, queue, lost>>

\* The storage fails: it may have stored a part of the object.  That ends the request.
BreaksOff(r) ==
    /\ files' \in {files, files \cup {req[r].file}}
    /\ lost' = lost \cup {req[r].file}
    /\ Leave(r)

\* The stream goes to the storage first.
UploadToDrive(r) ==
    /\ req[r].pc = "upload"
    /\ \/ files' = files \cup {req[r].file} /\ Goto(r, "save") /\ lost' = lost
       \/ BreaksOff(r)
    /\ UNCHANGED <<owner, rows, icon, gone, doomed, queue>>

\* A failing insert is only logged: the object stays in the storage.
SaveAttachment(r) ==
    /\ req[r].pc = "save"
    /\ \/ rows' = rows \cup {req[r].file} /\ lost' = lost
       \/ rows' = rows /\ lost' = lost \cup {req[r].file}
    /\ Leave(r)
    /\ UNCHANGED <<owner, files, icon, gone, doomed, queue>>

-------------------------------------------------------------------------------
(* uploadImage, for an avatar. *)

ImageStart(r, f) ==
    /\ owner[f] = Nil /\ "user" \notin gone
    /\ Begin(r, [Idle EXCEPT !.pc = "image", !.file = f])
    /\ owner' = [owner EXCEPT ![f] = "avatar"]
    /\ UNCHANGED <<rows, files, icon, gone, doomed, queue, lost>>

ImageToDrive(r) ==
    /\ req[r].pc = "image"
    /\ \/ files' = files \cup {req[r].file} /\ Goto(r, "read") /\ lost' = lost
       \/ BreaksOff(r)
    /\ UNCHANGED <<owner, rows, icon, gone, doomed, queue>>

\* In the transaction: the row is inserted and the old avatar is read.
ImageRead(r) ==
    /\ req[r].pc = "read"
    /\ req' = [req EXCEPT ![r].pc = "write", ![r].old = icon]
    /\ UNCHANGED <<stores, queue, lost>>

\* It commits, and the old file is redundant.
ImageWrite(r) ==
    /\ req[r].pc = "write"
    /\ rows' = rows \cup {req[r].file} /\ icon' = req[r].file
    /\ IF req[r].old = Nil THEN Leave(r) ELSE req' = [req EXCEPT ![r].pc = "drop", ![r].file = req[r].old]
    /\ UNCHANGED <<owner, files, gone, doomed, queue, lost>>

\* It fails, and the new file is redundant.
ImageFail(r) ==
    /\ req[r].pc \in {"read", "write"}
    /\ Goto(r, "drop")
    /\ UNCHANGED <<stores, queue, lost>>

\* deleteRedundantFile: the object, then the row; an error ends it.
DropFile(r) ==
    /\ req[r].pc = "drop"
    /\ \/ files' = files \ {req[r].file} /\ Goto(r, "dropRow") /\ lost' = lost
       \/ files' = files /\ Leave(r) /\ lost' = lost \cup {req[r].file}
    /\ UNCHANGED <<owner, rows, icon, gone, doomed, queue>>

DropRow(r) ==
    /\ req[r].pc = "dropRow"
    /\ rows' \in {rows, rows \ {req[r].file}}
    /\ Leave(r)
    /\ UNCHANGED <<owner, files, icon, gone, doomed, queue, lost>>

\* Mutant: the file is deleted, the reference to it stays.
RemoveStartNow(r) ==
    /\ "user" \notin gone /\ icon # Nil
    /\ Begin(r, [Idle EXCEPT !.pc = "drop", !.file = icon])
    /\ UNCHANGED <<stores, queue, lost>>

\* removeUserAvatar, of the avatar in the user that the request was authenticated as.
RemoveStart(r) ==
    /\ "user" \notin gone /\ icon # Nil
    /\ Begin(r, [Idle EXCEPT !.pc = "remove", !.file = icon])
    /\ UNCHANGED <<stores, queue, lost>>

RemoveFile(r) ==
    /\ req[r].pc = "remove"
    /\ \/ files' = files \ {req[r].file} /\ Goto(r, "removeRow")
       \/ files' = files /\ Goto(r, "clear")
    /\ UNCHANGED <<owner, rows, icon, gone, doomed, queue, lost>>

RemoveRow(r) ==
    /\ req[r].pc = "removeRow"
    /\ rows' \in {rows, rows \ {req[r].file}}
    /\ Goto(r, "clear")
    /\ UNCHANGED <<owner, files, icon, gone, doomed, queue, lost>>

ClearIcon(r) ==
    /\ req[r].pc = "clear"
    /\ \/ icon' = Nil /\ lost' = lost
       \/ icon' = icon /\ lost' = lost \cup {req[r].file}
    /\ Leave(r)
    /\ UNCHANGED <<owner, rows, files, gone, doomed, queue>>

-------------------------------------------------------------------------------
(* Deletion jobs. *)

Of(kind) == IF kind = "user" THEN "avatar" ELSE "page"

\* The deletion of a page for good (forceDelete, and the cleanup of the trash)
\* queues the job before it deletes the page.  The id of the job is made from that
\* of the page: BullMQ ignores a second one while it knows the first.
ForceDeleteStart(r) ==
    /\ "page" \notin gone
    /\ Begin(r, [Idle EXCEPT !.pc = "force", !.kind = "page"])
    /\ \/ queue' = queue \cup {[kind |-> "page", left |-> Attempts]}
       \/ "page" \in doomed /\ queue' = queue
    /\ doomed' = doomed \cup {"page"}
    /\ UNCHANGED <<owner, rows, files, icon, gone, lost>>

\* The statement may fail, which leaves the page, and the job in the queue.
ForceDeleteRows(r) ==
    /\ req[r].pc = "force"
    /\ gone' \in {gone, gone \cup {req[r].kind}}
    /\ Leave(r)
    /\ UNCHANGED <<owner, rows, files, icon, doomed, queue, lost>>

\* A space goes with its pages, a user leaves a row without avatar.
DeleteFirst(r, kind) ==
    LET what == IF kind = "space" THEN {"space", "page"} ELSE {kind}
    IN  /\ kind \in {"space", "user"} \ gone
        /\ Begin(r, [Idle EXCEPT !.pc = "queue", !.kind = kind])
        /\ gone' = gone \cup what /\ doomed' = doomed \cup what
        /\ icon' = IF kind = "user" THEN Nil ELSE icon
        /\ UNCHANGED <<owner, rows, files, queue, lost>>

\* After the commit the job is queued, which may fail.
QueueJob(r) ==
    /\ req[r].pc = "queue"
    /\ queue' \in {queue, queue \cup {[kind |-> req[r].kind, left |-> Attempts]}}
    /\ Leave(r)
    /\ UNCHANGED <<stores, lost>>

JobStart(r, j) ==
    /\ j \in queue
    /\ Begin(r, [Idle EXCEPT !.pc = "job", !.kind = j.kind, !.left = j.left,
                             !.todo = {f \in rows : owner[f] = Of(j.kind)}])
    /\ queue' = queue \ {j}
    /\ UNCHANGED <<stores, lost>>

\* Mutant: of each, the row goes first.
JobFileRowFirst(r, f) ==
    /\ req[r].pc = "job" /\ f \in req[r].todo /\ f \in files
    /\ IF f \in rows THEN rows' = rows \ {f} /\ files' = files
                     ELSE rows' = rows /\ files' = files \ {f}
    /\ UNCHANGED <<owner, icon, gone, doomed, queue, req, lost>>

\* The deletions run side by side; of each, the object goes before the row.
JobFile(r, f) ==
    /\ req[r].pc = "job" /\ f \in req[r].todo /\ f \in files
    /\ files' = files \ {f}
    /\ UNCHANGED <<owner, rows, icon, gone, doomed, queue, req, lost>>

JobRow(r, f) ==
    /\ req[r].pc = "job" /\ f \in req[r].todo /\ f \notin files
    /\ rows' = rows \ {f}
    /\ req' = [req EXCEPT ![r].todo = @ \ {f}, ![r].done = TRUE]
    /\ UNCHANGED <<owner, files, icon, gone, doomed, queue, lost>>

JobItemFails(r, f) ==
    /\ req[r].pc = "job" /\ f \in req[r].todo
    /\ req' = [req EXCEPT ![r].todo = @ \ {f}, ![r].failed = TRUE]
    /\ UNCHANGED <<stores, queue, lost>>

\* Failures are logged.  The job of a space throws when nothing at all could
\* be deleted, and runs again; a file that failed beside others is left.
JobEnd(r) ==
    LET again == req[r].kind = "space" /\ req[r].failed /\ ~req[r].done /\ req[r].left > 1
    IN  /\ req[r].pc = "job" /\ req[r].todo = {}
        /\ queue' = IF again THEN queue \cup {[kind |-> "space", left |-> req[r].left - 1]} ELSE queue
        /\ Leave(r)
        /\ UNCHANGED <<stores, lost>>

\* A process stops.  A job is taken up again, a request is not.
Crash(r) ==
    /\ req[r].pc # "idle"
    /\ IF req[r].pc = "job"
         THEN queue' = queue \cup {[kind |-> req[r].kind, left |-> req[r].left]} /\ lost' = lost
         ELSE queue' = queue /\ lost' = lost \cup ({req[r].file} \ {Nil})
    /\ Leave(r)
    /\ UNCHANGED stores

Next ==
    \/ \E r \in Request, f \in File :
          UploadStart(r, f) \/ ImageStart(r, f) \/ JobFile(r, f) \/ JobRow(r, f) \/ JobItemFails(r, f)
    \/ \E r \in Request : UploadToDrive(r) \/ SaveAttachment(r)
    \/ \E r \in Request : ImageToDrive(r) \/ ImageRead(r) \/ ImageWrite(r) \/ ImageFail(r)
    \/ \E r \in Request : DropFile(r) \/ DropRow(r)
    \/ \E r \in Request : RemoveStart(r) \/ RemoveFile(r) \/ RemoveRow(r) \/ ClearIcon(r)
    \/ \E r \in Request : ForceDeleteStart(r) \/ ForceDeleteRows(r) \/ QueueJob(r)
    \/ \E r \in Request, kind \in {"space", "user"} : DeleteFirst(r, kind)
    \/ \E r \in Request, j \in Jobs : JobStart(r, j)
    \/ \E r \in Request : JobEnd(r) \/ Crash(r)

Spec == Init /\ [][Next]_vars

-------------------------------------------------------------------------------
(* Properties. *)

TypeOK ==
    /\ owner \in [File -> {"page", "avatar", Nil}]
    /\ rows \subseteq File /\ files \subseteq File /\ lost \subseteq File
    /\ icon \in File \cup {Nil} /\ gone \subseteq doomed /\ doomed \subseteq {"page", "space", "user"}
    /\ queue \subseteq Jobs
    /\ \A r \in Request : req[r].todo \subseteq File /\ req[r].file \in File \cup {Nil}

\* What is in use is there: the files listed for a page that nobody has begun to
\* delete for good, and the avatar a user shows, unless its removal is under way
\* or broke off.  (A deletion that fails or stops after its job is queued leaves a
\* page whose files the job takes.)
InUseHasFile ==
    /\ "page" \notin doomed => {f \in rows : owner[f] = "page"} \subseteq files
    /\ "user" \notin doomed /\ icon # Nil =>
          \/ icon \in files \cup lost
          \/ \E r \in Running : req[r].pc \in {"removeRow", "clear"} /\ req[r].file = icon

\* Nothing is stored unseen: an object has a row, by which a later deletion
\* finds it, or somebody still works on it, or the work on it broke off.  The last
\* is no small print: an upload whose insert fails says "delete uploaded file on
\* error" (attachment.service.ts:136) and only logs, so that its object stays.
EveryFileHasRow ==
    \A f \in files \ (rows \cup lost) :
        \E r \in Running : \/ req[r].file = f /\ req[r].pc \in {"save", "read", "write", "drop"}
                           \/ req[r].pc = "job" /\ f \in req[r].todo
===============================================================================
