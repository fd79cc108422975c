----------------------------- MODULE Notifications -----------------------------
(***************************************************************************)
(* Comments on a page, mentions in comments and in the page, and the queued *)
(* jobs that notify those concerned: who is mentioned, who watches the page *)
(* and who wrote in the thread, as far as he may open the page.  Between    *)
(* the statements of requests and jobs access is taken and given, the page  *)
(* goes to another space, and comments are deleted.                         *)
(***************************************************************************)
EXTENDS Naturals, FiniteSets

CONSTANTS
    User, Space, Comment,
    Changes,    \* bound on updates and on the changes around requests and jobs
    Queue,      \* bound on the jobs that wait
    Nil

VARIABLES
    page,       \* the space of the page; Nil when it is deleted
    member,     \* who has a role in which space
    barred,     \* who lacks a permission on a restricted page above it
    watchers,   \* of the page, not muted
    text,       \* the comments ever made: [by, parent]
    comments,   \* those not deleted
    req,        \* the job that a request will queue: [pc, job]
    jobs,       \* the notification queue
    work,       \* what the worker holds in memory
    notices,    \* the notifications that this run of a job has inserted
    changes     \* how many changes are left

vars == <<page, member, barred, watchers, text, comments, req, jobs, work, notices, changes>>
readers == <<member, barred, watchers>>

Idle == [pc |-> "idle", job |-> Nil]
Resting == [pc |-> "idle", job |-> Nil, recipients |-> {}, allowed |-> {}, todo |-> {},
            held |-> {}, opened |-> {}, kept |-> {}]

\* The access that the jobs ask for: a role in the space and, on a restricted
\* page, the permission too.
MayRead(u, s, mem, bar) == <<u, s>> \in mem /\ u \notin bar
\* Requests ask for the role only where the page is not restricted.  Roles and
\* permissions that read and do not write are left out, and so is the trash.
CanEdit(u) == page # Nil /\ u \notin barred /\ (barred # {} \/ <<u, page>> \in member)

Room == Cardinality(jobs) < Queue

\* A job about a comment, new or updated, or about mentions in the page.
Job(u, c, parent, mentioned, watch) ==
    [by |-> u, comment |-> c, parent |-> parent, space |-> page,
     mentioned |-> mentioned \ {u}, watch |-> watch]

\* getThreadParticipantIds
Participants(c, com) == {text[d].by : d \in {e \in com : e = c \/ text[e].parent = c}}

Recipients(j, wat, com) ==
    IF j.parent # Nil THEN Participants(j.parent, com) ELSE IF j.watch THEN wat ELSE {}

Init ==
    /\ page = (CHOOSE s \in Space : TRUE) /\ member = User \X Space /\ barred = {}
    /\ watchers \in SUBSET User
    /\ text = [c \in Comment |-> Nil] /\ comments = {}
    /\ req = Idle /\ jobs = {} /\ work = Resting /\ notices = {} /\ changes = Changes

-------------------------------------------------------------------------------
(* Requests.  Each queues its job after its write, or never when it breaks off. *)

Fresh == CHOOSE c \in Comment : text[c] = Nil

CreateStart(u, parent, mentions) ==
    /\ req.pc = "idle" /\ Room /\ (\E c \in Comment : text[c] = Nil) /\ CanEdit(u)
    /\ parent # Nil => text[parent].parent = Nil
    /\ req' = [pc |-> "insert", job |-> Job(u, Fresh, parent, mentions, parent = Nil)]
    /\ UNCHANGED <<page, readers, text, comments, jobs, work, notices, changes>>

\* The foreign keys hold the page and the parent.
CreateInsert ==
    LET j == req.job IN
    /\ req.pc = "insert" /\ page # Nil /\ j.parent \in comments \cup {Nil}
    /\ text' = [text EXCEPT ![j.comment] = [by |-> j.by, parent |-> j.parent]]
    /\ comments' = comments \cup {j.comment}
    /\ req' = [req EXCEPT !.pc = "queue"]
    /\ UNCHANGED <<page, readers, jobs, work, notices, changes>>

\* Of the author alone.  It may mention more users; to change a comment that is
\* gone changes no row and reports no error.
Update(u, c, mentions) ==
    /\ req.pc = "idle" /\ Room /\ text[c].by = u /\ CanEdit(u)
    /\ changes > 0 /\ changes' = changes - 1
    /\ req' = [pc |-> "queue", job |-> Job(u, c, Nil, mentions, FALSE)]
    /\ UNCHANGED <<page, readers, text, comments, jobs, work, notices>>

QueueCommentNotification ==
    LET j == req.job IN
    /\ req.pc = "queue" /\ Room
    /\ jobs' = IF j.mentioned = {} /\ ~j.watch /\ j.parent = Nil THEN jobs ELSE jobs \cup {j}
    /\ req' = Idle
    /\ UNCHANGED <<page, readers, text, comments, work, notices, changes>>

RequestFails ==
    /\ req.pc # "idle" /\ req' = Idle
    /\ UNCHANGED <<page, readers, text, comments, jobs, work, notices, changes>>

\* A store of the page finds mentions that were not there before.
StoreMentions(u, mentions) ==
    /\ Room /\ page # Nil /\ mentions \ {u} # {}
    /\ jobs' = jobs \cup {Job(u, Nil, Nil, mentions, FALSE)}
    /\ UNCHANGED <<page, readers, text, comments, req, work, notices, changes>>

-------------------------------------------------------------------------------
(* Changes around a job.  The histories of its run: who had the role at some  *)
(* time since it began, who the permission, and who had both, and was         *)
(* concerned, all the time.                                                   *)

Change(mem, bar, wat, com) ==
    LET j == work.job IN
    /\ member' = mem /\ barred' = bar /\ watchers' = wat /\ comments' = com
    /\ work' = IF work.pc = "idle" THEN work
               ELSE [work EXCEPT
                 !.held = @ \cup {u \in User : <<u, j.space>> \in mem},
                 !.opened = @ \cup (User \ bar),
                 !.kept = {u \in @ : MayRead(u, j.space, mem, bar)
                                     /\ u \in j.mentioned \cup Recipients(j, wat, com)}]
    /\ UNCHANGED <<req, jobs, notices>>

Spend == changes > 0 /\ changes' = changes - 1

\* Of a member that leaves the watcher rows go, as far as the cleanup sees them.
ChangeMember(u, s) ==
    /\ Spend /\ UNCHANGED <<page, text>>
    /\ IF <<u, s>> \in member
         THEN \E wat \in {watchers, IF page = s THEN watchers \ {u} ELSE watchers} :
                 Change(member \ {<<u, s>>}, barred, wat, comments)
         ELSE Change(member \cup {<<u, s>>}, barred, watchers, comments)

ChangePermission(u) ==
    /\ Spend /\ UNCHANGED <<page, text>>
    /\ Change(member, IF u \in barred THEN barred \ {u} ELSE barred \cup {u}, watchers, comments)

\* watchPage and unwatchPage, and the job that makes a commenter a watcher.
ChangeWatching(u) ==
    /\ Spend /\ UNCHANGED <<page, text>>
    /\ Change(member, barred, IF u \in watchers THEN watchers \ {u} ELSE watchers \cup {u}, comments)

\* By its author or an admin of the space; the replies go along.
DeleteComment(c) ==
    /\ c \in comments
    /\ Change(member, barred, watchers, {d \in comments : d # c /\ text[d].parent # c})
    /\ UNCHANGED <<page, text, changes>>

\* Restrictions of the pages above are left behind, those of the page itself go
\* along, and so do the comments, and the watchers who have a role there.
MoveToSpace(s) ==
    /\ page \notin {s, Nil} /\ page' = s /\ Spend
    /\ UNCHANGED text
    /\ \E bar \in {barred, {}} : Change(member, bar, {u \in watchers : <<u, s>> \in member}, comments)

DeletePage ==
    /\ page # Nil /\ page' = Nil /\ Spend
    /\ member' = member /\ barred' = {} /\ watchers' = {} /\ comments' = {}
    /\ work' = [work EXCEPT !.kept = {}]
    /\ UNCHANGED <<text, req, jobs, notices>>

-------------------------------------------------------------------------------
(* The job. *)

Goto(pc) == work' = [work EXCEPT !.pc = pc]
Reads == UNCHANGED <<page, readers, text, comments, req, jobs, notices, changes>>

Take(j) ==
    LET holders == {u \in User : <<u, j.space>> \in member}
        concerned == j.mentioned \cup Recipients(j, watchers, comments) IN
    /\ work.pc = "idle" /\ j \in jobs /\ jobs' = jobs \ {j}
    /\ work' = [Resting EXCEPT !.pc = IF j.comment = Nil THEN "spaces" ELSE "context", !.job = j,
                  !.held = holders, !.opened = User \ barred, !.kept = (holders \ barred) \cap concerned]
    /\ UNCHANGED <<page, readers, text, comments, req, notices, changes>>

\* Without the page there is nothing to do.
GetContext ==
    /\ work.pc = "context"
    /\ IF page = Nil THEN work' = Resting
       ELSE Goto(IF work.job.comment = Nil THEN "tell" ELSE "recipients")
    /\ Reads

\* Mutant: whoever replied is told, and not who began the thread.
GetRecipientsReplies ==
    /\ work.pc = "recipients"
    /\ work' = [work EXCEPT !.pc = "spaces", !.recipients =
                  IF work.job.parent # Nil THEN {text[d].by : d \in {e \in comments : text[e].parent = work.job.parent}}
                  ELSE Recipients(work.job, watchers, comments)]
    /\ Reads

GetRecipients ==
    /\ work.pc = "recipients"
    /\ work' = [work EXCEPT !.pc = "spaces", !.recipients = Recipients(work.job, watchers, comments)]
    /\ Reads

\* Mutant: only the recipients need a role in the space.
GetUserIdsWithSpaceAccessRecipients ==
    /\ work.pc = "spaces"
    /\ work' = [work EXCEPT !.pc = "pages", !.allowed =
                  {u \in work.job.mentioned \cup work.recipients :
                     u \in work.job.mentioned \/ <<u, work.job.space>> \in member}]
    /\ Reads

GetUserIdsWithSpaceAccess ==
    /\ work.pc = "spaces"
    /\ work' = [work EXCEPT !.pc = "pages", !.allowed =
                  {u \in work.job.mentioned \cup work.recipients : <<u, work.job.space>> \in member}]
    /\ Reads

Notice(kind, u) == [kind |-> kind, user |-> u]

\* First the mentioned, then the recipients that were not mentioned, but the actor.
ToTell(allowed) ==
    LET mentioned == work.job.mentioned \cap allowed
    IN  {Notice("mention", u) : u \in mentioned}
        \cup {Notice("created", u) : u \in (work.recipients \cap allowed) \ (mentioned \cup {work.job.by})}

\* A page that is gone has no restrictions.
GetUserIdsWithPageAccess ==
    /\ work.pc = "pages"
    /\ LET allowed == work.allowed \ barred
       IN  work' = [work EXCEPT !.recipients = {}, !.allowed = {}, !.todo = ToTell(allowed),
                                !.pc = IF work.job.comment = Nil /\ allowed # {} THEN "context" ELSE "tell"]
    /\ Reads

\* The insert needs the page and the comment.
Tell(n) ==
    /\ work.pc = "tell" /\ n \in work.todo
    /\ n.kind = "created" => \A m \in work.todo : m.kind = "created"
    /\ page # Nil /\ work.job.comment \in comments \cup {Nil}
    /\ notices' = notices \cup {n}
    /\ work' = [work EXCEPT !.todo = @ \ {n}]
    /\ UNCHANGED <<page, readers, text, comments, req, jobs, changes>>

Stop == work' = Resting /\ notices' = {}

Finish ==
    /\ work.pc = "tell" /\ work.todo = {} /\ Stop
    /\ UNCHANGED <<page, readers, text, comments, req, jobs, changes>>

\* A statement fails or the process stops.  The whole job runs again, but for
\* its last attempt.
JobFails ==
    /\ work.pc # "idle" /\ Stop
    /\ jobs' \in {jobs, jobs \cup {work.job}}
    /\ UNCHANGED <<page, readers, text, comments, req, changes>>

Next ==
    \/ \E u \in User, parent \in comments \cup {Nil}, mentions \in SUBSET User : CreateStart(u, parent, mentions)
    \/ \E u \in User, c \in comments, mentions \in SUBSET User : Update(u, c, mentions)
    \/ CreateInsert \/ QueueCommentNotification \/ RequestFails
    \/ \E u \in User, mentions \in SUBSET User : StoreMentions(u, mentions)
    \/ \E u \in User, s \in Space : ChangeMember(u, s)
    \/ \E u \in User : ChangePermission(u) \/ ChangeWatching(u)
    \/ \E c \in Comment : DeleteComment(c)
    \/ \E s \in Space : MoveToSpace(s)
    \/ DeletePage
    \/ \E j \in jobs : Take(j)
    \/ GetContext \/ GetRecipients \/ GetUserIdsWithSpaceAccess \/ GetUserIdsWithPageAccess
    \/ \E n \in work.todo : Tell(n)
    \/ Finish \/ JobFails

Spec == Init /\ [][Next]_vars

-------------------------------------------------------------------------------
(* Properties. *)

TypeOK ==
    /\ page \in Space \cup {Nil} /\ member \subseteq User \X Space
    /\ barred \subseteq User /\ watchers \subseteq User /\ comments \subseteq Comment
    /\ \A c \in comments : text[c] # Nil
    /\ Cardinality(jobs) <= Queue + 1 /\ changes \in 0..Changes

\* Whoever is notified had a role in the space, and a permission on the page,
\* while the job ran, and did not cause it himself; one run of a job notifies
\* nobody twice.  The job asks for the two one after the other: who had them at
\* different times only is notified as well.
ToldRightly ==
    \A n \in notices :
        /\ n.user \in (work.held \cap work.opened) \ {work.job.by}
        /\ \A m \in notices : m.user = n.user => m = n

\* At the end of a run whoever is mentioned, watches the page or wrote in the
\* thread, and could open the page all the while, has been notified.
ConcernedAreTold ==
    work.pc = "tell" /\ work.todo = {} =>
        \A u \in work.kept \ {work.job.by} : \E n \in notices : n.user = u
===============================================================================
