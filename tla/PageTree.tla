------------------------------- MODULE PageTree -------------------------------
(***************************************************************************)
(* The page tree of a workspace: rows of `pages` and `page_access`, and    *)
(* the requests that create, move, trash, restore, duplicate and delete    *)
(* pages.  A request handler reads the database in one statement and       *)
(* writes it in a later one, outside any transaction that would cover      *)
(* both, so each handler is a read step that records what it saw and one   *)
(* or more write steps; other requests run in between.                     *)
(***************************************************************************)
EXTENDS Naturals

CONSTANTS
    Page,        \* page ids (a uuid is never reused)
    Space,       \* spaces of the workspace
    User,        \* members with edit rights in every space
    Request,     \* concurrent request handlers
    Nil,         \* SQL NULL
    Kind,        \* which operations the instance issues
    Serial,      \* TRUE: an operation starts only when no other is under way
    ClientGuard  \* TRUE: move requests come from the web client's tree,
                 \* which refuses to drop a page on itself or below itself

ASSUME NilAssumption == Nil \notin Page \cup Space \cup User
ASSUME GuardAssumption == ClientGuard \in BOOLEAN
ASSUME SerialAssumption == Serial \in BOOLEAN

VARIABLES
    status,      \* unused | live | trash, expired (by deleted_at) | gone
    parent,      \* pages.parent_page_id
    space,       \* pages.space_id
    accessSpace, \* page_access.space_id, Nil when the page has no page_access row
    writers,     \* users with a page_permissions row of role writer
    purge,       \* pages with a delete-page-attachments-<id> job
    req,         \* what each handler holds between two database calls
    cron         \* the trash cleanup interval job

tree   == <<status, parent, space>>
access == <<accessSpace, writers>>
vars   == <<status, parent, space, accessSpace, writers, purge, req, cron>>

NoRows == [n \in {} |-> Nil]
Idle  == [pc |-> "idle", page |-> Nil, parent |-> Nil,
          space |-> Nil, ids |-> {}, orphans |-> {}, grant |-> {}, flag |-> FALSE,
          rows |-> NoRows]
Sleep == [pc |-> "idle", todo |-> {}, page |-> Nil, ids |-> {}]

-------------------------------------------------------------------------------
(* Queries.                                                                *)

InTrash  == {p \in Page : status[p] \in {"trash", "expired"}}
Live     == {p \in Page : status[p] = "live"}
Existing == Live \cup InTrash

\* The rows a recursive query reaches from p through parent_page_id when it
\* only follows rows of S: the least set that holds p and the children, in S,
\* of its members.
ChildClosed(T, S) == \A c \in S : parent[c] \in T => c \in T
Below(p, S) == {q \in S : /\ p \in S
                          /\ \A T \in SUBSET S : p \in T /\ ChildClosed(T, S) => q \in T}

\* The queries use UNION ALL: one started on a cycle never returns.
Returns(p, S) == parent[p] \notin Below(p, S)

Ancestors(p) == {a \in Existing : p \in Below(a, Existing)}
Rooted(p)    == \E a \in Ancestors(p) : parent[a] = Nil

Restricted(p) == accessSpace[p] # Nil

\* canUserEditPage: a writer permission on every restricted ancestor.
CanEdit(u, p) == Rooted(p) /\ \A a \in Ancestors(p) : Restricted(a) => u \in writers[a]

HasRestrictedPagesInSpace(s) == \E p \in Page : accessSpace[p] = s

\* filterAccessiblePageIds: no check at all when the space has no restricted page.
FilterAccessible(ids, u, s) ==
    IF HasRestrictedPagesInSpace(s) THEN {p \in ids : CanEdit(u, p)} ELSE ids

\* filterAccessibleTreePages: the accessible pages whose chain up to the root is accessible.
AccessibleTree(p, u, s) == Below(p, FilterAccessible(Below(p, Live), u, s))

\* Mutant: the foreign key does not cascade.
CascadeToNothing(ids) == ids \cap Existing

\* Deleting rows cascades along the foreign key parent_page_id.
Cascade(ids) == UNION {Below(p, Existing) : p \in ids \cap Existing}

\* The foreign key on parent_page_id.
ForeignKey(q) == q = Nil \/ q \in Existing

-------------------------------------------------------------------------------
(* Handlers.  Begin records what the read step saw; End forgets it.        *)

Begin(r, rec) == req' = [req EXCEPT ![r] = rec]
End(r)        == req' = [req EXCEPT ![r] = Idle]
Step(r, pc)   == req' = [req EXCEPT ![r].pc = pc]

Quiet == cron.pc = "idle" /\ \A r \in Request : req[r].pc = "idle"

Accepts(r, kind) == kind \in Kind /\ req[r].pc = "idle" /\ (Serial => Quiet)

\* A new id is a random uuid, never one drawn before.
Free     == {p \in Page : status[p] = "unused" /\ \A r \in Request : p \notin DOMAIN req[r].rows}
ReadOnly == UNCHANGED <<tree, access, purge, cron>>

\* POST pages/create
CreateStart(r, u, s, q) ==
    /\ Accepts(r, "create")
    /\ q # Nil => q \in Live /\ space[q] = s /\ CanEdit(u, q)
    /\ Begin(r, [Idle EXCEPT !.pc = "create", !.parent = q, !.space = s])
    /\ ReadOnly

CreateInsert(r, p) ==
    /\ req[r].pc = "create" /\ p \in Free /\ ForeignKey(req[r].parent)
    /\ status' = [status EXCEPT ![p] = "live"]
    /\ parent' = [parent EXCEPT ![p] = req[r].parent]
    /\ space'  = [space  EXCEPT ![p] = req[r].space]
    /\ End(r) /\ UNCHANGED <<access, purge, cron>>

\* POST pages/move.  flag: the parent is unchanged, only the position is written.
MoveStart(r, u, p, q) ==
    /\ Accepts(r, "move")
    /\ p \in Existing /\ CanEdit(u, p)
    /\ parent[p] # q /\ q # Nil => q \in Live /\ space[q] = space[p] /\ CanEdit(u, q)
    /\ ClientGuard => q \notin Below(p, Existing)
    /\ Begin(r, [Idle EXCEPT !.pc = "move", !.page = p,
                             !.parent = q, !.flag = (parent[p] = q)])
    /\ ReadOnly

MoveWrite(r) ==
    /\ req[r].pc = "move"
    /\ IF req[r].page \in Existing /\ ~req[r].flag
         THEN /\ ForeignKey(req[r].parent)
              /\ parent' = [parent EXCEPT ![req[r].page] = req[r].parent]
         ELSE parent' = parent
    /\ End(r) /\ UNCHANGED <<status, space, access, purge, cron>>

\* POST pages/move-to-space.  A page in the trash is not refused: its row
\* moves, and none of the rows that hang on it.
SpaceStart(r, u, p, s) ==
    LET all   == Below(p, Live)
        moved == AccessibleTree(p, u, space[p])
    IN  /\ Accepts(r, "moveToSpace")
        /\ p \in Existing /\ space[p] # s /\ CanEdit(u, p) /\ Returns(p, Live)
        /\ Begin(r, [Idle EXCEPT !.pc = "moveToSpace", !.page = p, !.space = s,
                       !.ids = moved, !.orphans = {c \in all \ moved : parent[c] \in moved}])
        /\ ReadOnly

SpaceWrite(r) ==
    LET here   == Existing \cap (req[r].ids \cup {req[r].page})
        rooted == Existing \cap (req[r].orphans \cup {req[r].page})
    IN  /\ req[r].pc = "moveToSpace"
        /\ space'  = [p \in Page |-> IF p \in here THEN req[r].space ELSE space[p]]
        /\ parent' = [p \in Page |-> IF p \in rooted THEN Nil ELSE parent[p]]
        /\ accessSpace' = [p \in Page |-> IF p \in req[r].ids THEN Nil ELSE accessSpace[p]]
        /\ writers' = [p \in Page |-> IF p \in req[r].ids THEN {} ELSE writers[p]]
        /\ End(r) /\ UNCHANGED <<status, purge, cron>>

\* POST pages/delete without permanentlyDelete
TrashStart(r, u, p) ==
    /\ Accepts(r, "trash")
    /\ p \in Live /\ CanEdit(u, p) /\ Returns(p, Live)
    /\ Begin(r, [Idle EXCEPT !.pc = "trash", !.page = p, !.ids = Below(p, Live)])
    /\ ReadOnly

TrashWrite(r) ==
    /\ req[r].pc = "trash"
    /\ status' = [p \in Page |-> IF p \in req[r].ids \cap Live THEN "trash" ELSE status[p]]
    /\ End(r) /\ UNCHANGED <<parent, space, access, purge, cron>>

\* Mutant: a restored page keeps its parent.
RestoreStartAttached(r, u, p) ==
    /\ Accepts(r, "restore")
    /\ p \in Existing /\ CanEdit(u, p) /\ Returns(p, Existing)
    /\ Begin(r, [Idle EXCEPT !.pc = "restore", !.page = p, !.ids = Below(p, Existing)])
    /\ ReadOnly

\* Mutant: the flag holds the parent's id, not whether it is in the trash.
RestoreStartParentId(r, u, p) ==
    /\ Accepts(r, "restore")
    /\ p \in Existing /\ CanEdit(u, p) /\ Returns(p, Existing)
    /\ Begin(r, [Idle EXCEPT !.pc = "restore", !.page = p, !.ids = Below(p, Existing),
                   !.flag = IF parent[p] \in Live THEN FALSE ELSE parent[p]])
    /\ ReadOnly

\* POST pages/restore.  flag: the parent is in the trash, detach from it.
RestoreStart(r, u, p) ==
    /\ Accepts(r, "restore")
    /\ p \in Existing /\ CanEdit(u, p) /\ Returns(p, Existing)
    /\ Begin(r, [Idle EXCEPT !.pc = "restore", !.page = p,
                   !.ids = Below(p, Existing), !.flag = (parent[p] # Nil /\ parent[p] \notin Live)])
    /\ ReadOnly

RestoreWrite(r) ==
    /\ req[r].pc = "restore"
    /\ status' = [p \in Page |-> IF p \in req[r].ids \cap Existing THEN "live" ELSE status[p]]
    /\ IF req[r].flag THEN Step(r, "detach") ELSE End(r)
    /\ UNCHANGED <<parent, space, access, purge, cron>>

RestoreDetach(r) ==
    /\ req[r].pc = "detach"
    /\ parent' = IF req[r].page \in Existing
                   THEN [parent EXCEPT ![req[r].page] = Nil] ELSE parent
    /\ End(r) /\ UNCHANGED <<status, space, access, purge, cron>>

\* POST pages/duplicate.  s is the space of the copy; copy maps a page to the
\* new id drawn for it; rows maps a new id to the parent its row is inserted with.
DuplicateStart(r, u, p, s) ==
    LET ids  == AccessibleTree(p, u, space[p])
        root == IF s = space[p] THEN parent[p] ELSE Nil
    IN  /\ Accepts(r, "duplicate")
        /\ p \in Live /\ CanEdit(u, p) /\ Returns(p, Live)
        /\ \E copy \in [ids -> Free] :
             /\ \A a, b \in ids : copy[a] = copy[b] => a = b
             /\ Begin(r, [Idle EXCEPT !.pc = "duplicate", !.space = s, !.parent = root,
                  !.rows = [n \in {copy[q] : q \in ids} |->
                              LET q == CHOOSE q \in ids : copy[q] = n
                              IN  IF q = p THEN root ELSE copy[parent[q]]]])
        /\ ReadOnly

DuplicateInsert(r) ==
    LET new == DOMAIN req[r].rows
    IN  /\ req[r].pc = "duplicate" /\ ForeignKey(req[r].parent)
        /\ status' = [n \in Page |-> IF n \in new THEN "live" ELSE status[n]]
        /\ space'  = [n \in Page |-> IF n \in new THEN req[r].space ELSE space[n]]
        /\ parent' = [n \in Page |-> IF n \in new THEN req[r].rows[n] ELSE parent[n]]
        /\ End(r) /\ UNCHANGED <<access, purge, cron>>

\* POST pages/permissions/set: the acting user always stays a writer.  The read
\* step is the controller's, the write step the transaction.
SetAccessStart(r, u, p, W) ==
    /\ Accepts(r, "setAccess")
    /\ p \in Existing /\ CanEdit(u, p)
    /\ Begin(r, [Idle EXCEPT !.pc = "setAccess", !.page = p,
                             !.space = space[p], !.grant = W \cup {u}])
    /\ ReadOnly

SetAccessWrite(r) ==
    LET p == req[r].page
    IN  /\ req[r].pc = "setAccess" /\ p \in Existing
        /\ accessSpace' = [accessSpace EXCEPT ![p] = IF Restricted(p) THEN @ ELSE req[r].space]
        /\ writers' = [writers EXCEPT ![p] = req[r].grant]
        /\ End(r) /\ UNCHANGED <<tree, purge, cron>>

\* POST pages/permissions/clear
ClearAccess(r, u, p) ==
    /\ Accepts(r, "clearAccess")
    /\ Restricted(p) /\ CanEdit(u, p)
    /\ accessSpace' = [accessSpace EXCEPT ![p] = Nil]
    /\ writers' = [writers EXCEPT ![p] = {}]
    /\ UNCHANGED <<tree, purge, req, cron>>

\* Rows that a DELETE FROM pages takes away, page_access included.
DeleteRows(ids) ==
    LET dead == Cascade(ids)
    IN  /\ status' = [p \in Page |-> IF p \in dead THEN "gone" ELSE status[p]]
        /\ parent' = [p \in Page |-> IF p \in dead THEN Nil ELSE parent[p]]
        /\ space'  = [p \in Page |-> IF p \in dead THEN Nil ELSE space[p]]
        /\ accessSpace' = [p \in Page |-> IF p \in dead THEN Nil ELSE accessSpace[p]]
        /\ writers' = [p \in Page |-> IF p \in dead THEN {} ELSE writers[p]]

\* Mutant: only the page itself is queued, not what the delete cascades to.
ForceStartPageOnly(r, p) ==
    /\ Accepts(r, "forceDelete")
    /\ p \in Existing /\ Returns(p, Existing)
    /\ Begin(r, [Idle EXCEPT !.pc = "forceDelete", !.page = p, !.ids = Below(p, Existing)])
    /\ purge' = purge \cup {p}
    /\ UNCHANGED <<tree, access, cron>>

\* POST pages/delete with permanentlyDelete: the attachment jobs are queued, one
\* after the other, before the rows are deleted; when one cannot be queued, or the
\* server stops, the rows stay.  Nobody reads the queue, so the read and the adds
\* are one step.
ForceStart(r, p) ==
    /\ Accepts(r, "forceDelete")
    /\ p \in Existing /\ Returns(p, Existing)
    /\ \/ /\ purge' = purge \cup Below(p, Existing)
          /\ Begin(r, [Idle EXCEPT !.pc = "forceDelete", !.page = p, !.ids = Below(p, Existing)])
       \/ /\ "fail" \in Kind
          /\ \E S \in SUBSET Below(p, Existing) : purge' = purge \cup S
          /\ UNCHANGED req
    /\ UNCHANGED <<tree, access, cron>>

ForceDelete(r) ==
    /\ req[r].pc = "forceDelete" /\ DeleteRows(req[r].ids)
    /\ End(r) /\ UNCHANGED <<purge, cron>>

\* A statement fails (foreign key, dropped connection) or the server stops:
\* the handler goes no further and what it wrote stays.
Fail(r) ==
    /\ req[r].pc # "idle"
    /\ \/ "fail" \in Kind
       \/ req[r].pc \in {"create", "move", "duplicate"} /\ ~ForeignKey(req[r].parent)
       \/ req[r].pc = "setAccess" /\ req[r].page \notin Existing
    /\ End(r) /\ ReadOnly

-------------------------------------------------------------------------------
(* Trash cleanup: the list of old pages is read once, then each page is    *)
(* read again with its descendants, queued and deleted.                    *)

CronOnly == UNCHANGED <<tree, access, purge, req>>

\* The retention period goes by: every page in the trash is older now.
TimePasses ==
    /\ "cleanup" \in Kind /\ InTrash # {}
    /\ status' = [p \in Page |-> IF p \in InTrash THEN "expired" ELSE status[p]]
    /\ UNCHANGED <<parent, space, access, purge, req, cron>>

\* Mutant: no comparison with the retention date.
CleanupStartAllTrash ==
    /\ "cleanup" \in Kind /\ cron.pc = "idle" /\ (Serial => Quiet) /\ InTrash # {}
    /\ cron' = [Sleep EXCEPT !.pc = "next", !.todo = InTrash]
    /\ CronOnly

\* Mutant: the comparison with the retention date is reversed.
CleanupStartRecent ==
    LET young == {p \in Page : status[p] = "trash"}
    IN  /\ "cleanup" \in Kind /\ cron.pc = "idle" /\ (Serial => Quiet) /\ young # {}
        /\ cron' = [Sleep EXCEPT !.pc = "next", !.todo = young]
        /\ CronOnly

CleanupStart ==
    LET old == {p \in Page : status[p] = "expired"}
    IN  /\ "cleanup" \in Kind /\ cron.pc = "idle" /\ (Serial => Quiet) /\ old # {}
        /\ cron' = [Sleep EXCEPT !.pc = "next", !.todo = old]
        /\ CronOnly

\* The job goes on with the pages that are left.
CleanupNext(left) == IF left = {} THEN Sleep ELSE [Sleep EXCEPT !.pc = "next", !.todo = left]

\* A page is read again and the attachments of it and of what hangs on it are
\* queued; whether it is still in the trash is not asked.  When one cannot be
\* queued the job turns to the next page.
CleanupPage(p) ==
    LET left == cron.todo \ {p}
    IN  /\ cron.pc = "next" /\ p \in cron.todo /\ Returns(p, Existing)
        /\ \/ /\ purge' = purge \cup Below(p, Existing)
              /\ cron' = [pc |-> "delete", todo |-> left, page |-> p, ids |-> Below(p, Existing)]
           \/ /\ "fail" \in Kind
              /\ \E S \in SUBSET Below(p, Existing) : purge' = purge \cup S
              /\ cron' \in {CleanupNext(left), Sleep}
        /\ UNCHANGED <<tree, access, req>>

CleanupDelete ==
    /\ cron.pc = "delete" /\ DeleteRows(cron.ids)
    /\ cron' = CleanupNext(cron.todo)
    /\ UNCHANGED <<purge, req>>

\* The delete fails and is only logged, or the server stops during the job.
CleanupFail ==
    /\ "fail" \in Kind /\ cron.pc # "idle"
    /\ cron' \in {CleanupNext(cron.todo), Sleep}
    /\ CronOnly

-------------------------------------------------------------------------------

Init ==
    /\ status = [p \in Page |-> "unused"]
    /\ parent = [p \in Page |-> Nil]
    /\ space = [p \in Page |-> Nil]
    /\ accessSpace = [p \in Page |-> Nil]
    /\ writers = [p \in Page |-> {}]
    /\ purge = {}
    /\ req = [r \in Request |-> Idle]
    /\ cron = Sleep

Begins(r) ==
    \/ \E u \in User, s \in Space, q \in Page \cup {Nil} : CreateStart(r, u, s, q)
    \/ \E u \in User, p \in Page :
         \/ \E q \in Page \cup {Nil} : MoveStart(r, u, p, q)
         \/ \E s \in Space : SpaceStart(r, u, p, s) \/ DuplicateStart(r, u, p, s)
         \/ TrashStart(r, u, p)
         \/ RestoreStart(r, u, p)
         \/ \E W \in SUBSET User : SetAccessStart(r, u, p, W)
         \/ ClearAccess(r, u, p)
    \/ \E p \in Page : ForceStart(r, p)

Writes(r) ==
    \/ \E p \in Page : CreateInsert(r, p)
    \/ MoveWrite(r)
    \/ SpaceWrite(r)
    \/ TrashWrite(r)
    \/ RestoreWrite(r)
    \/ RestoreDetach(r)
    \/ DuplicateInsert(r)
    \/ SetAccessWrite(r)
    \/ ForceDelete(r)
    \/ Fail(r)

Cleanup ==
    \/ CleanupStart
    \/ \E p \in Page : CleanupPage(p)
    \/ CleanupDelete
    \/ CleanupFail

Next ==
    \/ \E r \in Request : Begins(r) \/ Writes(r)
    \/ TimePasses
    \/ Cleanup

Spec == Init /\ [][Next]_vars

\* The scheduler keeps calling the cleanup job, and a statement that is tried
\* again and again succeeds at last.
Fairness ==
    /\ WF_vars(CleanupStart)
    /\ \A p \in Page : /\ SF_vars(CleanupPage(p) /\ cron'.page = p)
                        /\ SF_vars(CleanupDelete /\ cron.page = p)

-------------------------------------------------------------------------------
(* Properties.                                                             *)

PageOrNil == Page \cup {Nil}

Rows == UNION {[S -> PageOrNil] : S \in SUBSET Page}

Handler ==
    [pc : {"idle", "create", "move", "moveToSpace", "trash", "restore", "detach",
           "duplicate", "setAccess", "forceDelete"},
     page : PageOrNil, parent : PageOrNil, space : Space \cup {Nil},
     ids : SUBSET Page, orphans : SUBSET Page, grant : SUBSET User, flag : BOOLEAN,
     rows : Rows]

\* Every variable has the type its column, queue or handler gives it.
TypeOK ==
    /\ status \in [Page -> {"unused", "live", "trash", "expired", "gone"}]
    /\ parent \in [Page -> PageOrNil]
    /\ space \in [Page -> Space \cup {Nil}]
    /\ accessSpace \in [Page -> Space \cup {Nil}]
    /\ writers \in [Page -> SUBSET User]
    /\ purge \in SUBSET Page
    /\ req \in [Request -> Handler]
    /\ cron \in [pc : {"idle", "next", "delete"}, todo : SUBSET Page,
                 page : PageOrNil, ids : SUBSET Page]

\* The rows that hang on a page, its children and its page_access row, never
\* outlive it, however creates, moves and deletes interleave (foreign keys,
\* cascade, and the write steps that do nothing when the row is gone).
NoDanglingRows ==
    \A p \in Page :
        /\ p \in Existing /\ parent[p] # Nil => parent[p] \in Existing
        /\ p \notin Existing => parent[p] = Nil /\ ~Restricted(p) /\ writers[p] = {}

\* A copy in flight is closed: its ids are drawn for it alone and its pages
\* hang on each other or on the parent of the copied root.
CopiesAreTrees ==
    \A r \in Request :
        /\ \A n \in DOMAIN req[r].rows :
             /\ status[n] = "unused"
             /\ req[r].rows[n] \in DOMAIN req[r].rows \cup {req[r].parent}
        /\ \A q \in Request \ {r} : DOMAIN req[r].rows \cap DOMAIN req[q].rows = {}

\* Whatever row a delete takes, its attachments have a deletion job, for nothing
\* else ever finds them again; and no page that still exists has one.
PurgedWithPage ==
    /\ \A p \in Page : status[p] = "gone" => p \in purge
    /\ Quiet => \A p \in purge : status[p] = "gone"

-------------------------------------------------------------------------------
(* The abstract tree.  A page past its retention period is in the trash; a *)
(* page that a restore is about to detach counts as detached.              *)

Detached(p) == \E r \in Request : req[r].pc = "detach" /\ req[r].page = p

Tree == INSTANCE PageForest WITH
    status <- [p \in Page |-> IF status[p] = "expired" THEN "trash" ELSE status[p]],
    parent <- [p \in Page |-> IF Detached(p) THEN Nil ELSE parent[p]]

\* One request at a time, the handlers with all their statements do what the
\* abstract tree does in one step: a subtree is created, moved, trashed,
\* restored and deleted as a whole.
ImplementsForest == Tree!Spec
===============================================================================
