---------------------------- MODULE TrashRetention ----------------------------
(***************************************************************************)
(* What the trash cleanup job takes and when.  It lists the expired pages   *)
(* once and then deletes them one by one with what hangs on them, while     *)
(* requests go on (core/page/services/trash-cleanup.service.ts).            *)
(***************************************************************************)
EXTENDS PageTree

VARIABLE touched   \* history: pages restored or moved since the job made its list

hvars == <<vars, touched>>

Moved    == {p \in Page : parent'[p] # parent[p]}
Restored == {p \in InTrash : status'[p] = "live"}

HInit == Init /\ touched = {}
HNext == Next /\ touched' = IF cron'.pc = "idle" THEN {} ELSE touched \cup Moved \cup Restored
HSpec == HInit /\ [][HNext]_hvars

FairSpec == HSpec /\ Fairness
-------------------------------------------------------------------------------
(* Properties.                                                             *)

\* Whoever deletes a page for good before its retention period is over is a
\* permanent delete of it or of a page above; or the cleanup job, when a page
\* above it has expired, or somebody has restored or moved it or a page above
\* since the job made its list.  The last is what the code does and not what
\* the trash tells its users ("Pages in trash will be permanently deleted after
\* {{count}} days."): the delete does not look at deletedAt again.
RetentionKept ==
    [][\A p \in Existing : status[p] # "expired" /\ status'[p] = "gone" =>
          \/ \E r \in Request : req[r].pc = "forceDelete" /\ p \in Cascade(req[r].ids)
          \/ \E a \in Ancestors(p) : status[a] = "expired" \/ a \in touched]_hvars

\* A page past the retention period does not stay: it is deleted or restored.
ExpiredGoes == \A p \in Page : (status[p] = "expired") ~> (status[p] # "expired")
===============================================================================
