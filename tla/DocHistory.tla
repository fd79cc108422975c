------------------------------ MODULE DocHistory ------------------------------
(***************************************************************************)
(* How the changes of a collaborative document reach the page row and its   *)
(* history, and who is credited for them: the persistence extension on the   *)
(* collaboration server (onChange, onStoreDocument, afterUnloadDocument),    *)
(* the set of contributors in redis and the history worker.                  *)
(*                                                                           *)
(* One page, and one server that has its document loaded (CollabLock).  A    *)
(* store and a history job are split at every statement they wait for.       *)
(***************************************************************************)
EXTENDS Naturals, FiniteSets

CONSTANTS
    User,
    Content,    \* what a document can say; a change may lead back to an earlier content
    Blank,      \* the content of a new page
    Attempts,   \* attempts of a history job
    Nil

ASSUME ContentAssumption == Blank \in Content /\ Nil \notin Content
ASSUME AttemptsAssumption == Attempts \in Nat \ {0}
ASSUME UserAssumption == IsFiniteSet(User)

VARIABLES
    page,          \* pages.content, Nil when the row is gone
    last,          \* the content of the newest page_history row, or Nil
    doc,           \* the loaded document, or Nil
    debounced,     \* a store is scheduled
    contributors,  \* users who changed the loaded document since the last store
    store,         \* the store that runs, or Nil
    credit,        \* redis history:contributors:<page>
    job,           \* the history job with this page's id: its state and failed attempts
    worker,        \* the history job's handler, or Nil
    watchers,      \* users who watch the page
    unsaved,       \* history: users whose changes no store has picked up
    owed,          \* history: users with a change in the row that no version lists since
    excused        \* history: users a failure or crash may have lost

vars == <<page, last, doc, debounced, contributors, store, credit, job, worker,
          watchers, unsaved, owed, excused>>
document == <<doc, debounced, contributors>>
history == <<last, watchers, credit>>
ghosts == <<unsaved, owed, excused>>

NoJob == [state |-> "none", failed |-> 0]
Job == {NoJob} \cup [state : {"waiting", "active"}, failed : 0..(Attempts - 1)]
Store == [pc : {"tx", "sadd", "enqueue"}, content : Content,
          editing : SUBSET User, authors : SUBSET User]
Worker == [pc : {"compare", "count", "pop", "save"}, content : Content,
           n : 0..Cardinality(User), popped : SUBSET User]

ASSUME NilAssumption == Nil \notin Store \cup Worker

InStore(pc) == store # Nil /\ store.pc = pc
InWorker(pc) == worker # Nil /\ worker.pc = pc

\* The users of a store that has changed the row and not reached redis yet, and
\* those whom a running job has taken from there.
Editing == IF InStore("sadd") THEN store.editing ELSE {}
Popped == IF InWorker("save") THEN worker.popped ELSE {}

Init ==
    /\ page = Blank /\ last = Nil
    /\ doc = Nil /\ debounced = FALSE /\ contributors = {}
    /\ store = Nil /\ credit = {} /\ job = NoJob /\ worker = Nil
    /\ watchers = {} /\ unsaved = {} /\ owed = {} /\ excused = {}
-------------------------------------------------------------------------------
(* The document on the collaboration server *)

Load ==
    /\ doc = Nil /\ store = Nil /\ page # Nil
    /\ doc' = page
    /\ UNCHANGED <<page, debounced, contributors, store, history, job, worker, ghosts>>

\* A user changes the document (onChange); hocuspocus schedules a store.
Change(u, c) ==
    /\ doc # Nil /\ c # doc
    /\ doc' = c
    /\ contributors' = contributors \cup {u}
    /\ debounced' = TRUE
    /\ unsaved' = unsaved \cup {u}
    /\ UNCHANGED <<page, store, history, job, worker, owed, excused>>

\* hocuspocus unloads a document that is stored and not used (afterUnloadDocument).
Unload ==
    /\ doc # Nil /\ ~debounced /\ store = Nil
    /\ doc' = Nil
    /\ contributors' = {}
    /\ UNCHANGED <<page, debounced, store, history, job, worker, ghosts>>

\* onStoreDocument: takes the content and the contributors in one go.
StoreStart ==
    /\ doc # Nil /\ debounced /\ store = Nil
    /\ store' = [pc |-> "tx", content |-> doc, editing |-> contributors, authors |-> unsaved]
    /\ debounced' = FALSE
    /\ contributors' = {}
    /\ unsaved' = {}
    /\ UNCHANGED <<page, doc, history, job, worker, owed, excused>>

\* Mutant: the content is compared with the newest version instead of the row.
StoreNothingNewVersion ==
    /\ InStore("tx")
    /\ page = Nil \/ last = store.content
    /\ store' = Nil
    /\ unsaved' = IF page = store.content \/ page = Nil THEN unsaved ELSE unsaved \cup store.authors
    /\ UNCHANGED <<page, document, history, job, worker, owed, excused>>

\* The row is gone, or says the same already: nothing is written, and the
\* contributors are forgotten with the changes that came to nothing.
StoreNothing ==
    /\ InStore("tx")
    /\ page = Nil \/ page = store.content
    /\ store' = Nil
    /\ UNCHANGED <<page, document, history, job, worker, ghosts>>

\* The transaction locks the row, writes content and ydoc, and commits.
StoreCommit ==
    /\ InStore("tx")
    /\ page # Nil /\ page # store.content
    /\ page' = store.content
    /\ store' = [store EXCEPT !.pc = "sadd"]
    /\ owed' = owed \cup store.authors
    /\ UNCHANGED <<document, history, job, worker, unsaved, excused>>

\* The transaction fails before the row is read: the error is logged, and the
\* contributors are gone.
StoreFailRead ==
    /\ InStore("tx")
    /\ store' = Nil
    /\ unsaved' = unsaved \cup store.authors
    /\ excused' = excused \cup store.authors
    /\ UNCHANGED <<page, document, history, job, worker, owed>>

\* The update or the commit fails: the error is logged, but the row was read and
\* everything below goes on as if it were stored.
StoreFailWrite ==
    /\ InStore("tx")
    /\ page # Nil /\ page # store.content
    /\ store' = [store EXCEPT !.pc = "sadd"]
    /\ unsaved' = unsaved \cup store.authors
    /\ excused' = excused \cup store.authors
    /\ UNCHANGED <<page, document, history, job, worker, owed>>

\* collabHistory.addContributors
StoreCredit ==
    /\ InStore("sadd")
    /\ credit' = credit \cup store.editing
    /\ store' = [store EXCEPT !.pc = "enqueue"]
    /\ UNCHANGED <<page, last, document, job, worker, watchers, ghosts>>

\* enqueuePageHistory: a job with the id of the page is dropped while one is
\* waiting or active.
StoreEnqueue ==
    /\ InStore("enqueue")
    /\ job' = IF job = NoJob THEN [state |-> "waiting", failed |-> 0] ELSE job
    /\ store' = Nil
    /\ UNCHANGED <<page, document, history, worker, ghosts>>

\* Redis or a queue fails: onStoreDocument throws and hocuspocus logs it.
StoreThrow ==
    /\ InStore("sadd") \/ InStore("enqueue")
    /\ store' = Nil
    /\ excused' = excused \cup Editing
    /\ UNCHANGED <<page, document, history, job, worker, unsaved, owed>>

\* The collaboration server stops: what it holds in memory is lost.
CrashServer ==
    /\ doc # Nil \/ store # Nil
    /\ doc' = Nil /\ debounced' = FALSE /\ contributors' = {} /\ store' = Nil
    /\ unsaved' = {}
    /\ excused' = excused \cup Editing
    /\ UNCHANGED <<page, history, job, worker, owed>>

\* The page is deleted for good, with its versions and watchers.
DeletePage ==
    /\ page # Nil
    /\ page' = Nil /\ last' = Nil /\ watchers' = {}
    /\ owed' = {} /\ excused' = {}
    /\ UNCHANGED <<document, store, credit, job, worker, unsaved>>
-------------------------------------------------------------------------------
(* The history worker *)

Finish == job' = NoJob /\ worker' = Nil

\* Reads the page; when it is gone its contributors are cleared.
WorkerRead ==
    /\ job.state = "waiting"
    /\ page # Nil
    /\ job' = [job EXCEPT !.state = "active"]
    /\ worker' = [pc |-> "compare", content |-> page, n |-> 0, popped |-> {}]
    /\ UNCHANGED <<page, document, store, history, ghosts>>

WorkerClear ==
    /\ job.state = "waiting"
    /\ page = Nil
    /\ credit' = {}
    /\ Finish
    /\ UNCHANGED <<page, last, document, store, watchers, ghosts>>

\* Reads the newest version and compares it with the page.
WorkerSame ==
    /\ InWorker("compare")
    /\ last = worker.content
    /\ Finish
    /\ UNCHANGED <<page, document, store, history, ghosts>>

WorkerChanged ==
    /\ InWorker("compare")
    /\ last # worker.content
    /\ worker' = [worker EXCEPT !.pc = "count"]
    /\ UNCHANGED <<page, document, store, history, job, ghosts>>

\* popContributors: scard
WorkerCount ==
    /\ InWorker("count")
    /\ worker' = [worker EXCEPT !.pc = IF credit = {} THEN "save" ELSE "pop",
                                !.n = Cardinality(credit)]
    /\ UNCHANGED <<page, document, store, history, job, ghosts>>

\* Mutant: the whole key is deleted.
WorkerPopDelete(p) ==
    /\ InWorker("pop")
    /\ p \subseteq credit /\ Cardinality(p) = worker.n
    /\ credit' = {}
    /\ worker' = [worker EXCEPT !.pc = "save", !.popped = p]
    /\ UNCHANGED <<page, last, document, store, job, watchers, ghosts>>

\* popContributors: spop with that count takes any members, also ones added since.
WorkerPop(p) ==
    /\ InWorker("pop")
    /\ p \subseteq credit /\ Cardinality(p) = worker.n
    /\ credit' = credit \ p
    /\ worker' = [worker EXCEPT !.pc = "save", !.popped = p]
    /\ UNCHANGED <<page, last, document, store, job, watchers, ghosts>>

\* addPageWatchers, saveHistory: a version with the content read at the start.
WorkerSave ==
    /\ InWorker("save")
    /\ page # Nil
    /\ last' = worker.content
    /\ watchers' = watchers \cup worker.popped
    /\ owed' = owed \ worker.popped
    /\ Finish
    /\ UNCHANGED <<page, document, store, credit, unsaved, excused>>

\* Mutant: one attempt too many.
WorkerFailOnceMore ==
    /\ worker # Nil
    /\ credit' = credit \cup worker.popped
    /\ watchers' \in {watchers, IF page = Nil THEN {} ELSE watchers \cup worker.popped}
    /\ worker' = Nil
    /\ job' = IF job.failed < Attempts THEN [state |-> "waiting", failed |-> job.failed + 1] ELSE NoJob
    /\ UNCHANGED <<page, last, document, store, ghosts>>

\* A statement fails: the contributors are put back, the job is tried again or dropped.
WorkerFail ==
    /\ worker # Nil
    /\ credit' = credit \cup worker.popped
    /\ watchers' \in {watchers, IF page = Nil THEN {} ELSE watchers \cup worker.popped}
    /\ worker' = Nil
    /\ job' = IF job.failed + 1 < Attempts THEN [state |-> "waiting", failed |-> job.failed + 1] ELSE NoJob
    /\ UNCHANGED <<page, last, document, store, ghosts>>

\* The worker process stops: the queue finds the job stalled and hands it out
\* again, or drops it when that has happened before.
CrashWorker ==
    /\ worker # Nil
    /\ worker' = Nil
    /\ job' \in {[job EXCEPT !.state = "waiting"], NoJob}
    /\ excused' = excused \cup worker.popped
    /\ UNCHANGED <<page, document, store, history, unsaved, owed>>

Next ==
    \/ Load \/ Unload
    \/ \E u \in User, c \in Content : Change(u, c)
    \/ StoreStart \/ StoreNothing \/ StoreCommit \/ StoreFailRead \/ StoreFailWrite
    \/ StoreCredit \/ StoreEnqueue \/ StoreThrow
    \/ CrashServer \/ DeletePage
    \/ WorkerRead \/ WorkerClear \/ WorkerSame \/ WorkerChanged \/ WorkerCount
    \/ \E p \in SUBSET User : WorkerPop(p)
    \/ WorkerSave \/ WorkerFail \/ CrashWorker

Spec == Init /\ [][Next]_vars
-------------------------------------------------------------------------------
(* Properties *)

TypeOK ==
    /\ page \in Content \cup {Nil} /\ last \in Content \cup {Nil}
    /\ doc \in Content \cup {Nil} /\ debounced \in BOOLEAN
    /\ store \in Store \cup {Nil} /\ worker \in Worker \cup {Nil} /\ job \in Job
    /\ (worker # Nil) <=> (job.state = "active")
    /\ contributors \subseteq User /\ credit \subseteq User /\ watchers \subseteq User
    /\ unsaved \subseteq User /\ owed \subseteq User /\ excused \subseteq User

\* A user whose change is in the page row is in the set in redis, with the store
\* that will put him there or with the job that took him out, until a version
\* lists him: only a failed store and a crash lose one.
NoContributorLost == owed \subseteq credit \cup Editing \cup Popped \cup excused

\* When the document is unloaded every change is in the row or came to nothing,
\* unless its store failed.
NothingUnsaved == page # Nil /\ doc = Nil /\ store = Nil => unsaved \subseteq excused
===============================================================================
