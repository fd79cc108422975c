--------------------------- MODULE DocHistory_proofs ---------------------------
(***************************************************************************)
(* Proofs about DocHistory, for any users and contents.                     *)
(*                                                                          *)
(* The inductive invariant says, besides the types, where the author of a   *)
(* change is remembered at each stage on its way to the page row (Changed,   *)
(* Carried, Stored) and, from there, to a version (NoContributorLost).      *)
(***************************************************************************)
EXTENDS DocHistory, FiniteSetTheorems, TLAPS

\* Who changed the document since the last store is among its contributors.
Changed == page # Nil => unsaved \subseteq contributors \cup excused

\* A store carries the authors of what it writes.
Carried == page # Nil /\ store # Nil => store.authors \subseteq store.editing \cup excused

\* Without a scheduled store there is nothing to store; an unloaded document
\* has none scheduled.
Stored ==
    /\ page # Nil /\ ~debounced => unsaved \subseteq excused
    /\ doc = Nil => ~debounced

\* Nobody is owed a version of a page that is gone.
Gone == page = Nil => owed = {}

Credited == Changed /\ Carried /\ Stored /\ Gone /\ NoContributorLost

\* The number of some users is at most the number of all.
LEMMA SomeUsers ==
    ASSUME NEW U \in SUBSET User
    PROVE  Cardinality(U) \in 0..Cardinality(User) /\ 0 \in 0..Cardinality(User)
<1>1. Cardinality(User) \in Nat /\ Cardinality(U) \in Nat /\ Cardinality(U) <= Cardinality(User)
  BY UserAssumption, FS_CardinalityType, FS_Subset
<1> QED
  BY <1>1

\* A step keeps the types.
LEMMA TypeStep ==
    ASSUME TypeOK, [Next]_vars
    PROVE  TypeOK'
<1> USE ContentAssumption, AttemptsAssumption, NilAssumption DEF TypeOK, Store,
        Worker, Job, NoJob, document, history, ghosts
<1>1. CASE Load
  BY <1>1 DEF Load
<1>2. CASE Unload
  BY <1>2 DEF Unload
<1>3. ASSUME NEW u \in User, NEW c \in Content, Change(u, c)
      PROVE  TypeOK'
  BY <1>3 DEF Change
<1>4. CASE StoreStart
  BY <1>4 DEF StoreStart
<1>5. CASE StoreNothing
  BY <1>5 DEF StoreNothing, InStore
<1>6. CASE StoreCommit
  BY <1>6 DEF StoreCommit, InStore
<1>7. CASE StoreFailRead
  BY <1>7 DEF StoreFailRead, InStore
<1>8. CASE StoreFailWrite
  BY <1>8 DEF StoreFailWrite, InStore
<1>9. CASE StoreCredit
  BY <1>9 DEF StoreCredit, InStore
<1>10. CASE StoreEnqueue
  BY <1>10 DEF StoreEnqueue, InStore
<1>11. CASE StoreThrow
  BY <1>11 DEF StoreThrow, InStore, Editing
<1>12. CASE CrashServer
  BY <1>12 DEF CrashServer, Editing, InStore
<1>13. CASE DeletePage
  BY <1>13 DEF DeletePage
<1>14. CASE WorkerRead
  BY <1>14, SomeUsers, UserAssumption DEF WorkerRead
<1>15. CASE WorkerClear
  BY <1>15 DEF WorkerClear, Finish
<1>16. CASE WorkerSame
  BY <1>16 DEF WorkerSame, Finish, InWorker
<1>17. CASE WorkerChanged
  BY <1>17 DEF WorkerChanged, InWorker
<1>18. CASE WorkerCount
  <2>1. Cardinality(credit) \in 0..Cardinality(User)
    BY SomeUsers
  <2>2. worker' \in Worker /\ worker \in Worker
    BY <1>18, <2>1 DEF WorkerCount, InWorker
  <2> QED
    BY <1>18, <2>2 DEF WorkerCount, InWorker
<1>19. ASSUME NEW p \in SUBSET User, WorkerPop(p)
      PROVE  TypeOK'
  BY <1>19, ZenonT(60) DEF WorkerPop, InWorker
<1>20. CASE WorkerSave
  BY <1>20 DEF WorkerSave, Finish, InWorker
<1>21. CASE WorkerFail
  BY <1>21 DEF WorkerFail
<1>22. CASE CrashWorker
  BY <1>22 DEF CrashWorker
<1>23. CASE UNCHANGED vars
  BY <1>23 DEF vars
<1> QED
  BY <1>1, <1>2, <1>3, <1>4, <1>5, <1>6, <1>7, <1>8, <1>9, <1>10, <1>11, <1>12,
     <1>13, <1>14, <1>15, <1>16, <1>17, <1>18, <1>19, <1>20, <1>21, <1>22, <1>23
     DEF Next

\* A step keeps the authors where the invariant has them.
LEMMA CreditStep ==
    ASSUME TypeOK, Credited, [Next]_vars
    PROVE  Credited'
<1> USE ContentAssumption, NilAssumption DEF Credited, Changed, Carried, Stored,
        Gone, NoContributorLost, Editing, Popped, InStore, InWorker,
           TypeOK, Store, Worker, Job, NoJob, document, history, ghosts
<1>1. CASE Load
  BY <1>1 DEF Load
<1>2. CASE Unload
  BY <1>2 DEF Unload
<1>3. ASSUME NEW u \in User, NEW c \in Content, Change(u, c)
      PROVE  Credited'
  BY <1>3 DEF Change
<1>4. CASE StoreStart
  BY <1>4 DEF StoreStart
<1>5. CASE StoreNothing
  BY <1>5 DEF StoreNothing
<1>6. CASE StoreCommit
  BY <1>6 DEF StoreCommit
<1>7. CASE StoreFailRead
  BY <1>7 DEF StoreFailRead
<1>8. CASE StoreFailWrite
  BY <1>8 DEF StoreFailWrite
<1>9. CASE StoreCredit
  BY <1>9 DEF StoreCredit
<1>10. CASE StoreEnqueue
  BY <1>10 DEF StoreEnqueue
<1>11. CASE StoreThrow
  BY <1>11 DEF StoreThrow, Editing
<1>12. CASE CrashServer
  BY <1>12 DEF CrashServer, Editing
<1>13. CASE DeletePage
  BY <1>13 DEF DeletePage
<1>14. CASE WorkerRead
  BY <1>14 DEF WorkerRead
<1>15. CASE WorkerClear
  BY <1>15 DEF WorkerClear, Finish
<1>16. CASE WorkerSame
  BY <1>16 DEF WorkerSame, Finish
<1>17. CASE WorkerChanged
  BY <1>17 DEF WorkerChanged
<1>18. CASE WorkerCount
  BY <1>18 DEF WorkerCount
<1>19. ASSUME NEW p \in SUBSET User, WorkerPop(p)
      PROVE  Credited'
  BY <1>19, ZenonT(60) DEF WorkerPop
<1>20. CASE WorkerSave
  BY <1>20 DEF WorkerSave, Finish
<1>21. CASE WorkerFail
  BY <1>21 DEF WorkerFail
<1>22. CASE CrashWorker
  BY <1>22 DEF CrashWorker
<1>23. CASE UNCHANGED vars
  BY <1>23 DEF vars
<1> QED
  BY <1>1, <1>2, <1>3, <1>4, <1>5, <1>6, <1>7, <1>8, <1>9, <1>10, <1>11, <1>12,
     <1>13, <1>14, <1>15, <1>16, <1>17, <1>18, <1>19, <1>20, <1>21, <1>22, <1>23
     DEF Next

\* Every variable keeps its type.
THEOREM Typing == Spec => []TypeOK
<1>1. Init => TypeOK
  <2> SUFFICES ASSUME Init
               PROVE  TypeOK
    OBVIOUS
  <2>1. job \in Job /\ job.state # "active"
    BY DEF Init, Job, NoJob
  <2> QED
    BY <2>1, ContentAssumption DEF Init, TypeOK
<1>2. TypeOK /\ [Next]_vars => TypeOK'
  BY TypeStep
<1> QED
  BY <1>1, <1>2, PTL DEF Spec

LEMMA CreditInvariant == Spec => []Credited
<1>1. Init => Credited
  BY DEF Init, Credited, Changed, Carried, Stored, Gone, NoContributorLost, Editing,
     Popped, InStore, InWorker
<1>2. TypeOK /\ Credited /\ [Next]_vars => Credited'
  BY CreditStep
<1> QED
  BY <1>1, <1>2, Typing, PTL DEF Spec

\* A user whose change is in the page row is not forgotten before a version
\* lists him, unless a store failed or a process crashed.
THEOREM Contributors == Spec => []NoContributorLost
<1>1. Credited => NoContributorLost
  BY DEF Credited
<1> QED
  BY <1>1, CreditInvariant, PTL

\* An unloaded document leaves no change behind, unless its store failed.
THEOREM Unloading == Spec => []NothingUnsaved
<1>1. Credited => NothingUnsaved
  BY DEF Credited, Stored, NothingUnsaved
<1> QED
  BY <1>1, CreditInvariant, PTL
===============================================================================
