---------------------------- MODULE PageTree_proofs ----------------------------
(***************************************************************************)
(* What holds of the page tree for any set of pages, spaces, users and     *)
(* concurrent requests.                                                    *)
(***************************************************************************)
EXTENDS TrashRetention, TLAPS

-------------------------------------------------------------------------------
(* The recursive queries.                                                  *)

\* A query returns rows of the set it ranges over.
LEMMA BelowSubset == ASSUME NEW p, NEW S PROVE Below(p, S) \subseteq S
  BY DEF Below

\* The result of a query is closed under children.
LEMMA BelowClosed ==
  ASSUME NEW p, NEW S, NEW c \in S, parent[c] \in Below(p, S)
  PROVE  c \in Below(p, S)
  BY DEF Below, ChildClosed

\* Every row of a result other than the first was reached through its parent.
LEMMA BelowParent ==
  ASSUME NEW p, NEW S, NEW q \in Below(p, S), q # p
  PROVE  parent[q] \in Below(p, S)
  <1> SUFFICES ASSUME parent[q] \notin Below(p, S) PROVE FALSE
    OBVIOUS
  <1> DEFINE T == Below(p, S) \ {q}
  <1>1. T \in SUBSET S
    BY BelowSubset
  <1>2. p \in T
    BY DEF Below
  <1>3. ChildClosed(T, S)
    BY BelowClosed DEF ChildClosed
  <1>4. q \in T
    BY <1>1, <1>2, <1>3 DEF Below
  <1> QED
    BY <1>4

-------------------------------------------------------------------------------
(* Types.                                                                  *)

\* An idle handler is a handler that holds nothing.
LEMMA IdleType == NoRows \in Rows /\ Idle \in Handler
  <1>1. NoRows \in [{} -> PageOrNil]
    BY DEF NoRows
  <1>2. NoRows \in Rows
    BY <1>1 DEF Rows
  <1> QED
    BY <1>2 DEF Idle, Handler, PageOrNil

\* Every step of the tree keeps the types of its variables.
LEMMA TypingStep == TypeOK /\ [Next]_vars => TypeOK'
  <1> SUFFICES ASSUME TypeOK, [Next]_vars PROVE TypeOK'
    OBVIOUS
  <1> USE DEF PageOrNil
  <1>a. Live \subseteq Page /\ Existing \subseteq Page /\ Free \subseteq Page
    BY DEF Live, Existing, InTrash, Free
  <1>b. \A p, S : Below(p, S) \subseteq S
    BY BelowSubset
  <1>1. ASSUME NEW r \in Request, Begins(r) PROVE TypeOK'
    <2>0. Idle \in Handler
      BY IdleType
    <2>1. ASSUME NEW h \in Handler, Begin(r, h), ReadOnly PROVE TypeOK'
      BY <2>1 DEF Begin, ReadOnly, TypeOK, tree, access
    <2>2. ASSUME NEW u \in User, NEW s \in Space, NEW q \in PageOrNil, CreateStart(r, u, s, q)
          PROVE  TypeOK'
      <3> DEFINE h == [Idle EXCEPT !.pc = "create", !.parent = q, !.space = s]
      <3>1. h \in Handler
        BY <2>0 DEF Handler
      <3> QED
        BY <2>1, <2>2, <3>1 DEF CreateStart
    <2>3. ASSUME NEW u \in User, NEW p \in Page, NEW q \in PageOrNil, MoveStart(r, u, p, q)
          PROVE  TypeOK'
      <3> DEFINE h == [Idle EXCEPT !.pc = "move", !.page = p,
                           !.parent = q, !.flag = (parent[p] = q)]
      <3>1. h \in Handler
        BY <2>0 DEF Handler
      <3> QED
        BY <2>1, <2>3, <3>1 DEF MoveStart
    <2>4. ASSUME NEW u \in User, NEW p \in Page, NEW s \in Space, SpaceStart(r, u, p, s)
          PROVE  TypeOK'
      <3> DEFINE moved == AccessibleTree(p, u, space[p])
                 orph  == {c \in Below(p, Live) \ moved : parent[c] \in moved}
                 h == [Idle EXCEPT !.pc = "moveToSpace", !.page = p, !.space = s,
                         !.ids = moved, !.orphans = orph]
      <3>1. moved \subseteq Page
        BY <1>a, <1>b DEF AccessibleTree, FilterAccessible
      <3>2. orph \subseteq Page
        BY <1>a, <1>b
      <3> HIDE DEF moved, orph
      <3>3. h \in Handler
        BY <2>0, <3>1, <3>2 DEF Handler
      <3> QED
        BY <2>1, <2>4, <3>3 DEF SpaceStart, moved, orph
    <2>5. ASSUME NEW u \in User, NEW p \in Page, NEW s \in Space, DuplicateStart(r, u, p, s)
          PROVE  TypeOK'
      <3> DEFINE ids  == AccessibleTree(p, u, space[p])
                 root == IF s = space[p] THEN parent[p] ELSE Nil
      <3>1. PICK copy \in [ids -> Free] :
              Begin(r, [Idle EXCEPT !.pc = "duplicate", !.space = s, !.parent = root,
                !.rows = [n \in {copy[q] : q \in ids} |->
                            LET q == CHOOSE q \in ids : copy[q] = n
                            IN  IF q = p THEN root ELSE copy[parent[q]]]])
        BY <2>5 DEF DuplicateStart
      <3> DEFINE rows == [n \in {copy[q] : q \in ids} |->
                            LET q == CHOOSE q \in ids : copy[q] = n
                            IN  IF q = p THEN root ELSE copy[parent[q]]]
                 h == [Idle EXCEPT !.pc = "duplicate", !.space = s, !.parent = root,
                         !.rows = rows]
      <3>2. root \in PageOrNil
        BY DEF TypeOK
      <3>3. \A q \in ids : q # p => parent[q] \in ids
        BY BelowParent DEF AccessibleTree
      <3>4. rows \in [{copy[q] : q \in ids} -> PageOrNil]
        <4> SUFFICES ASSUME NEW n \in {copy[q] : q \in ids} PROVE rows[n] \in PageOrNil
          OBVIOUS
        <4> DEFINE q == CHOOSE q \in ids : copy[q] = n
        <4>1. q \in ids /\ copy[q] = n
          OBVIOUS
        <4>2. q # p => copy[parent[q]] \in Page
          BY <1>a, <3>3, <4>1
        <4>3. rows[n] = IF q = p THEN root ELSE copy[parent[q]]
          OBVIOUS
        <4> HIDE DEF rows, root, q
        <4> QED
          BY <3>2, <4>2, <4>3
      <3>5. {copy[q] : q \in ids} \in SUBSET Page
        BY <1>a
      <3> HIDE DEF rows, root
      <3>6. rows \in Rows
        BY <3>4, <3>5 DEF Rows
      <3>7. h \in Handler
        BY <2>0, <3>2, <3>6 DEF Handler
      <3>8. Begin(r, h) /\ ReadOnly
        BY <3>1, <2>5 DEF DuplicateStart, rows, root
      <3> HIDE DEF h
      <3> QED
        BY <2>1, <3>7, <3>8
    <2>6. ASSUME NEW u \in User, NEW p \in Page, TrashStart(r, u, p) PROVE TypeOK'
      <3> DEFINE h == [Idle EXCEPT !.pc = "trash", !.page = p, !.ids = Below(p, Live)]
      <3>1. h \in Handler
        BY <2>0, <1>a, <1>b DEF Handler
      <3> QED
        BY <2>1, <2>6, <3>1 DEF TrashStart
    <2>7. ASSUME NEW u \in User, NEW p \in Page, RestoreStart(r, u, p) PROVE TypeOK'
      <3> DEFINE h == [Idle EXCEPT !.pc = "restore", !.page = p,
                 !.ids = Below(p, Existing), !.flag = (parent[p] # Nil /\ parent[p] \notin Live)]
      <3>1. h \in Handler
        BY <2>0, <1>a, <1>b DEF Handler
      <3> QED
        BY <2>1, <2>7, <3>1 DEF RestoreStart
    <2>8. ASSUME NEW u \in User, NEW p \in Page, NEW W \in SUBSET User, SetAccessStart(r, u, p, W)
          PROVE  TypeOK'
      <3> DEFINE h == [Idle EXCEPT !.pc = "setAccess", !.page = p,
                           !.space = space[p], !.grant = W \cup {u}]
      <3>1. h \in Handler
        BY <2>0 DEF Handler, TypeOK
      <3> QED
        BY <2>1, <2>8, <3>1 DEF SetAccessStart
    <2>9. ASSUME NEW u \in User, NEW p \in Page, ClearAccess(r, u, p) PROVE TypeOK'
      BY <2>9 DEF ClearAccess, TypeOK, tree
    <2>10. ASSUME NEW p \in Page, ForceStart(r, p) PROVE TypeOK'
      <3> DEFINE h == [Idle EXCEPT !.pc = "forceDelete", !.page = p, !.ids = Below(p, Existing)]
      <3>1. h \in Handler
        BY <2>0, <1>a, <1>b DEF Handler
      <3>2. purge' \subseteq Page
        BY <2>10, <1>a, <1>b DEF ForceStart, TypeOK
      <3>3. req' \in [Request -> Handler]
        BY <2>10, <3>1 DEF ForceStart, Begin, TypeOK
      <3> QED
        BY <2>10, <3>2, <3>3 DEF ForceStart, TypeOK, tree, access
    <2> QED
      BY <1>1, <2>2, <2>3, <2>4, <2>5, <2>6, <2>7, <2>8, <2>9, <2>10 DEF Begins
  <1>2. ASSUME NEW ids \in SUBSET Page, DeleteRows(ids)
        PROVE  /\ status' \in [Page -> {"unused", "live", "trash", "expired", "gone"}]
               /\ parent' \in [Page -> PageOrNil]
               /\ space' \in [Page -> Space \cup {Nil}]
               /\ accessSpace' \in [Page -> Space \cup {Nil}]
               /\ writers' \in [Page -> SUBSET User]
    BY <1>2 DEF DeleteRows, TypeOK
  <1>3. ASSUME NEW r \in Request, Writes(r) PROVE TypeOK'
    <2>0. /\ Idle \in Handler /\ req[r] \in Handler
          /\ \A n \in DOMAIN req[r].rows : n \in Page /\ req[r].rows[n] \in PageOrNil
      <3>1. req[r] \in Handler
        BY DEF TypeOK
      <3>2. PICK S \in SUBSET Page : req[r].rows \in [S -> PageOrNil]
        BY <3>1 DEF Handler, Rows
      <3> QED
        BY IdleType, <3>1, <3>2
    <2>1. End(r) => req' \in [Request -> Handler]
      BY <2>0 DEF End, TypeOK
    <2>2. ASSUME NEW p \in Page, CreateInsert(r, p) PROVE TypeOK'
      BY <2>0, <2>1, <2>2 DEF CreateInsert, TypeOK, access, Handler
    <2>3. CASE MoveWrite(r)
      BY <2>0, <2>1, <2>3 DEF MoveWrite, TypeOK, access, Handler
    <2>4. CASE SpaceWrite(r)
      <3>1. writers' \in [Page -> SUBSET User]
        BY <2>4 DEF SpaceWrite, TypeOK
      <3>2. space' \in [Page -> Space \cup {Nil}] /\ accessSpace' \in [Page -> Space \cup {Nil}]
        BY <2>0, <2>4 DEF SpaceWrite, TypeOK, Handler
      <3>3. parent' \in [Page -> PageOrNil]
        BY <2>4 DEF SpaceWrite, TypeOK
      <3> QED
        BY <2>1, <2>4, <3>1, <3>2, <3>3 DEF SpaceWrite, TypeOK
    <2>5. CASE TrashWrite(r)
      BY <2>1, <2>5 DEF TrashWrite, TypeOK, access
    <2>6. CASE RestoreWrite(r)
      <3>1. Step(r, "detach") => req' \in [Request -> Handler]
        BY <2>0, SMTT(30) DEF Step, TypeOK, Handler
      <3> QED
        BY <2>1, <2>6, <3>1 DEF RestoreWrite, TypeOK, access
    <2>7. CASE RestoreDetach(r)
      BY <2>1, <2>7 DEF RestoreDetach, TypeOK, access
    <2>8. CASE DuplicateInsert(r)
      <3>1. space' \in [Page -> Space \cup {Nil}]
        BY <2>0, <2>8 DEF DuplicateInsert, TypeOK, Handler
      <3>2. parent' \in [Page -> PageOrNil]
        BY <2>0, <2>8 DEF DuplicateInsert, TypeOK
      <3> QED
        BY <2>1, <2>8, <3>1, <3>2 DEF DuplicateInsert, TypeOK, access
    <2>9. CASE SetAccessWrite(r)
      BY <2>0, <2>1, <2>9 DEF SetAccessWrite, TypeOK, tree, Handler
    <2>10. CASE ForceDelete(r)
      BY <1>2, <2>0, <2>1, <2>10 DEF ForceDelete, TypeOK, Handler
    <2>11. CASE Fail(r)
      BY <2>1, <2>11 DEF Fail, ReadOnly, TypeOK, tree, access
    <2> QED
      BY <1>3, <2>2, <2>3, <2>4, <2>5, <2>6, <2>7, <2>8, <2>9, <2>10, <2>11 DEF Writes
  <1>4. CASE TimePasses
    BY <1>4 DEF TimePasses, TypeOK, access
  <1>5. CASE Cleanup
    <2> USE DEF Sleep, CronOnly, tree, access
    <2>1. CASE CleanupStart
      BY <2>1 DEF CleanupStart, TypeOK
    <2> DEFINE Cron == [pc : {"idle", "next", "delete"}, todo : SUBSET Page,
                        page : PageOrNil, ids : SUBSET Page]
    <2>2. \A left \in SUBSET Page : CleanupNext(left) \in Cron /\ Sleep \in Cron
      BY DEF CleanupNext
    <2>3. ASSUME NEW p \in Page, CleanupPage(p) PROVE TypeOK'
      <3>1. cron' \in Cron
        <4>1. cron.todo \ {p} \in SUBSET Page
          BY DEF TypeOK
        <4> QED
          BY <1>a, <1>b, <2>2, <2>3, <4>1 DEF CleanupPage
      <3>2. purge' \in SUBSET Page
        BY <1>a, <1>b, <2>3 DEF CleanupPage, TypeOK
      <3> QED
        BY <2>3, <3>1, <3>2 DEF CleanupPage, TypeOK
    <2>4. CASE CleanupDelete
      BY <1>2, <2>2, <2>4 DEF CleanupDelete, TypeOK
    <2>5. CASE CleanupFail
      BY <2>2, <2>5 DEF CleanupFail, TypeOK
    <2> QED
      BY <1>5, <2>1, <2>3, <2>4, <2>5 DEF Cleanup
  <1>6. CASE UNCHANGED vars
    BY <1>6 DEF vars, TypeOK
  <1> QED
    BY <1>1, <1>3, <1>4, <1>5, <1>6 DEF Next

\* The invariant of module PageTree that types every variable.
THEOREM Typing == Spec => []TypeOK
  <1>1. Init => TypeOK
    BY IdleType DEF Init, TypeOK, Sleep, PageOrNil
  <1> QED
    BY <1>1, TypingStep, PTL DEF Spec

-------------------------------------------------------------------------------
(* Rows never outlive the page they hang on.                               *)

\* The rows a delete takes away are closed under the foreign key.
LEMMA CascadeClosed ==
  ASSUME NEW ids, NEW c \in Existing, parent[c] \in Cascade(ids)
  PROVE  c \in Cascade(ids)
  BY BelowClosed DEF Cascade

IInv == TypeOK /\ NoDanglingRows /\ CopiesAreTrees

\* A handler that holds no new ids keeps the ids of the others drawn for them alone.
LEMMA NoNewCopies ==
  ASSUME NEW r \in Request, TypeOK, CopiesAreTrees, NEW h \in Handler, h.rows = NoRows,
         Begin(r, h), \A p \in Page : status[p] = "unused" => status'[p] = "unused"
  PROVE  CopiesAreTrees'
  <1>1. req' = [req EXCEPT ![r] = h] /\ req'[r].rows = NoRows
    BY DEF Begin, TypeOK
  <1>2. DOMAIN NoRows = {}
    BY DEF NoRows
  <1>3. \A q \in Request : \A n \in DOMAIN req[q].rows : n \in Page
    <2> TAKE q \in Request
    <2>1. req[q].rows \in Rows
      BY DEF TypeOK, Handler
    <2> QED
      BY <2>1 DEF Rows
  <1>4. \A q \in Request \ {r} : req'[q] = req[q]
    BY <1>1 DEF TypeOK
  <1> QED
    BY <1>1, <1>2, <1>3, <1>4 DEF CopiesAreTrees

\* A step that keeps the set of rows, the parents and the permissions keeps NoDanglingRows.
LEMMA SameRows ==
  ASSUME NoDanglingRows, Existing' = Existing, UNCHANGED <<parent, accessSpace, writers>>
  PROVE  NoDanglingRows'
  BY DEF NoDanglingRows, Restricted

\* A delete keeps NoDanglingRows and hands out no id.
LEMMA DeleteKeeps ==
  ASSUME TypeOK, NoDanglingRows, NEW ids \in SUBSET Page, DeleteRows(ids)
  PROVE  /\ NoDanglingRows'
         /\ \A p \in Page : status[p] = "unused" => status'[p] = "unused"
  <1>1. Cascade(ids) \subseteq Existing
    BY BelowSubset DEF Cascade
  <1>2. Existing' = Existing \ Cascade(ids)
    BY <1>1 DEF DeleteRows, Existing, Live, InTrash, TypeOK
  <1>3. ASSUME NEW p \in Existing', parent'[p] # Nil PROVE parent'[p] \in Existing'
    <2>1. p \in Page /\ parent'[p] = parent[p]
      BY <1>2 DEF DeleteRows, Existing, Live, InTrash
    <2>2. parent[p] \in Existing
      BY <1>2, <1>3, <2>1 DEF NoDanglingRows
    <2>3. parent[p] \notin Cascade(ids)
      BY <1>2, CascadeClosed
    <2> QED
      BY <1>2, <2>1, <2>2, <2>3
  <1>4. ASSUME NEW p \in Page, p \notin Existing'
        PROVE  parent'[p] = Nil /\ accessSpace'[p] = Nil /\ writers'[p] = {}
    BY <1>2, <1>4 DEF DeleteRows, NoDanglingRows, Restricted
  <1>5. NoDanglingRows'
    BY <1>3, <1>4 DEF NoDanglingRows, Restricted
  <1>6. ASSUME NEW p \in Page, status[p] = "unused" PROVE status'[p] = "unused"
    BY <1>1, <1>6 DEF DeleteRows, Existing, Live, InTrash
  <1> QED
    BY <1>5, <1>6

\* The handlers' read steps.
LEMMA BeginsKeep ==
  ASSUME IInv, TypeOK', NEW r \in Request, Begins(r)
  PROVE  NoDanglingRows' /\ CopiesAreTrees'
  <1> USE DEF IInv
  <1>1. ASSUME NEW h \in Handler, h.rows = NoRows, Begin(r, h), UNCHANGED <<tree, access>>
        PROVE  NoDanglingRows' /\ CopiesAreTrees'
    <2>1. NoDanglingRows'
      BY <1>1, SameRows DEF Existing, Live, InTrash, tree, access
    <2>2. CopiesAreTrees'
      BY <1>1, NoNewCopies DEF tree
    <2> QED
      BY <2>1, <2>2
  <1>2. \A h : Begin(r, h) => req'[r] = h
    BY DEF Begin, TypeOK
  <1>3. ASSUME NEW h, Begin(r, h), h.rows = NoRows, UNCHANGED <<tree, access>>
        PROVE  NoDanglingRows' /\ CopiesAreTrees'
    <2>1. h \in Handler
      BY <1>2, <1>3 DEF TypeOK
    <2> QED
      BY <1>1, <1>3, <2>1
  <1>4. Idle.rows = NoRows
    BY DEF Idle
  <1> USE DEF ReadOnly, Idle
  <1>5. ASSUME NEW u \in User, NEW s \in Space, NEW q \in Page \cup {Nil}, CreateStart(r, u, s, q)
        PROVE  NoDanglingRows' /\ CopiesAreTrees'
    BY <1>3, <1>5 DEF CreateStart
  <1>6. ASSUME NEW u \in User, NEW p \in Page, NEW q \in Page \cup {Nil}, MoveStart(r, u, p, q)
        PROVE  NoDanglingRows' /\ CopiesAreTrees'
    BY <1>3, <1>6 DEF MoveStart
  <1>7. ASSUME NEW u \in User, NEW p \in Page, NEW s \in Space, SpaceStart(r, u, p, s)
        PROVE  NoDanglingRows' /\ CopiesAreTrees'
    BY <1>3, <1>7 DEF SpaceStart
  <1>8. ASSUME NEW u \in User, NEW p \in Page, TrashStart(r, u, p)
        PROVE  NoDanglingRows' /\ CopiesAreTrees'
    BY <1>3, <1>8 DEF TrashStart
  <1>9. ASSUME NEW u \in User, NEW p \in Page, RestoreStart(r, u, p)
        PROVE  NoDanglingRows' /\ CopiesAreTrees'
    BY <1>3, <1>9 DEF RestoreStart
  <1>10. ASSUME NEW u \in User, NEW p \in Page, NEW W \in SUBSET User, SetAccessStart(r, u, p, W)
        PROVE  NoDanglingRows' /\ CopiesAreTrees'
    BY <1>3, <1>10 DEF SetAccessStart
  <1>11. ASSUME NEW p \in Page, ForceStart(r, p)
        PROVE  NoDanglingRows' /\ CopiesAreTrees'
    <2>1. CASE UNCHANGED req
      <3>1. CopiesAreTrees'
        BY <1>11, <2>1 DEF ForceStart, CopiesAreTrees, tree
      <3>2. NoDanglingRows'
        BY <1>11, SameRows DEF ForceStart, tree, access, Existing, Live, InTrash
      <3> QED
        BY <3>1, <3>2
    <2>2. CASE Begin(r, [Idle EXCEPT !.pc = "forceDelete", !.page = p,
                                     !.ids = Below(p, Existing)])
      BY <1>3, <1>11, <2>2 DEF ForceStart
    <2> QED
      BY <1>11, <2>1, <2>2 DEF ForceStart
  <1>12. ASSUME NEW u \in User, NEW p \in Page, ClearAccess(r, u, p)
        PROVE  NoDanglingRows' /\ CopiesAreTrees'
    <2>1. CopiesAreTrees'
      BY <1>12 DEF ClearAccess, CopiesAreTrees, tree
    <2>2. Existing' = Existing
      BY <1>12 DEF ClearAccess, tree, Existing, Live, InTrash
    <2>3. NoDanglingRows'
      BY <1>12, <2>2 DEF ClearAccess, tree, NoDanglingRows, Restricted, TypeOK
    <2> QED
      BY <2>1, <2>3
  <1>13. ASSUME NEW u \in User, NEW p \in Page, NEW s \in Space, DuplicateStart(r, u, p, s)
        PROVE  NoDanglingRows' /\ CopiesAreTrees'
    <2> DEFINE ids  == AccessibleTree(p, u, space[p])
               root == IF s = space[p] THEN parent[p] ELSE Nil
    <2>1. PICK copy \in [ids -> Free] :
            Begin(r, [Idle EXCEPT !.pc = "duplicate", !.space = s, !.parent = root,
              !.rows = [n \in {copy[q] : q \in ids} |->
                          LET q == CHOOSE q \in ids : copy[q] = n
                          IN  IF q = p THEN root ELSE copy[parent[q]]]])
      BY <1>13 DEF DuplicateStart
    <2> DEFINE new  == {copy[q] : q \in ids}
               rows == [n \in new |-> LET q == CHOOSE q \in ids : copy[q] = n
                                      IN  IF q = p THEN root ELSE copy[parent[q]]]
    <2>2. \A q \in ids : q # p => parent[q] \in ids
      BY BelowParent DEF AccessibleTree
    <2>3. ASSUME NEW n \in new PROVE rows[n] \in new \cup {root}
      <3> DEFINE q == CHOOSE q \in ids : copy[q] = n
      <3>1. q \in ids
        OBVIOUS
      <3>2. rows[n] = IF q = p THEN root ELSE copy[parent[q]]
        OBVIOUS
      <3>3. q # p => copy[parent[q]] \in new
        BY <2>2, <3>1
      <3> HIDE DEF rows, root, q, new
      <3> QED
        BY <3>2, <3>3
    <2>4. new \subseteq Free
      OBVIOUS
    <2>5. DOMAIN rows = new
      OBVIOUS
    <2>6. /\ req'[r].rows = rows /\ req'[r].parent = root
          /\ \A q \in Request \ {r} : req'[q] = req[q]
      BY <2>1 DEF Begin, TypeOK
    <2> HIDE DEF rows, root, new, ids
    <2>7. UNCHANGED <<status, parent, accessSpace, writers>>
      BY <1>13 DEF DuplicateStart, tree, access
    <2>8. CopiesAreTrees'
      BY <2>3, <2>4, <2>5, <2>6, <2>7 DEF CopiesAreTrees, Free
    <2>9. NoDanglingRows'
      BY <2>7, SameRows DEF Existing, Live, InTrash
    <2> QED
      BY <2>8, <2>9
  <1> QED
    BY <1>5, <1>6, <1>7, <1>8, <1>9, <1>10, <1>11, <1>12, <1>13 DEF Begins

\* The handlers' write steps.
LEMMA WritesKeep ==
  ASSUME IInv, NEW r \in Request, Writes(r)
  PROVE  NoDanglingRows' /\ CopiesAreTrees'
  <1> USE DEF IInv, Existing, Live, InTrash
  <1>0. req[r] \in Handler
    BY DEF TypeOK
  <1>1. ASSUME End(r), \A p \in Page : status[p] = "unused" => status'[p] = "unused"
        PROVE  CopiesAreTrees'
    BY <1>1, NoNewCopies, IdleType DEF End, Begin, Idle
  <1>2. ASSUME NEW p \in Page, CreateInsert(r, p)
        PROVE  NoDanglingRows' /\ CopiesAreTrees'
    <2>1. NoDanglingRows'
      BY <1>2 DEF CreateInsert, ForeignKey, Free, NoDanglingRows, Restricted, TypeOK, access
    <2>2. \A q \in Request : p \notin DOMAIN req[q].rows
      BY <1>2 DEF CreateInsert, Free
    <2>3. \A q \in Request \ {r} : req'[q] = req[q]
      BY <1>2 DEF CreateInsert, End, TypeOK
    <2>4. req'[r].rows = NoRows /\ DOMAIN NoRows = {}
      BY <1>2 DEF CreateInsert, End, TypeOK, Idle, NoRows
    <2>5. \A n \in Page : n # p => status'[n] = status[n]
      BY <1>2 DEF CreateInsert, TypeOK
    <2>6. \A q \in Request : \A n \in DOMAIN req[q].rows : n \in Page
      BY DEF TypeOK, Handler, Rows
    <2>7. CopiesAreTrees'
      BY <2>2, <2>3, <2>4, <2>5, <2>6 DEF CopiesAreTrees
    <2> QED
      BY <2>1, <2>7
  <1>3. CASE MoveWrite(r)
    <2>1. NoDanglingRows'
      BY <1>3 DEF MoveWrite, ForeignKey, NoDanglingRows, Restricted, TypeOK, access
    <2> QED
      BY <1>1, <1>3, <2>1 DEF MoveWrite
  <1>4. CASE SpaceWrite(r)
    <2>1. NoDanglingRows'
      BY <1>4 DEF SpaceWrite, NoDanglingRows, Restricted, TypeOK
    <2> QED
      BY <1>1, <1>4, <2>1 DEF SpaceWrite
  <1>5. CASE TrashWrite(r)
    <2>1. Existing' = Existing
      BY <1>5 DEF TrashWrite, TypeOK
    <2>2. NoDanglingRows'
      BY <1>5, <2>1, SameRows DEF TrashWrite, access
    <2> QED
      BY <1>1, <1>5, <2>2 DEF TrashWrite
  <1>6. CASE RestoreWrite(r)
    <2>1. Existing' = Existing
      BY <1>6 DEF RestoreWrite, TypeOK
    <2>2. NoDanglingRows'
      BY <1>6, <2>1, SameRows DEF RestoreWrite, access
    <2>3. \A p \in Page : status[p] = "unused" => status'[p] = "unused"
      BY <1>6 DEF RestoreWrite
    <2>4. CASE req[r].flag
      <3>1. \A q \in Request : req'[q].rows = req[q].rows /\ req'[q].parent = req[q].parent
        BY <1>0, <1>6, <2>4 DEF RestoreWrite, Step, TypeOK, Handler
      <3>2. \A q \in Request : \A n \in DOMAIN req[q].rows : n \in Page
        BY DEF TypeOK, Handler, Rows
      <3>3. CopiesAreTrees'
        BY <2>3, <3>1, <3>2 DEF CopiesAreTrees
      <3> QED
        BY <2>2, <3>3
    <2> QED
      BY <1>1, <1>6, <2>2, <2>3, <2>4 DEF RestoreWrite
  <1>7. CASE RestoreDetach(r)
    <2>1. NoDanglingRows'
      BY <1>7 DEF RestoreDetach, NoDanglingRows, Restricted, TypeOK, access
    <2> QED
      BY <1>1, <1>7, <2>1 DEF RestoreDetach
  <1>8. CASE DuplicateInsert(r)
    <2> DEFINE new == DOMAIN req[r].rows
    <2>1. /\ new \subseteq Page
          /\ \A n \in new : status[n] = "unused" /\ req[r].rows[n] \in new \cup {req[r].parent}
      BY <1>0 DEF CopiesAreTrees, Handler, Rows
    <2>2. Existing' = Existing \cup new
      BY <1>8, <2>1 DEF DuplicateInsert, TypeOK
    <2>3. req[r].parent = Nil \/ req[r].parent \in Existing
      BY <1>8 DEF DuplicateInsert, ForeignKey
    <2>4. \A n \in Page : parent'[n] = IF n \in new THEN req[r].rows[n] ELSE parent[n]
      BY <1>8 DEF DuplicateInsert
    <2>5. UNCHANGED <<accessSpace, writers>>
      BY <1>8 DEF DuplicateInsert, access
    <2>6. req'[r].rows = NoRows /\ DOMAIN NoRows = {}
      BY <1>8 DEF DuplicateInsert, End, TypeOK, Idle, NoRows
    <2>7. \A q \in Request \ {r} : req'[q] = req[q]
      BY <1>8 DEF DuplicateInsert, End, TypeOK
    <2>8. \A q \in Request : DOMAIN req[q].rows \subseteq Page
      BY DEF TypeOK, Handler, Rows
    <2>9. \A n \in Page \ new : status'[n] = status[n]
      BY <1>8 DEF DuplicateInsert
    <2>10. CopiesAreTrees'
      BY <2>6, <2>7, <2>8, <2>9 DEF CopiesAreTrees
    <2> HIDE DEF new
    <2>11. NoDanglingRows'
      <3>1. ASSUME NEW p \in Existing', parent'[p] # Nil PROVE parent'[p] \in Existing'
        BY <2>1, <2>2, <2>3, <2>4, <3>1 DEF NoDanglingRows
      <3>2. ASSUME NEW p \in Page, p \notin Existing'
            PROVE  parent'[p] = Nil /\ accessSpace'[p] = Nil /\ writers'[p] = {}
        BY <2>2, <2>4, <2>5, <3>2 DEF NoDanglingRows, Restricted
      <3> QED
        BY <3>1, <3>2 DEF NoDanglingRows, Restricted
    <2> QED
      BY <2>10, <2>11
  <1>9. CASE SetAccessWrite(r)
    <2>1. NoDanglingRows'
      BY <1>9 DEF SetAccessWrite, NoDanglingRows, Restricted, TypeOK, tree
    <2> QED
      BY <1>1, <1>9, <2>1 DEF SetAccessWrite, tree
  <1>10. CASE ForceDelete(r)
    <2>1. req[r].ids \in SUBSET Page
      BY <1>0 DEF Handler
    <2> QED
      BY <1>1, <1>10, <2>1, DeleteKeeps DEF ForceDelete
  <1>11. CASE Fail(r)
    <2>1. NoDanglingRows'
      BY <1>11, SameRows DEF Fail, ReadOnly, tree, access
    <2> QED
      BY <1>1, <1>11, <2>1 DEF Fail, ReadOnly, tree
  <1> QED
    BY <1>2, <1>3, <1>4, <1>5, <1>6, <1>7, <1>8, <1>9, <1>10, <1>11 DEF Writes

\* At the start there is no row and no copy.
LEMMA InductiveInit == Init => IInv
  <1>1. Init => TypeOK
    BY IdleType DEF Init, TypeOK, Sleep, PageOrNil
  <1>2. Init => NoDanglingRows
    BY DEF Init, NoDanglingRows, Existing, Live, InTrash, Restricted
  <1>3. Init => \A r \in Request : DOMAIN req[r].rows = {}
    BY DEF Init, Idle, NoRows
  <1> QED
    BY <1>1, <1>2, <1>3 DEF IInv, CopiesAreTrees

\* Every step of the handlers, of time and of the cleanup job keeps the invariant.
LEMMA InductiveStep == IInv /\ [Next]_vars => IInv'
  <1> SUFFICES ASSUME IInv, [Next]_vars PROVE IInv'
    OBVIOUS
  <1>0. TypeOK'
    BY TypingStep DEF IInv
  <1>1. ASSUME UNCHANGED req, \A p \in Page : status[p] = "unused" => status'[p] = "unused"
        PROVE  CopiesAreTrees'
    BY <1>1 DEF IInv, CopiesAreTrees, TypeOK, Handler, Rows
  <1>2. ASSUME NEW r \in Request, Begins(r) PROVE NoDanglingRows' /\ CopiesAreTrees'
    BY <1>0, <1>2, BeginsKeep
  <1>3. ASSUME NEW r \in Request, Writes(r) PROVE NoDanglingRows' /\ CopiesAreTrees'
    BY <1>3, WritesKeep
  <1>4. CASE TimePasses
    <2>1. Existing' = Existing
      BY <1>4 DEF TimePasses, Existing, Live, InTrash, IInv, TypeOK
    <2>2. \A p \in Page : status[p] = "unused" => status'[p] = "unused"
      BY <1>4 DEF TimePasses, InTrash, IInv, TypeOK
    <2>3. UNCHANGED <<parent, accessSpace, writers, req>>
      BY <1>4 DEF TimePasses, access
    <2> QED
      BY <1>0, <1>1, <2>1, <2>2, <2>3, SameRows DEF IInv
  <1>5. CASE Cleanup
    <2>1. ASSUME UNCHANGED <<tree, access, req>> PROVE NoDanglingRows' /\ CopiesAreTrees'
      BY <1>1, <2>1, SameRows DEF IInv, tree, access, Existing, Live, InTrash
    <2>2. CASE CleanupDelete
      <3>1. cron.ids \in SUBSET Page
        BY DEF IInv, TypeOK
      <3> QED
        BY <1>0, <1>1, <2>2, <3>1, DeleteKeeps DEF CleanupDelete, IInv
    <2>3. CASE CleanupStart \/ (\E p \in Page : CleanupPage(p)) \/ CleanupFail
      <3>1. UNCHANGED <<tree, access, req>>
        BY <2>3 DEF CleanupStart, CleanupPage, CleanupFail, CronOnly
      <3> QED
        BY <1>0, <2>1, <3>1 DEF IInv
    <2> QED
      BY <1>0, <1>5, <2>2, <2>3 DEF Cleanup, IInv
  <1>6. CASE UNCHANGED vars
    BY <1>0, <1>1, <1>6, SameRows DEF vars, IInv, Existing, Live, InTrash
  <1> QED
    BY <1>0, <1>2, <1>3, <1>4, <1>5, <1>6 DEF Next, IInv

\* The strengthened invariant holds of every behaviour.
LEMMA Invariance == Spec => []IInv
  BY InductiveInit, InductiveStep, PTL DEF Spec

\* No step of any handler or of the cleanup job leaves a row whose page is gone.
THEOREM NoDangling == Spec => []NoDanglingRows
  <1>1. IInv => NoDanglingRows
    BY DEF IInv
  <1> QED
    BY <1>1, Invariance, PTL

\* The ids drawn for the copies of a subtree stay unused until they are inserted,
\* belong to one duplication, and their rows hang on each other or on its parent.
THEOREM Copies == Spec => []CopiesAreTrees
  <1>1. IInv => CopiesAreTrees
    BY DEF IInv
  <1> QED
    BY <1>1, Invariance, PTL

-------------------------------------------------------------------------------
(* What the cleanup job takes.                                             *)

\* A read step leaves the tree and the cleanup job alone.
LEMMA BeginsRead ==
  ASSUME NEW r \in Request, Begins(r)
  PROVE  UNCHANGED <<tree, cron>>
  <1>2. ReadOnly => UNCHANGED <<tree, cron>>
    BY DEF ReadOnly
  <1>3. ASSUME NEW u \in User, NEW s \in Space, NEW q \in Page \cup {Nil}, CreateStart(r, u, s, q)
        PROVE  UNCHANGED <<tree, cron>>
    BY <1>2, <1>3 DEF CreateStart
  <1>4. ASSUME NEW u \in User, NEW p \in Page, NEW q \in Page \cup {Nil}, MoveStart(r, u, p, q)
        PROVE  UNCHANGED <<tree, cron>>
    BY <1>2, <1>4 DEF MoveStart
  <1>5. ASSUME NEW u \in User, NEW p \in Page, NEW s \in Space, SpaceStart(r, u, p, s)
        PROVE  UNCHANGED <<tree, cron>>
    BY <1>2, <1>5 DEF SpaceStart
  <1>6. ASSUME NEW u \in User, NEW p \in Page, NEW s \in Space, DuplicateStart(r, u, p, s)
        PROVE  UNCHANGED <<tree, cron>>
    BY <1>2, <1>6 DEF DuplicateStart
  <1>7. ASSUME NEW u \in User, NEW p \in Page, TrashStart(r, u, p) \/ RestoreStart(r, u, p)
        PROVE  UNCHANGED <<tree, cron>>
    BY <1>2, <1>7 DEF TrashStart, RestoreStart
  <1>8. ASSUME NEW u \in User, NEW p \in Page, NEW W \in SUBSET User, SetAccessStart(r, u, p, W)
        PROVE  UNCHANGED <<tree, cron>>
    BY <1>2, <1>8 DEF SetAccessStart
  <1>9. ASSUME NEW u \in User, NEW p \in Page, ClearAccess(r, u, p)
        PROVE  UNCHANGED <<tree, cron>>
    BY <1>9 DEF ClearAccess
  <1>10. ASSUME NEW p \in Page, ForceStart(r, p)
         PROVE  UNCHANGED <<tree, cron>>
    BY <1>10 DEF ForceStart
  <1> QED
    BY <1>3, <1>4, <1>5, <1>6, <1>7, <1>8, <1>9, <1>10 DEF Begins

\* How the state of a page changes: an id that is gone stays gone, an expired page
\* is restored or deleted, and a page is deleted by two actions only.
LEMMA StatusSteps ==
  ASSUME IInv, [Next]_vars, NEW p \in Page
  PROVE  /\ status[p] = "gone" => status'[p] = "gone"
         /\ status[p] = "expired" => status'[p] \in {"expired", "live", "gone"}
         /\ status[p] # "gone" /\ status'[p] = "gone" =>
              \/ \E r \in Request : req[r].pc = "forceDelete" /\ p \in Cascade(req[r].ids)
              \/ cron.pc = "delete" /\ p \in Cascade(cron.ids)
  <1> DEFINE Goal ==
        /\ status[p] = "gone" => status'[p] = "gone"
        /\ status[p] = "expired" => status'[p] \in {"expired", "live", "gone"}
        /\ status[p] # "gone" /\ status'[p] = "gone" =>
             \/ \E r \in Request : req[r].pc = "forceDelete" /\ p \in Cascade(req[r].ids)
             \/ cron.pc = "delete" /\ p \in Cascade(cron.ids)
  <1>1. TypeOK /\ CopiesAreTrees
    BY DEF IInv
  <1>2. ASSUME UNCHANGED status PROVE Goal
    BY <1>2
  <1>3. ASSUME NEW r \in Request, Begins(r) PROVE Goal
    BY <1>2, <1>3, BeginsRead DEF tree
  <1>4. ASSUME NEW r \in Request, Writes(r) PROVE Goal
    <2>1. ASSUME NEW q \in Page, CreateInsert(r, q) PROVE Goal
      BY <1>1, <2>1 DEF CreateInsert, Free, TypeOK
    <2>2. CASE TrashWrite(r)
      BY <1>1, <2>2 DEF TrashWrite, Live, TypeOK
    <2>3. CASE RestoreWrite(r)
      BY <1>1, <2>3 DEF RestoreWrite, Existing, Live, InTrash, TypeOK
    <2>4. CASE DuplicateInsert(r)
      BY <1>1, <2>4 DEF DuplicateInsert, CopiesAreTrees
    <2>5. CASE ForceDelete(r)
      <3>1. status'[p] = IF p \in Cascade(req[r].ids) THEN "gone" ELSE status[p]
        BY <2>5 DEF ForceDelete, DeleteRows
      <3> QED
        BY <2>5, <3>1 DEF ForceDelete
    <2>6. CASE MoveWrite(r) \/ SpaceWrite(r) \/ RestoreDetach(r) \/ SetAccessWrite(r) \/ Fail(r)
      BY <1>2, <2>6 DEF MoveWrite, SpaceWrite, RestoreDetach, SetAccessWrite, Fail, ReadOnly, tree
    <2> QED
      BY <1>4, <2>1, <2>2, <2>3, <2>4, <2>5, <2>6 DEF Writes
  <1>5. CASE TimePasses
    BY <1>1, <1>5 DEF TimePasses, InTrash, TypeOK
  <1>6. CASE Cleanup
    <2>1. CASE CleanupDelete
      <3>1. status'[p] = IF p \in Cascade(cron.ids) THEN "gone" ELSE status[p]
        BY <2>1 DEF CleanupDelete, DeleteRows
      <3> QED
        BY <2>1, <3>1 DEF CleanupDelete
    <2>2. CASE CleanupStart \/ (\E q \in Page : CleanupPage(q)) \/ CleanupFail
      BY <1>2, <2>2 DEF CleanupStart, CleanupPage, CleanupFail, CronOnly, tree
    <2> QED
      BY <1>6, <2>1, <2>2 DEF Cleanup
  <1>7. CASE UNCHANGED vars
    BY <1>2, <1>7 DEF vars
  <1> QED
    BY <1>3, <1>4, <1>5, <1>6, <1>7 DEF Next

\* An id that was drawn is never unused again.
LEMMA NeverUnused ==
  ASSUME IInv, [Next]_vars, NEW p \in Page, status[p] # "unused"
  PROVE  status'[p] # "unused"
  <1>1. TypeOK
    BY DEF IInv
  <1>2. ASSUME NEW r \in Request, Begins(r) PROVE status'[p] # "unused"
    BY <1>2, BeginsRead DEF tree
  <1>3. ASSUME NEW r \in Request, Writes(r) PROVE status'[p] # "unused"
    BY <1>1, <1>3 DEF Writes, CreateInsert, MoveWrite, SpaceWrite, TrashWrite, RestoreWrite,
       RestoreDetach, DuplicateInsert, SetAccessWrite, ForceDelete, DeleteRows, Fail, ReadOnly,
       tree, TypeOK
  <1>4. CASE TimePasses \/ Cleanup
    BY <1>4 DEF TimePasses, Cleanup, CleanupStart, CleanupPage, CleanupDelete, CleanupFail,
       DeleteRows, CronOnly, tree
  <1>5. CASE UNCHANGED vars
    BY <1>5 DEF vars
  <1> QED
    BY <1>2, <1>3, <1>4, <1>5 DEF Next

\* What the job holds: it makes a list, takes a page off it, or goes on with less.
LEMMA JobSteps ==
  ASSUME [Next]_vars
  PROVE  \/ UNCHANGED cron
         \/ /\ cron'.todo = {p \in Page : status[p] = "expired"}
            /\ cron'.pc = "next" /\ UNCHANGED status
         \/ \E p \in cron.todo :
              /\ cron.pc = "next" /\ cron'.pc = "delete" /\ UNCHANGED <<status, parent>>
              /\ cron'.todo \subseteq cron.todo /\ cron'.ids = Below(p, Existing)
         \/ cron.pc # "idle" /\ cron'.pc # "delete" /\ cron'.todo \subseteq cron.todo
  <1> USE DEF Sleep, CronOnly, tree
  <1>1. ASSUME NEW r \in Request, Begins(r) PROVE UNCHANGED cron
    BY <1>1, BeginsRead
  <1>2. ASSUME NEW r \in Request, Writes(r) PROVE UNCHANGED cron
    BY <1>2 DEF Writes, CreateInsert, MoveWrite, SpaceWrite, TrashWrite, RestoreWrite,
                RestoreDetach, DuplicateInsert, SetAccessWrite, ForceDelete, Fail, ReadOnly
  <1>3. CASE TimePasses
    BY <1>3 DEF TimePasses
  <1>4. CASE CleanupStart
    BY <1>4 DEF CleanupStart
  <1>5. \A left : CleanupNext(left).pc # "delete" /\ CleanupNext(left).todo \subseteq left
    BY DEF CleanupNext
  <1>6. ASSUME NEW p \in Page, CleanupPage(p)
        PROVE  \/ /\ p \in cron.todo /\ cron.pc = "next" /\ cron'.pc = "delete"
                  /\ UNCHANGED <<status, parent>>
                  /\ cron'.todo \subseteq cron.todo /\ cron'.ids = Below(p, Existing)
               \/ cron.pc # "idle" /\ cron'.pc # "delete" /\ cron'.todo \subseteq cron.todo
    BY <1>5, <1>6 DEF CleanupPage
  <1>7. CASE CleanupDelete \/ CleanupFail
    BY <1>5, <1>7 DEF CleanupDelete, CleanupFail
  <1>8. CASE UNCHANGED vars
    BY <1>8 DEF vars
  <1> QED
    BY <1>1, <1>2, <1>3, <1>4, <1>6, <1>7, <1>8 DEF Next, Cleanup

\* Pages that the job may take, and what hangs on them now.
Taken == {p \in Existing : status[p] = "expired" \/ p \in touched}
Condemned ==
    {p \in Existing : \A T \in SUBSET Existing :
                         Taken \subseteq T /\ ChildClosed(T, Existing) => p \in T}

\* What is on the list had expired; what the job is about to delete hangs on that.
Listed ==
    /\ cron.pc # "idle" =>
         \A p \in cron.todo : status[p] \in {"expired", "gone"} \/ p \in touched
    /\ cron.pc = "delete" =>
         \A p \in cron.ids : status[p] = "gone" \/ p \in Condemned

\* A page that stays keeps hanging on a taken one, unless it is itself moved and
\* so taken: the closed sets of the next state give closed sets of this one.
LEMMA CondemnedStays ==
  ASSUME IInv, IInv', [Next]_vars, touched \cup Moved \cup Restored \subseteq touched',
         NEW p \in Condemned, status'[p] # "gone"
  PROVE  p \in Condemned'
  <1> USE DEF Existing, Live, InTrash
  <1>1. TypeOK /\ TypeOK' /\ NoDanglingRows'
    BY DEF IInv
  <1>2. ASSUME NEW q \in Existing, status'[q] # "gone" PROVE q \in Existing'
    <2>1. status'[q] # "unused"
      BY <1>2, NeverUnused DEF IInv
    <2> QED
      BY <1>1, <1>2, <2>1 DEF TypeOK
  <1>3. p \in Existing'
    BY <1>2 DEF Condemned
  <1> SUFFICES ASSUME NEW T \in SUBSET Existing', Taken' \subseteq T,
                      ChildClosed(T, Existing)'
               PROVE  p \in T
    BY <1>3 DEF Condemned
  <1> DEFINE U == (T \cap Existing) \cup {q \in Existing : status'[q] = "gone"}
  <1>4. U \in SUBSET Existing
    OBVIOUS
  <1>5. ASSUME NEW q \in Taken PROVE q \in U
    <2>1. CASE status'[q] = "gone"
      BY <2>1 DEF Taken
    <2>2. CASE status'[q] # "gone"
      <3>1. q \in Existing /\ q \in Existing'
        BY <1>2, <2>2 DEF Taken
      <3>2. status'[q] = "expired" \/ q \in touched'
        <4>1. CASE status[q] = "expired"
          <5>1. status'[q] \in {"expired", "live"}
            BY <2>2, <3>1, <4>1, StatusSteps
          <5> QED
            BY <3>1, <4>1, <5>1 DEF Restored
        <4>2. CASE q \in touched
          BY <4>2
        <4> QED
          BY <4>1, <4>2 DEF Taken
      <3> QED
        BY <3>1, <3>2 DEF Taken
    <2> QED
      BY <2>1, <2>2
  <1>6. ASSUME NEW c \in Existing, parent[c] \in U PROVE c \in U
    <2>1. CASE status'[c] = "gone"
      BY <2>1
    <2>2. CASE status'[c] # "gone" /\ parent'[c] # parent[c]
      <3>1. c \in Existing' /\ c \in touched'
        BY <1>2, <2>2 DEF Moved
      <3> QED
        BY <3>1 DEF Taken
    <2>3. CASE status'[c] # "gone" /\ parent'[c] = parent[c]
      <3>1. c \in Existing'
        BY <1>2, <2>3
      <3>2. parent'[c] \in Existing'
        <4>1. parent'[c] # Nil
          BY <1>1, <2>3, <1>6, NilAssumption DEF TypeOK
        <4> QED
          BY <1>1, <3>1, <4>1 DEF NoDanglingRows
      <3>3. parent'[c] \in T
        BY <1>1, <1>6, <2>3, <3>2 DEF TypeOK
      <3>4. c \in T
        BY <3>1, <3>3 DEF ChildClosed
      <3> QED
        BY <3>4
    <2> QED
      BY <2>1, <2>2, <2>3
  <1>7. p \in U
    BY <1>4, <1>5, <1>6 DEF Condemned, ChildClosed
  <1> QED
    BY <1>7

\* What is condemned hangs on a page that has expired or was touched.
LEMMA CondemnedHangs ==
  ASSUME NEW p \in Condemned
  PROVE  \E a \in Taken : p \in Below(a, Existing)
  <1> DEFINE T == {q \in Existing : \E a \in Taken : q \in Below(a, Existing)}
  <1>1. Taken \subseteq T
    BY DEF Taken, Below
  <1>2. ChildClosed(T, Existing)
    BY BelowClosed DEF ChildClosed
  <1> QED
    BY <1>1, <1>2 DEF Condemned

\* Who hangs below hangs below what is above.
LEMMA BelowBelow ==
  ASSUME NEW S, NEW p, NEW q \in Below(p, S), NEW x \in Below(q, S)
  PROVE  x \in Below(p, S)
  <1>1. ChildClosed(Below(p, S), S)
    BY BelowClosed DEF ChildClosed
  <1> QED
    BY <1>1, BelowSubset DEF Below

\* The list and the choice of the job stay what they are.
LEMMA ListedStep ==
  ASSUME IInv, IInv', Listed, HNext
  PROVE  Listed'
  <1>1. [Next]_vars
    BY DEF HNext
  <1>2. CASE cron'.pc = "idle"
    BY <1>2 DEF Listed
  <1>3. CASE cron'.pc # "idle"
    <2>1. touched' = touched \cup Moved \cup Restored
      BY <1>3 DEF HNext
    <2>2. ASSUME NEW p \in cron.todo, cron.pc # "idle"
          PROVE  status'[p] \in {"expired", "gone"} \/ p \in touched'
      <3>1. p \in Page
        BY DEF IInv, TypeOK
      <3>2. status[p] = "gone" => status'[p] = "gone"
        BY <1>1, <3>1, StatusSteps
      <3>3. status[p] = "expired" => status'[p] \in {"expired", "gone"} \/ p \in Restored
        BY <1>1, <3>1, StatusSteps DEF Restored, InTrash
      <3> QED
        BY <2>1, <2>2, <3>2, <3>3 DEF Listed
    <2>3. ASSUME NEW p \in cron.ids, cron.pc = "delete", UNCHANGED cron
          PROVE  status'[p] = "gone" \/ p \in Condemned'
      <3>1. p \in Page
        BY DEF IInv, TypeOK
      <3>2. status[p] = "gone" => status'[p] = "gone"
        BY <1>1, <3>1, StatusSteps
      <3>3. status[p] = "gone" \/ p \in Condemned
        BY <2>3 DEF Listed
      <3> QED
        BY <1>1, <2>1, <3>2, <3>3, CondemnedStays
    <2>4. CASE UNCHANGED cron
      BY <1>3, <2>2, <2>3, <2>4 DEF Listed
    <2>5. CASE /\ cron'.todo = {p \in Page : status[p] = "expired"}
               /\ cron'.pc = "next" /\ UNCHANGED status
      BY <2>5 DEF Listed
    <2>6. ASSUME NEW p \in cron.todo, cron.pc = "next", cron'.pc = "delete",
                 UNCHANGED <<status, parent>>,
                 cron'.todo \subseteq cron.todo, cron'.ids = Below(p, Existing)
          PROVE  Listed'
      <3>1. ASSUME NEW q \in Below(p, Existing) PROVE q \in Condemned'
        <4>1. p \in Existing /\ q \in Existing
          BY DEF Below
        <4>2. p \in Taken
          BY <2>6, <4>1 DEF Listed, Taken, Existing, Live, InTrash
        <4>3. Existing' = Existing /\ Taken \subseteq Taken'
          BY <2>1, <2>6 DEF Taken, Existing, Live, InTrash
        <4>4. \A T \in SUBSET Existing' :
                 Taken' \subseteq T /\ ChildClosed(T, Existing)' => q \in T
          BY <2>6, <4>2, <4>3 DEF Below, ChildClosed
        <4> QED
          BY <4>1, <4>3, <4>4 DEF Condemned
      <3> QED
        BY <2>2, <2>6, <3>1 DEF Listed
    <2>7. CASE cron.pc # "idle" /\ cron'.pc # "delete" /\ cron'.todo \subseteq cron.todo
      BY <2>2, <2>7 DEF Listed
    <2> QED
      BY <1>1, <2>4, <2>5, <2>6, <2>7, JobSteps
  <1> QED
    BY <1>2, <1>3

\* Requests and the job interleaved in any way, and either stopping anywhere: the
\* job deletes what hangs on an expired page, or on one that somebody restored or
\* moved after the list was made, and nothing else.
THEOREM Retention == HSpec => RetentionKept
  <1>1. HInit => IInv /\ Listed
    BY InductiveInit DEF HInit, Init, Listed, Sleep
  <1>2. IInv /\ Listed /\ [HNext]_hvars => IInv' /\ Listed'
    <2>1. [HNext]_hvars => [Next]_vars
      BY DEF HNext, hvars
    <2>2. UNCHANGED hvars /\ Listed => Listed'
      BY DEF hvars, vars, Listed, Condemned, Taken, Existing, Live, InTrash, ChildClosed
    <2> QED
      BY <2>1, <2>2, InductiveStep, ListedStep
  <1>3. IInv /\ Listed /\ [HNext]_hvars =>
          [\A p \in Existing : status[p] # "expired" /\ status'[p] = "gone" =>
             \/ \E r \in Request : req[r].pc = "forceDelete" /\ p \in Cascade(req[r].ids)
             \/ \E a \in Ancestors(p) : status[a] = "expired" \/ a \in touched]_hvars
    <2> SUFFICES ASSUME IInv, Listed, HNext, NEW p \in Existing, status'[p] = "gone"
                 PROVE  \/ \E r \in Request : /\ req[r].pc = "forceDelete"
                                              /\ p \in Cascade(req[r].ids)
                        \/ \E a \in Ancestors(p) : status[a] = "expired" \/ a \in touched
      OBVIOUS
    <2>1. p \in Page /\ status[p] # "gone"
      BY DEF Existing, Live, InTrash
    <2>2. [Next]_vars
      BY DEF HNext
    <2>3. CASE cron.pc = "delete" /\ p \in Cascade(cron.ids)
      <3>1. PICK q \in cron.ids \cap Existing : p \in Below(q, Existing)
        BY <2>3 DEF Cascade
      <3>2. q \in Condemned
        BY <2>3, <3>1 DEF Listed, Existing, Live, InTrash
      <3>3. PICK a \in Taken : q \in Below(a, Existing)
        BY <3>2, CondemnedHangs
      <3>4. p \in Below(a, Existing)
        BY <3>1, <3>3, BelowBelow
      <3> QED
        BY <3>3, <3>4 DEF Ancestors, Taken
    <2> QED
      BY <2>1, <2>2, <2>3, StatusSteps
  <1> QED
    BY <1>1, <1>2, <1>3, PTL DEF HSpec, RetentionKept
================================================================================
