--------------------------- MODULE PageTree_refinement ---------------------------
(***************************************************************************)
(* One request at a time, the page tree is the abstract forest: for any    *)
(* set of pages, spaces and users, every statement of a handler is one     *)
(* operation of PageForest or changes nothing there, and whatever row is   *)
(* deleted has its attachments queued for deletion.                        *)
(***************************************************************************)
EXTENDS PageTree_proofs

\* The abstract tree's variables, as PageTree maps to them.
shown == [p \in Page |-> IF status[p] = "expired" THEN "trash" ELSE status[p]]
hung  == [p \in Page |-> IF Detached(p) THEN Nil ELSE parent[p]]

\* The abstract tree again, with what is proved of it.
Forest == INSTANCE PageForest_proofs WITH status <- shown, parent <- hung

-------------------------------------------------------------------------------
(* The invariant.                                                          *)

\* Requests and the cleanup job do not overlap.
Alone ==
    /\ \A r, q \in Request : req[r].pc # "idle" /\ req[q].pc # "idle" => r = q
    /\ cron.pc # "idle" => \A r \in Request : req[r].pc = "idle"

\* Pages that exist, with whatever hangs on them.
Subtree(S) == S \subseteq Existing /\ ChildClosed(S, Existing)

\* What a handler read is still so when it writes.
Fresh(h) ==
    /\ h.pc = "create" => h.parent \in Live \cup {Nil} /\ h.space \in Space
    /\ h.pc = "move" =>
         /\ h.page \in Existing
         /\ h.flag => parent[h.page] = h.parent
         /\ ~h.flag =>
              /\ h.parent \in Live \cup {Nil}
              /\ h.parent # Nil => space[h.parent] = space[h.page]
              /\ \E S \in SUBSET Existing :
                   h.page \in S /\ ChildClosed(S, Existing) /\ h.parent \notin S
    /\ h.pc = "moveToSpace" =>
         LET S == h.ids \cup {h.page}
         IN  /\ S \subseteq Existing /\ h.space \in Space
             /\ parent[h.page] \notin S
             /\ \A p \in S \ {h.page} : parent[p] \in S
             /\ h.orphans = {c \in Live \ S : parent[c] \in S}
    /\ h.pc = "trash" => h.ids \subseteq Live /\ ChildClosed(h.ids, Live)
    /\ h.pc = "restore" =>
         /\ Subtree(h.ids)
         /\ h.page \in h.ids /\ parent[h.page] \notin h.ids
         /\ \A p \in h.ids \ {h.page} : parent[p] \in h.ids
         /\ h.flag <=> parent[h.page] \notin Live \cup {Nil}
    /\ h.pc = "detach" => h.page \in Existing
    /\ h.pc = "duplicate" =>
         /\ h.parent \in Live \cup {Nil} /\ h.space \in Space
         /\ Forest!Climbs(DOMAIN h.rows, h.rows)
    /\ h.pc = "forceDelete" => Subtree(h.ids)

Reading ==
    /\ \A r \in Request : Fresh(req[r])
    /\ cron.pc = "delete" => Subtree(cron.ids)

\* What a delete that is under way is about to take.
Doomed(p) ==
    \/ \E r \in Request : req[r].pc = "forceDelete" /\ p \in req[r].ids
    \/ cron.pc = "delete" /\ p \in cron.ids

\* A job is queued for what is deleted and for what is about to be.
Queued == \A p \in Page : p \in purge <=> status[p] = "gone" \/ Doomed(p)

RInv == IInv /\ Alone /\ Reading /\ Queued /\ Forest!IInv

-------------------------------------------------------------------------------
(* The mapping.                                                            *)

\* The page sets of both trees are the same.
LEMMA SamePages ==
  ASSUME TypeOK
  PROVE  Forest!Live = Live /\ Forest!Existing = Existing
  BY DEF TypeOK, shown, Forest!Live, Forest!Existing, Live, Existing, InTrash

\* Unless a restore is about to detach a page, the parents are the same.
LEMMA SameParents ==
  ASSUME TypeOK, \A r \in Request : req[r].pc # "detach"
  PROVE  hung = parent
  BY DEF TypeOK, hung, Detached

\* An operation of the abstract tree is one of the instance that PageTree states.
LEMMA SameForest ==
  ASSUME [Forest!Next]_(Forest!vars)
  PROVE  [Tree!Next]_(Tree!vars)
  <1> USE DEF shown, hung
  <1>1. ASSUME NEW S, NEW q, NEW s, Forest!Grow(S, q, s) PROVE Tree!Grow(S, q, s)
    BY <1>1 DEF Forest!Grow, Tree!Grow, Forest!Climbs, Tree!Climbs, Forest!Mark, Tree!Mark
  <1>2. ASSUME NEW p, NEW q, Forest!Graft(p, q) PROVE Tree!Graft(p, q)
    BY <1>2 DEF Forest!Graft, Tree!Graft, Forest!Apart, Tree!Apart, Forest!Whole, Tree!Whole,
                Forest!Existing, Tree!Existing
  <1>3. ASSUME NEW S, NEW s, Forest!Transplant(S, s) PROVE Tree!Transplant(S, s)
    BY <1>3 DEF Forest!Transplant, Tree!Transplant, Forest!Existing, Tree!Existing,
                Forest!Live, Tree!Live
  <1>4. ASSUME NEW S, Forest!Trash(S) PROVE Tree!Trash(S)
    BY <1>4 DEF Forest!Trash, Tree!Trash, Forest!Live, Tree!Live, Forest!Whole, Tree!Whole,
                Forest!Mark, Tree!Mark
  <1>5. ASSUME NEW S, Forest!Restore(S) PROVE Tree!Restore(S)
    BY <1>5 DEF Forest!Restore, Tree!Restore, Forest!Existing, Tree!Existing, Forest!Live,
                Tree!Live, Forest!Whole, Tree!Whole, Forest!Mark, Tree!Mark
  <1>6. ASSUME NEW S, Forest!Fell(S) PROVE Tree!Fell(S)
    BY <1>6 DEF Forest!Fell, Tree!Fell, Forest!Existing, Tree!Existing, Forest!Whole,
                Tree!Whole, Forest!Mark, Tree!Mark
  <1>7. Forest!Live = Tree!Live
    BY DEF Forest!Live, Tree!Live
  <1>8. UNCHANGED Forest!vars => UNCHANGED Tree!vars
    BY DEF Forest!vars, Tree!vars
  <1> QED
    BY <1>1, <1>2, <1>3, <1>4, <1>5, <1>6, <1>7, <1>8 DEF Forest!Next, Tree!Next

\* A delete takes no more than the rows its handler read.
LEMMA CascadeWhole ==
  ASSUME NEW ids, Subtree(ids)
  PROVE  Cascade(ids) = ids
  <1>1. \A p \in ids : p \in Below(p, Existing)
    BY DEF Below, Subtree
  <1>2. \A p \in ids : Below(p, Existing) \subseteq ids
    BY DEF Below, Subtree
  <1> QED
    BY <1>1, <1>2 DEF Cascade, Subtree

\* Deleting a subtree that is whole is one operation of the abstract tree.
LEMMA Felling ==
  ASSUME TypeOK, \A r \in Request : req[r].pc # "detach", \A r \in Request : req'[r].pc # "detach",
         NEW ids, Subtree(ids), DeleteRows(ids)
  PROVE  Forest!Fell(ids)
  <1>1. Cascade(ids) = ids /\ ids \subseteq Page
    BY CascadeWhole DEF Subtree, Existing, Live, InTrash
  <1>2. hung = parent
    BY SameParents
  <1>3. Forest!Whole(ids, Forest!Existing)
    BY <1>2, SamePages DEF Forest!Whole, Subtree, ChildClosed
  <1>4. shown' = Forest!Mark(ids, "gone")
    BY <1>1 DEF DeleteRows, shown, Forest!Mark
  <1>5. hung' = [p \in Page |-> IF p \in ids THEN Nil ELSE hung[p]]
    BY <1>1, <1>2 DEF DeleteRows, hung, Detached
  <1>6. space' = [p \in Page |-> IF p \in ids THEN Nil ELSE space[p]]
    BY <1>1 DEF DeleteRows
  <1> QED
    BY <1>3, <1>4, <1>5, <1>6, SamePages DEF Forest!Fell, Subtree

-------------------------------------------------------------------------------
(* The write steps.                                                        *)

\* A handler that ends leaves no handler and no cleanup under way.
LEMMA Ending ==
  ASSUME TypeOK, Alone, NEW r \in Request, req[r].pc # "idle", End(r)
  PROVE  \A q \in Request : req'[q].pc = "idle"
  BY DEF TypeOK, Alone, End, Idle

\* The write steps of the handlers are operations of the abstract tree.
LEMMA WritesMap ==
  ASSUME "fail" \notin Kind, RInv, NEW r \in Request, Writes(r)
  PROVE  [Forest!Next]_(Forest!vars)
  <1> DEFINE h == req[r]
  <1>1. TypeOK /\ Alone /\ Fresh(h) /\ h \in Handler
    BY DEF RInv, IInv, Reading, TypeOK
  <1>2. Forest!Live = Live /\ Forest!Existing = Existing
    BY <1>1, SamePages
  <1>3. Live \subseteq Existing /\ Existing \subseteq Page /\ Nil \notin Page
    BY NilAssumption DEF Live, Existing, InTrash
  <1>4. ASSUME h.pc \notin {"idle", "detach"} PROVE hung = parent
    BY <1>1, <1>4, SameParents DEF Alone
  <1>5. ASSUME h.pc # "idle", End(r) PROVE hung' = [p \in Page |-> parent'[p]]
    BY <1>1, <1>5, Ending DEF hung, Detached
  <1>6. ASSUME NEW p \in Page, CreateInsert(r, p) PROVE Forest!Next
    <2> DEFINE up == [n \in {p} |-> h.parent]
    <2>1. h.parent \in Live \cup {Nil} /\ h.space \in Space /\ status[p] = "unused"
      BY <1>1, <1>6 DEF CreateInsert, Fresh, Free
    <2>2. h.parent # p
      BY <1>3, <2>1 DEF Live
    <2>3. Forest!Climbs({p}, up) /\ up \in [{p} -> {p} \cup {h.parent}]
      BY <2>2 DEF Forest!Climbs
    <2>4. hung' = [n \in Page |-> IF n \in {p} THEN up[n] ELSE hung[n]]
      BY <1>1, <1>4, <1>5, <1>6 DEF CreateInsert, TypeOK
    <2>5. shown' = Forest!Mark({p}, "live") /\ shown[p] = "unused"
      BY <1>1, <1>6, <2>1 DEF CreateInsert, shown, Forest!Mark, TypeOK
    <2>6. space' = [n \in Page |-> IF n \in {p} THEN h.space ELSE space[n]]
      BY <1>1, <1>6 DEF CreateInsert, TypeOK
    <2>7. Forest!Grow({p}, h.parent, h.space)
      BY <2>3, <2>4, <2>5, <2>6 DEF Forest!Grow
    <2> QED
      BY <1>2, <1>6, <2>1, <2>7 DEF Forest!Next
  <1>7. CASE MoveWrite(r)
    <2>1. h.page \in Existing /\ h.pc = "move"
      BY <1>1, <1>7 DEF MoveWrite, Fresh
    <2>2. shown' = shown /\ space' = space
      BY <1>7 DEF MoveWrite, shown
    <2>3. CASE h.flag
      <3>1. hung' = hung
        BY <1>1, <1>4, <1>5, <1>7, <2>1, <2>3 DEF MoveWrite, TypeOK
      <3> QED
        BY <2>2, <3>1 DEF Forest!vars
    <2>4. CASE ~h.flag
      <3>1. /\ h.parent \in Live \cup {Nil}
            /\ h.parent # Nil => space[h.parent] = space[h.page]
        BY <1>1, <2>1, <2>4 DEF Fresh
      <3>2. PICK S \in SUBSET Existing :
              h.page \in S /\ ChildClosed(S, Existing) /\ h.parent \notin S
        BY <1>1, <2>1, <2>4 DEF Fresh
      <3>3. Forest!Apart(h.parent, h.page)
        BY <1>2, <1>4, <2>1, <3>2 DEF Forest!Apart, Forest!Whole, ChildClosed
      <3>4. hung' = [hung EXCEPT ![h.page] = h.parent]
        BY <1>1, <1>4, <1>5, <1>7, <2>1, <2>4 DEF MoveWrite, TypeOK
      <3>5. Forest!Graft(h.page, h.parent)
        BY <1>2, <2>1, <2>2, <3>1, <3>3, <3>4 DEF Forest!Graft
      <3> QED
        BY <1>2, <1>3, <2>1, <3>1, <3>5 DEF Forest!Next
    <2> QED
      BY <2>3, <2>4
  <1>8. CASE SpaceWrite(r)
    <2> DEFINE S == h.ids \cup {h.page}
    <2>1. h.pc = "moveToSpace"
      BY <1>8 DEF SpaceWrite
    <2>2. /\ S \subseteq Existing /\ h.space \in Space
          /\ parent[h.page] \notin S
          /\ \A p \in S \ {h.page} : parent[p] \in S
          /\ h.orphans = {c \in Live \ S : parent[c] \in S}
      BY <1>1, <2>1 DEF Fresh
    <2>3. shown' = shown
      BY <1>8 DEF SpaceWrite, shown
    <2>4. space' = [p \in Page |-> IF p \in S THEN h.space ELSE space[p]]
      BY <1>3, <1>8, <2>2 DEF SpaceWrite
    <2>5. hung' = [p \in Page |-> IF p \in h.orphans \cup {h.page} THEN Nil ELSE hung[p]]
      BY <1>1, <1>3, <1>4, <1>5, <1>8, <2>1, <2>2 DEF SpaceWrite
    <2>6. \A p \in Page : p \in h.orphans \cup {h.page}
             <=> (p \in S /\ hung[p] \notin S) \/ (p \in Live \ S /\ hung[p] \in S)
      BY <1>4, <2>1, <2>2
    <2>7. hung' = [p \in Page |->
             IF (p \in S /\ hung[p] \notin S) \/ (p \in Live \ S /\ hung[p] \in S)
               THEN Nil ELSE hung[p]]
      BY <2>5, <2>6
    <2>8. Forest!Transplant(S, h.space)
      BY <1>2, <2>2, <2>3, <2>4, <2>7 DEF Forest!Transplant
    <2> QED
      BY <1>3, <2>2, <2>8 DEF Forest!Next
  <1>9. CASE TrashWrite(r)
    <2>1. h.pc = "trash" /\ h.ids \subseteq Live /\ ChildClosed(h.ids, Live)
      BY <1>1, <1>9 DEF TrashWrite, Fresh
    <2>2. shown' = Forest!Mark(h.ids, "trash") /\ space' = space
      BY <1>9, <2>1 DEF TrashWrite, shown, Forest!Mark
    <2>3. hung' = hung
      BY <1>1, <1>4, <1>5, <1>9, <2>1 DEF TrashWrite, TypeOK
    <2>4. Forest!Trash(h.ids)
      BY <1>2, <1>4, <2>1, <2>2, <2>3 DEF Forest!Trash, Forest!Whole, ChildClosed
    <2> QED
      BY <1>3, <2>1, <2>4 DEF Forest!Next
  <1>10. CASE RestoreWrite(r)
    <2>1. /\ h.pc = "restore" /\ Subtree(h.ids)
          /\ h.page \in h.ids /\ parent[h.page] \notin h.ids
          /\ \A p \in h.ids \ {h.page} : parent[p] \in h.ids
          /\ h.flag <=> parent[h.page] \notin Live \cup {Nil}
      BY <1>1, <1>10 DEF RestoreWrite, Fresh
    <2>2. shown' = Forest!Mark(h.ids, "live") /\ space' = space
      BY <1>10, <2>1 DEF RestoreWrite, shown, Forest!Mark, Subtree
    <2>3. \A p \in Page : hung'[p] = IF h.flag /\ p = h.page THEN Nil ELSE parent[p]
      <3>1. CASE h.flag
        <4>1. \A q \in Request : /\ req'[q].pc = "detach" <=> q = r
                                 /\ req'[r].page = h.page
          BY <1>1, <1>10, <2>1, <3>1 DEF RestoreWrite, Step, TypeOK, Handler, Alone
        <4> QED
          BY <1>10, <3>1, <4>1 DEF RestoreWrite, hung, Detached
      <3>2. CASE ~h.flag
        BY <1>5, <1>10, <2>1, <3>2 DEF RestoreWrite
      <3> QED
        BY <3>1, <3>2
    <2>4. hung' = [p \in Page |->
             IF p \in h.ids /\ hung[p] \notin h.ids \cup Live THEN Nil ELSE hung[p]]
      <3>1. \A p \in Page : hung'[p] =
               IF p \in h.ids /\ hung[p] \notin h.ids \cup Live THEN Nil ELSE hung[p]
        BY <1>4, <2>1, <2>3
      <3> QED
        BY <3>1 DEF hung
    <2>5. Forest!Restore(h.ids)
      BY <1>2, <1>4, <2>1, <2>2, <2>4 DEF Forest!Restore, Forest!Whole, ChildClosed, Subtree
    <2> QED
      BY <1>3, <2>1, <2>5 DEF Forest!Next, Subtree
  <1>11. CASE RestoreDetach(r)
    <2>1. h.pc = "detach" /\ h.page \in Existing
      BY <1>1, <1>11 DEF RestoreDetach, Fresh
    <2>2. \A q \in Request : req[q].pc = "detach" <=> q = r
      BY <1>1, <2>1 DEF Alone
    <2>3. \A p \in Page : hung[p] = IF p = h.page THEN Nil ELSE parent[p]
      BY <2>2 DEF hung, Detached
    <2>4. \A p \in Page : hung'[p] = IF p = h.page THEN Nil ELSE parent[p]
      BY <1>1, <1>5, <1>11, <2>1 DEF RestoreDetach, TypeOK
    <2>5. hung' = hung
      BY <2>3, <2>4 DEF hung
    <2>6. shown' = shown /\ space' = space
      BY <1>11 DEF RestoreDetach, shown
    <2> QED
      BY <2>5, <2>6 DEF Forest!vars
  <1>12. CASE DuplicateInsert(r)
    <2> DEFINE new == DOMAIN h.rows
    <2>1. /\ h.pc = "duplicate" /\ h.parent \in Live \cup {Nil} /\ h.space \in Space
          /\ Forest!Climbs(new, h.rows)
      BY <1>1, <1>12 DEF DuplicateInsert, Fresh
    <2>2. /\ new \subseteq Page
          /\ \A n \in new : status[n] = "unused" /\ h.rows[n] \in new \cup {h.parent}
          /\ h.rows = [n \in new |-> h.rows[n]]
      BY <1>1 DEF RInv, IInv, CopiesAreTrees, Handler, Rows
    <2>3. h.rows \in [new -> new \cup {h.parent}]
      BY <2>2
    <2>4. shown' = Forest!Mark(new, "live") /\ \A n \in new : shown[n] = "unused"
      BY <1>12, <2>2 DEF DuplicateInsert, shown, Forest!Mark
    <2>5. space' = [n \in Page |-> IF n \in new THEN h.space ELSE space[n]]
      BY <1>12 DEF DuplicateInsert
    <2>6. hung' = [n \in Page |-> IF n \in new THEN h.rows[n] ELSE hung[n]]
      BY <1>1, <1>4, <1>5, <1>12, <2>1 DEF DuplicateInsert
    <2> HIDE DEF new
    <2>7. Forest!Grow(new, h.parent, h.space)
      BY <2>1, <2>3, <2>4, <2>5, <2>6 DEF Forest!Grow
    <2> QED
      BY <1>2, <2>1, <2>2, <2>7 DEF Forest!Next
  <1>13. CASE SetAccessWrite(r) \/ Fail(r)
    <2>1. h.pc # "idle" /\ h.pc # "detach" /\ End(r) /\ UNCHANGED tree
      BY <1>13 DEF SetAccessWrite, Fail, ReadOnly
    <2>2. hung' = hung
      BY <1>1, <1>4, <1>5, <2>1 DEF tree, TypeOK
    <2> QED
      BY <2>1, <2>2 DEF Forest!vars, shown, tree
  <1>14. CASE ForceDelete(r)
    <2>1. h.pc = "forceDelete" /\ Subtree(h.ids) /\ End(r) /\ DeleteRows(h.ids)
      BY <1>1, <1>14 DEF ForceDelete, Fresh
    <2>2. \A q \in Request : req[q].pc # "detach" /\ req'[q].pc # "detach"
      BY <1>1, <2>1, Ending DEF Alone
    <2>3. Forest!Fell(h.ids)
      BY <1>1, <2>1, <2>2, Felling
    <2> QED
      BY <1>3, <2>1, <2>3 DEF Forest!Next, Subtree
  <1> QED
    BY <1>6, <1>7, <1>8, <1>9, <1>10, <1>11, <1>12, <1>13, <1>14 DEF Writes

\* After a write step nobody is at work, save the handler of a restore that has
\* its page still to detach; no job is owed.
LEMMA WritesKeepRead ==
  ASSUME "fail" \notin Kind, RInv, TypeOK', NEW r \in Request, Writes(r)
  PROVE  Alone' /\ Reading' /\ Queued'
  <1> DEFINE h == req[r]
  <1>1. TypeOK /\ Alone /\ Fresh(h) /\ h \in Handler /\ Queued
    BY DEF RInv, IInv, Reading, TypeOK
  <1>2. Existing \subseteq Page /\ Live \subseteq Page
    BY DEF Live, Existing, InTrash
  <1>3. h.pc # "idle" /\ UNCHANGED cron /\ cron.pc = "idle"
    <2>1. h.pc # "idle" /\ UNCHANGED cron
      BY <1>1 DEF Writes, CreateInsert, MoveWrite, SpaceWrite, TrashWrite, RestoreWrite,
                  RestoreDetach, DuplicateInsert, SetAccessWrite, ForceDelete, Fail, ReadOnly
    <2> QED
      BY <1>1, <2>1 DEF Alone
  <1>4. ASSUME \A q \in Request : req'[q].pc = "idle" PROVE Alone' /\ Reading'
    BY <1>3, <1>4 DEF Alone, Reading, Fresh
  <1>5. ASSUME \A q \in Request : req'[q].pc # "forceDelete", h.pc # "forceDelete",
               \A p \in Page : status'[p] = "gone" <=> status[p] = "gone", UNCHANGED purge
        PROVE  Queued'
    <2>1. \A p : ~Doomed(p)
      BY <1>1, <1>3, <1>5 DEF Alone, Doomed
    <2>2. \A p : ~Doomed(p)'
      BY <1>3, <1>5 DEF Doomed
    <2> QED
      BY <1>1, <1>5, <2>1, <2>2 DEF Queued
  <1>6. ASSUME End(r), h.pc # "forceDelete",
               \A p \in Page : status'[p] = "gone" <=> status[p] = "gone", UNCHANGED purge
        PROVE  Alone' /\ Reading' /\ Queued'
    <2>1. \A q \in Request : req'[q].pc = "idle"
      BY <1>1, <1>3, <1>6, Ending
    <2> QED
      BY <1>4, <1>5, <1>6, <2>1
  <1>7. ASSUME NEW p \in Page, CreateInsert(r, p) PROVE Alone' /\ Reading' /\ Queued'
    <2>1. \A n \in Page : status'[n] = "gone" <=> status[n] = "gone"
      BY <1>1, <1>7 DEF CreateInsert, Free, TypeOK
    <2> QED
      BY <1>6, <1>7, <2>1 DEF CreateInsert
  <1>8. CASE MoveWrite(r)
    BY <1>6, <1>8 DEF MoveWrite
  <1>9. CASE SpaceWrite(r)
    BY <1>6, <1>9 DEF SpaceWrite
  <1>10. CASE TrashWrite(r)
    <2>1. \A n \in Page : status'[n] = "gone" <=> status[n] = "gone"
      BY <1>10 DEF TrashWrite, Live
    <2> QED
      BY <1>6, <1>10, <2>1 DEF TrashWrite
  <1>11. CASE RestoreWrite(r)
    <2>1. \A n \in Page : status'[n] = "gone" <=> status[n] = "gone"
      BY <1>11 DEF RestoreWrite, Existing, Live, InTrash
    <2>2. CASE h.flag
      <3>1. /\ req' = [req EXCEPT ![r].pc = "detach"] /\ h.pc = "restore"
            /\ status' = [p \in Page |-> IF p \in h.ids \cap Existing THEN "live" ELSE status[p]]
            /\ purge' = purge
        BY <1>11, <2>2 DEF RestoreWrite, Step
      <3>2. /\ req'[r].pc = "detach" /\ req'[r].page = h.page
            /\ \A q \in Request \ {r} : req'[q].pc = "idle"
        BY <1>1, <3>1 DEF TypeOK, Handler, Alone
      <3>3. h.page \in Existing
        BY <1>1, <3>1 DEF Fresh, Subtree
      <3>4. h.page \in Existing'
        BY <1>2, <3>1, <3>3 DEF Existing, Live, InTrash
      <3>5. Fresh(req[r])'
        BY <3>2, <3>4 DEF Fresh
      <3>6. \A q \in Request \ {r} : Fresh(req[q])'
        BY <3>2 DEF Fresh
      <3>7. Alone' /\ Reading'
        BY <1>3, <3>2, <3>5, <3>6 DEF Alone, Reading
      <3> QED
        BY <1>5, <2>1, <3>1, <3>2, <3>7
    <2>3. CASE ~h.flag
      BY <1>6, <1>11, <2>1, <2>3 DEF RestoreWrite
    <2> QED
      BY <2>2, <2>3
  <1>12. CASE RestoreDetach(r)
    BY <1>6, <1>12 DEF RestoreDetach
  <1>13. CASE DuplicateInsert(r)
    <2>1. \A n \in DOMAIN h.rows : status[n] = "unused"
      BY DEF RInv, IInv, CopiesAreTrees
    <2>2. \A n \in Page : status'[n] = "gone" <=> status[n] = "gone"
      BY <1>13, <2>1 DEF DuplicateInsert
    <2> QED
      BY <1>6, <1>13, <2>2 DEF DuplicateInsert
  <1>14. CASE SetAccessWrite(r) \/ Fail(r)
    BY <1>6, <1>14 DEF SetAccessWrite, Fail, ReadOnly, tree
  <1>15. CASE ForceDelete(r)
    <2>1. h.pc = "forceDelete" /\ Subtree(h.ids) /\ End(r) /\ DeleteRows(h.ids) /\ purge' = purge
      BY <1>1, <1>15 DEF ForceDelete, Fresh
    <2>2. \A q \in Request : req'[q].pc = "idle"
      BY <1>1, <1>3, <2>1, Ending
    <2>3. \A p \in Page : status'[p] = "gone" <=> status[p] = "gone" \/ p \in h.ids
      BY <2>1, CascadeWhole DEF DeleteRows
    <2>4. \A p : Doomed(p) <=> p \in h.ids
      BY <1>1, <1>3, <2>1 DEF Doomed, Alone
    <2>5. \A p : ~Doomed(p)'
      BY <1>3, <2>2 DEF Doomed
    <2>6. Queued'
      BY <1>1, <2>1, <2>3, <2>4, <2>5 DEF Queued
    <2> QED
      BY <1>4, <2>2, <2>6
  <1> QED
    BY <1>7, <1>8, <1>9, <1>10, <1>11, <1>12, <1>13, <1>14, <1>15 DEF Writes

-------------------------------------------------------------------------------
(* The read steps.                                                         *)

\* The chain above a page that exists ends, and what a live page hangs on is live.
LEMMA Climbing ==
  ASSUME RInv, Quiet
  PROVE  /\ hung = parent
         /\ \A p \in Live : parent[p] \in Live \cup {Nil}
         /\ \A S \in (SUBSET Existing) \ {{}} : \E p \in S : parent[p] \notin S
  <1>1. TypeOK /\ hung = parent
    BY SameParents DEF RInv, IInv, Quiet
  <1> QED
    BY <1>1, SamePages DEF RInv, Forest!IInv, Forest!Forest

\* A page moved to another space goes with the pages below it that the user can
\* edit all the way down; the live ones left behind that hung on these are the orphans.
LEMMA SpaceReads ==
  ASSUME RInv, Quiet, NEW u \in User, NEW p \in Existing, CanEdit(u, p), Returns(p, Live),
         NEW moved, moved = AccessibleTree(p, u, space[p])
  PROVE  /\ moved \cup {p} \subseteq Existing
         /\ parent[p] \notin moved \cup {p}
         /\ \A q \in (moved \cup {p}) \ {p} : parent[q] \in moved \cup {p}
         /\ {c \in Below(p, Live) \ moved : parent[c] \in moved}
              = {c \in Live \ (moved \cup {p}) : parent[c] \in moved \cup {p}}
  <1> DEFINE all  == Below(p, Live)
             mine == FilterAccessible(all, u, space[p])
  <1>1. mine \subseteq all /\ all \subseteq Live /\ moved \subseteq mine /\ Live \subseteq Existing
    BY BelowSubset DEF AccessibleTree, FilterAccessible, Existing
  <1>2. \A q \in moved : q # p => parent[q] \in moved
    BY BelowParent DEF AccessibleTree
  <1>3. p \in Live => p \in moved
    <2>1. p \in Live => p \in all
      BY DEF Below
    <2>2. p \in Live => p \in mine
      BY <2>1 DEF FilterAccessible
    <2> QED
      BY <2>2 DEF AccessibleTree, Below
  <1>4. p \notin Live => all = {}
    BY DEF Below
  <1>5. parent[p] # p
    <2>1. PICK q \in {p} : parent[q] \notin {p}
      BY Climbing
    <2> QED
      BY <2>1
  <1>6. parent[p] \notin all
    BY DEF Returns
  <1>7. \A c \in Live : parent[c] \in all => c \in all
    BY BelowClosed
  <1>8. p \notin Live => \A c \in Live : parent[c] # p
    <2>1. Nil # p
      BY NilAssumption DEF Existing, Live, InTrash
    <2> QED
      BY <2>1, Climbing
  <1> HIDE DEF all, mine
  <1> QED
    BY <1>1, <1>2, <1>3, <1>4, <1>5, <1>6, <1>7, <1>8 DEF all

\* The new ids drawn for the copies hang on each other up to the copied root's
\* place, for so do the pages that are copied.
LEMMA CopyClimbs ==
  ASSUME RInv, Quiet, NEW u, NEW p \in Live, NEW S, S = AccessibleTree(p, u, space[p]),
         NEW root \in {parent[p], Nil}, NEW copy \in [S -> Free],
         NEW rows, DOMAIN rows = {copy[q] : q \in S},
         \A q \in S : rows[copy[q]] = IF q = p THEN root ELSE copy[parent[q]]
  PROVE  root \in Live \cup {Nil} /\ Forest!Climbs(DOMAIN rows, rows)
  <1>1. S \subseteq Existing /\ S \subseteq Live
    BY BelowSubset DEF AccessibleTree, FilterAccessible, Existing
  <1>2. root \in Live \cup {Nil}
    BY Climbing
  <1>3. \A q \in S : q # p => parent[q] \in S
    BY BelowParent DEF AccessibleTree
  <1>4. root \notin Free
    BY <1>2, NilAssumption DEF Free, Live
  <1>5. ASSUME NEW T \in (SUBSET DOMAIN rows) \ {{}} PROVE \E n \in T : rows[n] \notin T
    <2> DEFINE A == {q \in S : copy[q] \in T}
    <2>1. A # {} /\ A \subseteq Existing /\ T \subseteq Free
      BY <1>1
    <2>2. PICK q \in A : parent[q] \notin A
      BY <2>1, Climbing
    <2>3. q \in S /\ copy[q] \in T
      OBVIOUS
    <2>4. CASE q = p
      BY <1>4, <2>1, <2>3, <2>4
    <2>5. CASE q # p
      <3>1. parent[q] \in S /\ copy[parent[q]] \notin T
        BY <1>3, <2>2, <2>3, <2>5
      <3>2. rows[copy[q]] = copy[parent[q]]
        BY <2>3, <2>5
      <3> QED
        BY <2>3, <3>1, <3>2
    <2> QED
      BY <2>4, <2>5
  <1> QED
    BY <1>2, <1>5 DEF Forest!Climbs

\* A read step changes nothing of the abstract tree, and what it saw is so.
LEMMA BeginsKeepRead ==
  ASSUME Serial, ClientGuard, "fail" \notin Kind, RInv, TypeOK', NEW r \in Request, Begins(r)
  PROVE  UNCHANGED Forest!vars /\ Alone' /\ Reading' /\ Queued'
  <1> DEFINE Kept == UNCHANGED Forest!vars /\ Alone' /\ Reading' /\ Queued'
  <1>1. TypeOK /\ Alone /\ Reading /\ Queued
    BY DEF RInv, IInv
  <1>2. Live \subseteq Existing /\ Existing \subseteq Page
    BY DEF Live, Existing, InTrash
  <1>3. \A k : Accepts(r, k) => Quiet
    BY DEF Accepts
  <1>4. ASSUME NEW h, Quiet, Begin(r, h), h.pc # "detach", Fresh(h), UNCHANGED <<tree, cron>>,
               \A p : p \in purge' <=> p \in purge \/ (h.pc = "forceDelete" /\ p \in h.ids)
        PROVE  Kept
    <2>1. req'[r] = h /\ \A q \in Request \ {r} : req'[q] = req[q] /\ req[q].pc = "idle"
      BY <1>1, <1>4 DEF Begin, TypeOK, Quiet
    <2>2. UNCHANGED <<status, parent, space>> /\ cron'.pc = "idle" /\ cron.pc = "idle"
      BY <1>4 DEF tree, Quiet
    <2>3. shown' = shown
      BY <2>2 DEF shown
    <2>4. hung' = hung
      BY <1>4, <2>1, <2>2 DEF hung, Detached, Quiet
    <2>5. Alone'
      BY <2>1, <2>2 DEF Alone
    <2>6. Live' = Live /\ Existing' = Existing
      BY <2>2 DEF Live, Existing, InTrash
    <2>7. Fresh(req[r])'
      BY <1>4, <2>1, <2>2, <2>6 DEF Fresh, Subtree, ChildClosed, Forest!Climbs
    <2>8. \A q \in Request \ {r} : Fresh(req[q])'
      BY <2>1 DEF Fresh
    <2>9. Reading'
      BY <2>2, <2>7, <2>8 DEF Reading
    <2>10. \A p : ~Doomed(p)
      BY <1>4 DEF Doomed, Quiet
    <2>11. \A p : Doomed(p)' <=> h.pc = "forceDelete" /\ p \in h.ids
      BY <2>1, <2>2 DEF Doomed
    <2>12. Queued'
      BY <1>1, <1>4, <2>2, <2>10, <2>11 DEF Queued
    <2> QED
      BY <2>2, <2>3, <2>4, <2>5, <2>9, <2>12 DEF Forest!vars
  <1>5. ASSUME NEW h, Quiet, Begin(r, h), h.pc \notin {"detach", "forceDelete"}, Fresh(h), ReadOnly
        PROVE  Kept
    BY <1>4, <1>5 DEF ReadOnly
  <1>6. ASSUME NEW u \in User, NEW s \in Space, NEW q \in Page \cup {Nil}, CreateStart(r, u, s, q)
        PROVE  Kept
    <2> DEFINE h == [Idle EXCEPT !.pc = "create", !.parent = q, !.space = s]
    <2>1. Begin(r, h) /\ ReadOnly /\ Quiet /\ q \in Live \cup {Nil}
      BY <1>3, <1>6 DEF CreateStart
    <2>2. h.pc = "create" /\ h.parent = q /\ h.space = s
      BY DEF Idle
    <2> HIDE DEF h
    <2>3. Fresh(h)
      BY <2>1, <2>2 DEF Fresh
    <2> QED
      BY <1>5, <2>1, <2>2, <2>3
  <1>7. ASSUME NEW u \in User, NEW p \in Page, NEW q \in Page \cup {Nil}, MoveStart(r, u, p, q)
        PROVE  Kept
    <2> DEFINE same == parent[p] = q
               h == [Idle EXCEPT !.pc = "move", !.page = p, !.parent = q, !.flag = same]
    <2>1. /\ Begin(r, h) /\ ReadOnly /\ Quiet /\ p \in Existing
          /\ ~same => q \notin Below(p, Existing)
          /\ ~same /\ q # Nil => q \in Live /\ space[q] = space[p]
      BY <1>3, <1>7 DEF MoveStart
    <2>2. same \in BOOLEAN /\ (same <=> parent[p] = q)
      OBVIOUS
    <2> HIDE DEF same
    <2>3. h.pc = "move" /\ h.page = p /\ h.parent = q /\ (h.flag <=> same)
      BY DEF Idle
    <2> HIDE DEF h
    <2>4. ASSUME ~same
          PROVE  \E S \in SUBSET Existing : p \in S /\ ChildClosed(S, Existing) /\ q \notin S
      <3>1. p \in Below(p, Existing) /\ ChildClosed(Below(p, Existing), Existing)
        BY <2>1, BelowClosed DEF Below, ChildClosed
      <3> QED
        BY <2>1, <2>4, <3>1, BelowSubset
    <2>5. Fresh(h)
      BY <2>1, <2>2, <2>3, <2>4 DEF Fresh
    <2> QED
      BY <1>5, <2>1, <2>3, <2>5
  <1>8. ASSUME NEW u \in User, NEW p \in Page, NEW s \in Space, SpaceStart(r, u, p, s)
        PROVE  Kept
    <2> DEFINE moved == AccessibleTree(p, u, space[p])
               orph  == {c \in Below(p, Live) \ moved : parent[c] \in moved}
               h == [Idle EXCEPT !.pc = "moveToSpace", !.page = p, !.space = s,
                       !.ids = moved, !.orphans = orph]
    <2>1. Begin(r, h) /\ ReadOnly /\ Quiet /\ p \in Existing /\ CanEdit(u, p) /\ Returns(p, Live)
      BY <1>3, <1>8 DEF SpaceStart
    <2>2. /\ moved \cup {p} \subseteq Existing
          /\ parent[p] \notin moved \cup {p}
          /\ \A q \in (moved \cup {p}) \ {p} : parent[q] \in moved \cup {p}
          /\ orph = {c \in Live \ (moved \cup {p}) : parent[c] \in moved \cup {p}}
      BY <2>1, SpaceReads
    <2> HIDE DEF moved, orph
    <2>3. h.pc = "moveToSpace" /\ h.page = p /\ h.space = s /\ h.ids = moved /\ h.orphans = orph
      BY DEF Idle
    <2> HIDE DEF h
    <2>4. Fresh(h)
      BY <2>2, <2>3 DEF Fresh
    <2> QED
      BY <1>5, <2>1, <2>3, <2>4
  <1>9. ASSUME NEW u \in User, NEW p \in Page, NEW s \in Space, DuplicateStart(r, u, p, s)
        PROVE  Kept
    <2> DEFINE S    == AccessibleTree(p, u, space[p])
               root == IF s = space[p] THEN parent[p] ELSE Nil
    <2>1. PICK copy \in [S -> Free] :
            /\ \A a, b \in S : copy[a] = copy[b] => a = b
            /\ Begin(r, [Idle EXCEPT !.pc = "duplicate", !.space = s, !.parent = root,
                 !.rows = [n \in {copy[q] : q \in S} |->
                             LET q == CHOOSE q \in S : copy[q] = n
                             IN  IF q = p THEN root ELSE copy[parent[q]]]])
      BY <1>9 DEF DuplicateStart
    <2> DEFINE rows == [n \in {copy[q] : q \in S} |->
                          LET q == CHOOSE q \in S : copy[q] = n
                          IN  IF q = p THEN root ELSE copy[parent[q]]]
               h == [Idle EXCEPT !.pc = "duplicate", !.space = s, !.parent = root, !.rows = rows]
    <2>2. Begin(r, h) /\ ReadOnly /\ Quiet /\ p \in Live
      BY <1>3, <1>9, <2>1 DEF DuplicateStart
    <2>3. root \in Live \cup {Nil} /\ Forest!Climbs(DOMAIN rows, rows)
      <3>1. root \in {parent[p], Nil}
        OBVIOUS
      <3>2. S = AccessibleTree(p, u, space[p])
        OBVIOUS
      <3>3. \A a, b \in S : copy[a] = copy[b] => a = b
        BY <2>1
      <3> HIDE DEF root, S
      <3>4. DOMAIN rows = {copy[q] : q \in S}
        OBVIOUS
      <3>5. \A q \in S : rows[copy[q]] = IF q = p THEN root ELSE copy[parent[q]]
        <4> TAKE q \in S
        <4> DEFINE n == copy[q]
                   a == CHOOSE a \in S : copy[a] = n
        <4>1. a \in S /\ copy[a] = n
          OBVIOUS
        <4>2. a = q
          BY <3>3, <4>1
        <4>3. rows[n] = IF a = p THEN root ELSE copy[parent[a]]
          OBVIOUS
        <4> HIDE DEF a, rows
        <4> QED
          BY <4>2, <4>3
      <3>6. RInv /\ Quiet /\ p \in Live /\ copy \in [S -> Free]
        BY <2>2
      <3> HIDE DEF rows
      <3> QED
        BY <3>1, <3>2, <3>4, <3>5, <3>6, CopyClimbs, SMTT(30)
    <2> HIDE DEF rows, root
    <2>4. h.pc = "duplicate" /\ h.space = s /\ h.parent = root /\ h.rows = rows
      BY DEF Idle
    <2> HIDE DEF h
    <2>5. Fresh(h)
      BY <2>3, <2>4 DEF Fresh
    <2> QED
      BY <1>5, <2>2, <2>4, <2>5
  <1>10. ASSUME NEW u \in User, NEW p \in Page, TrashStart(r, u, p) PROVE Kept
    <2> DEFINE h == [Idle EXCEPT !.pc = "trash", !.page = p, !.ids = Below(p, Live)]
    <2>1. Begin(r, h) /\ ReadOnly /\ Quiet
      BY <1>3, <1>10 DEF TrashStart
    <2>2. h.pc = "trash" /\ h.ids = Below(p, Live)
      BY DEF Idle
    <2> HIDE DEF h
    <2>3. Fresh(h)
      BY <2>2, BelowSubset, BelowClosed DEF Fresh, ChildClosed
    <2> QED
      BY <1>5, <2>1, <2>2, <2>3
  <1>11. ASSUME NEW p \in Existing, Returns(p, Existing)
         PROVE  /\ Subtree(Below(p, Existing))
                /\ p \in Below(p, Existing) /\ parent[p] \notin Below(p, Existing)
                /\ \A q \in Below(p, Existing) \ {p} : parent[q] \in Below(p, Existing)
    <2>1. Subtree(Below(p, Existing))
      BY BelowSubset, BelowClosed DEF Subtree, ChildClosed
    <2>2. p \in Below(p, Existing)
      BY DEF Below
    <2> QED
      BY <1>11, <2>1, <2>2, BelowParent DEF Returns
  <1>12. ASSUME NEW u \in User, NEW p \in Page, RestoreStart(r, u, p) PROVE Kept
    <2> DEFINE cut == parent[p] # Nil /\ parent[p] \notin Live
               h == [Idle EXCEPT !.pc = "restore", !.page = p,
                       !.ids = Below(p, Existing), !.flag = cut]
    <2>1. Begin(r, h) /\ ReadOnly /\ Quiet /\ p \in Existing /\ Returns(p, Existing)
      BY <1>3, <1>12 DEF RestoreStart
    <2>2. cut \in BOOLEAN /\ (cut <=> parent[p] \notin Live \cup {Nil})
      OBVIOUS
    <2> HIDE DEF cut
    <2>3. h.pc = "restore" /\ h.page = p /\ h.ids = Below(p, Existing) /\ (h.flag <=> cut)
      BY DEF Idle
    <2> HIDE DEF h
    <2>4. Fresh(h)
      BY <1>11, <2>1, <2>2, <2>3 DEF Fresh
    <2> QED
      BY <1>5, <2>1, <2>3, <2>4
  <1>13. ASSUME NEW u \in User, NEW p \in Page, NEW W \in SUBSET User, SetAccessStart(r, u, p, W)
         PROVE  Kept
    <2> DEFINE h == [Idle EXCEPT !.pc = "setAccess", !.page = p,
                         !.space = space[p], !.grant = W \cup {u}]
    <2>1. Begin(r, h) /\ ReadOnly /\ Quiet
      BY <1>3, <1>13 DEF SetAccessStart
    <2>2. h.pc = "setAccess"
      BY DEF Idle
    <2> HIDE DEF h
    <2>3. Fresh(h)
      BY <2>2 DEF Fresh
    <2> QED
      BY <1>5, <2>1, <2>2, <2>3
  <1>14. ASSUME NEW u \in User, NEW p \in Page, ClearAccess(r, u, p) PROVE Kept
    <2>1. UNCHANGED <<status, parent, space, purge, req, cron>>
      BY <1>14 DEF ClearAccess, tree
    <2>2. Live' = Live /\ Existing' = Existing
      BY <2>1 DEF Live, Existing, InTrash
    <2>3. UNCHANGED Forest!vars
      BY <2>1 DEF Forest!vars, shown, hung, Detached
    <2>4. Alone' /\ Queued'
      BY <1>1, <2>1 DEF Alone, Queued, Doomed
    <2>5. Reading'
      BY <1>1, <2>1, <2>2 DEF Reading, Fresh, Subtree, ChildClosed, Forest!Climbs
    <2> QED
      BY <2>3, <2>4, <2>5
  <1>15. ASSUME NEW p \in Page, ForceStart(r, p) PROVE Kept
    <2> DEFINE h == [Idle EXCEPT !.pc = "forceDelete", !.page = p, !.ids = Below(p, Existing)]
    <2>1. /\ Begin(r, h) /\ Quiet /\ p \in Existing /\ Returns(p, Existing)
          /\ purge' = purge \cup Below(p, Existing) /\ UNCHANGED <<tree, cron>>
      BY <1>3, <1>15 DEF ForceStart
    <2>2. h.pc = "forceDelete" /\ h.ids = Below(p, Existing)
      BY DEF Idle
    <2> HIDE DEF h
    <2>3. Fresh(h)
      BY <1>11, <2>1, <2>2 DEF Fresh
    <2> QED
      BY <1>4, <2>1, <2>2, <2>3
  <1> QED
    BY <1>6, <1>7, <1>8, <1>9, <1>10, <1>12, <1>13, <1>14, <1>15 DEF Begins

-------------------------------------------------------------------------------
(* The cleanup job and the theorems.                                       *)

\* A step that moves nothing in the tree leaves what handlers read as it was.
LEMMA StillFresh ==
  ASSUME Reading, UNCHANGED <<parent, space, req>>, Live' = Live, Existing' = Existing
  PROVE  \A r \in Request : Fresh(req[r])'
  BY DEF Reading, Fresh, Subtree, ChildClosed, Forest!Climbs

\* The cleanup job deletes, of the abstract tree, whole subtrees.
LEMMA CleanupKeeps ==
  ASSUME Serial, "fail" \notin Kind, RInv, TypeOK', Cleanup
  PROVE  [Forest!Next]_(Forest!vars) /\ Alone' /\ Reading' /\ Queued'
  <1>1. TypeOK /\ Alone /\ Reading /\ Queued
    BY DEF RInv, IInv
  <1>2. ASSUME UNCHANGED <<tree, req>>
        PROVE  UNCHANGED Forest!vars /\ \A r \in Request : Fresh(req[r])'
    <2>1. UNCHANGED <<status, parent, space, req>>
      BY <1>2 DEF tree
    <2>2. Live' = Live /\ Existing' = Existing
      BY <2>1 DEF Live, Existing, InTrash
    <2> QED
      BY <1>1, <2>1, <2>2, StillFresh DEF Forest!vars, shown, hung, Detached
  <1>3. CASE CleanupStart
    <2>1. Quiet /\ UNCHANGED <<tree, req, purge>> /\ cron.pc = "idle" /\ cron'.pc = "next"
      BY <1>3 DEF CleanupStart, CronOnly, Sleep
    <2>2. Alone' /\ Queued'
      BY <1>1, <2>1 DEF Alone, Quiet, Queued, Doomed, tree
    <2> QED
      BY <1>2, <2>1, <2>2 DEF Reading
  <1>4. ASSUME NEW p \in Page, CleanupPage(p)
        PROVE  UNCHANGED Forest!vars /\ Alone' /\ Reading' /\ Queued'
    <2>1. /\ UNCHANGED <<tree, req>> /\ cron.pc = "next" /\ cron'.pc = "delete"
          /\ cron'.ids = Below(p, Existing) /\ purge' = purge \cup Below(p, Existing)
      BY <1>4 DEF CleanupPage
    <2>2. Alone'
      BY <1>1, <2>1 DEF Alone
    <2>3. Queued'
      BY <1>1, <2>1 DEF Queued, Doomed, tree
    <2>4. Subtree(Below(p, Existing))
      BY BelowSubset, BelowClosed DEF Subtree, ChildClosed
    <2>5. Subtree(cron.ids)'
      BY <2>1, <2>4 DEF Subtree, ChildClosed, tree, Existing, Live, InTrash
    <2> QED
      BY <1>2, <2>1, <2>2, <2>3, <2>5 DEF Reading
  <1>5. CASE CleanupDelete
    <2>1. /\ Subtree(cron.ids) /\ DeleteRows(cron.ids) /\ UNCHANGED <<purge, req>>
          /\ cron.pc = "delete" /\ cron'.pc # "delete"
      BY <1>1, <1>5 DEF CleanupDelete, Reading, CleanupNext, Sleep
    <2>2. \A r \in Request : req[r].pc = "idle" /\ req'[r].pc = "idle"
      BY <1>1, <2>1 DEF Alone
    <2>3. Forest!Fell(cron.ids)
      BY <1>1, <2>1, <2>2, Felling
    <2>4. cron.ids \in SUBSET Page
      BY <1>1 DEF TypeOK
    <2>5. \A p \in Page : status'[p] = "gone" <=> status[p] = "gone" \/ p \in cron.ids
      BY <2>1, CascadeWhole DEF DeleteRows
    <2>6. \A p : (Doomed(p) <=> p \in cron.ids) /\ ~Doomed(p)'
      BY <2>1, <2>2 DEF Doomed
    <2>7. Queued'
      BY <1>1, <2>1, <2>5, <2>6 DEF Queued
    <2>8. Alone' /\ Reading'
      BY <2>1, <2>2 DEF Alone, Reading, Fresh
    <2> QED
      BY <2>3, <2>4, <2>7, <2>8 DEF Forest!Next
  <1> QED
    BY <1>3, <1>4, <1>5 DEF Cleanup, CleanupFail

\* Time that goes by in the trash is nothing to the abstract tree.
LEMMA TimeKeeps ==
  ASSUME RInv, TimePasses
  PROVE  UNCHANGED Forest!vars /\ Alone' /\ Reading' /\ Queued'
  <1>1. TypeOK /\ Alone /\ Reading /\ Queued
    BY DEF RInv, IInv
  <1>2. /\ status' = [p \in Page |-> IF p \in InTrash THEN "expired" ELSE status[p]]
        /\ UNCHANGED <<parent, space, req, cron, purge>>
    BY DEF TimePasses
  <1>3. Live' = Live /\ Existing' = Existing
    BY <1>1, <1>2 DEF Live, Existing, InTrash, TypeOK
  <1>4. shown' = shown
    BY <1>2 DEF shown, InTrash
  <1>5. Reading'
    BY <1>1, <1>2, <1>3, StillFresh DEF Reading, Subtree, ChildClosed
  <1>6. \A p \in Page : status'[p] = "gone" <=> status[p] = "gone"
    BY <1>2 DEF InTrash
  <1> QED
    BY <1>1, <1>2, <1>4, <1>5, <1>6 DEF Alone, Queued, Doomed, Forest!vars, hung, Detached

\* Every step is an operation of the abstract tree or none, and keeps the invariant.
LEMMA RStep ==
  ASSUME Serial, ClientGuard, "fail" \notin Kind, RInv, [Next]_vars
  PROVE  RInv' /\ [Forest!Next]_(Forest!vars)
  <1>1. IInv'
    BY InductiveStep DEF RInv
  <1>2. [Forest!Next]_(Forest!vars) /\ Alone' /\ Reading' /\ Queued'
    <2>1. TypeOK'
      BY <1>1 DEF IInv
    <2>2. ASSUME NEW r \in Request, Begins(r)
          PROVE  [Forest!Next]_(Forest!vars) /\ Alone' /\ Reading' /\ Queued'
      BY <2>1, <2>2, BeginsKeepRead
    <2>3. ASSUME NEW r \in Request, Writes(r)
          PROVE  [Forest!Next]_(Forest!vars) /\ Alone' /\ Reading' /\ Queued'
      BY <2>1, <2>3, WritesMap, WritesKeepRead
    <2>4. CASE UNCHANGED vars
      <3>1. UNCHANGED <<status, parent, space, req, cron, purge>>
        BY <2>4 DEF vars
      <3>2. Live' = Live /\ Existing' = Existing
        BY <3>1 DEF Live, Existing, InTrash
      <3>3. Reading'
        BY <3>1, <3>2, StillFresh DEF RInv, Reading, Subtree, ChildClosed
      <3> QED
        BY <3>1, <3>3 DEF RInv, Alone, Queued, Doomed, Forest!vars, shown, hung, Detached
    <2> QED
      BY <2>1, <2>2, <2>3, <2>4, CleanupKeeps, TimeKeeps DEF Next
  <1>3. Forest!IInv'
    BY <1>2, NilAssumption, Forest!ForestStep DEF RInv
  <1> QED
    BY <1>1, <1>2, <1>3 DEF RInv

\* At the start there is no page and nobody is at work.
LEMMA RInit == Init => RInv /\ Forest!Init
  <1> SUFFICES ASSUME Init PROVE RInv /\ Forest!Init
    OBVIOUS
  <1>1. IInv
    BY InductiveInit
  <1>2. (\A r \in Request : req[r].pc = "idle") /\ cron.pc = "idle"
    BY DEF Init, Idle, Sleep
  <1>3. Alone /\ Reading
    BY <1>2 DEF Alone, Reading, Fresh
  <1>4. Queued
    BY <1>2 DEF Init, Queued, Doomed
  <1>5. Forest!Init
    BY <1>2 DEF Init, Forest!Init, shown, hung, Detached
  <1>6. Forest!IInv
    BY <1>5, Forest!ForestInit
  <1> QED
    BY <1>1, <1>3, <1>4, <1>5, <1>6 DEF RInv

\* When requests come one at a time, the web client keeps a page from being
\* dropped below itself and no statement fails, the handlers with all their
\* statements, and the cleanup job, do what the abstract tree does: a subtree is
\* created, moved, trashed, restored and deleted as a whole.
THEOREM Refines ==
  ASSUME Serial, ClientGuard, "fail" \notin Kind
  PROVE  Spec => ImplementsForest
  <1>1. Init => RInv /\ Tree!Init
    <2>1. Forest!Init => Tree!Init
      BY DEF Forest!Init, Tree!Init, shown, hung
    <2> QED
      BY <2>1, RInit
  <1>2. RInv /\ [Next]_vars => RInv' /\ [Tree!Next]_(Tree!vars)
    BY RStep, SameForest
  <1> QED
    BY <1>1, <1>2, PTL DEF Spec, ImplementsForest, Tree!Spec

\* Under the same conditions every page that is deleted has its attachments
\* queued, and when nobody is at work no page that still exists has.
THEOREM Purging ==
  ASSUME Serial, ClientGuard, "fail" \notin Kind
  PROVE  Spec => []PurgedWithPage
  <1>1. Init => RInv
    BY RInit
  <1>2. RInv /\ [Next]_vars => RInv'
    BY RStep
  <1>3. RInv => PurgedWithPage
    <2> SUFFICES ASSUME RInv PROVE PurgedWithPage
      OBVIOUS
    <2>1. Quiet => \A p : ~Doomed(p)
      BY DEF Quiet, Doomed
    <2>2. purge \subseteq Page
      BY DEF RInv, IInv, TypeOK
    <2> QED
      BY <2>1, <2>2 DEF RInv, Queued, PurgedWithPage
  <1> QED
    BY <1>1, <1>2, <1>3, PTL DEF Spec

\* The page tree itself is a forest then: no chain of parents runs in a circle,
\* so the recursive queries return, and a live page hangs on a live one or on none.
THEOREM NoCircles ==
  ASSUME Serial, ClientGuard, "fail" \notin Kind
  PROVE  Spec => [](Quiet => \A p \in Existing : /\ Returns(p, Existing)
                                                /\ p \in Live => parent[p] \in Live \cup {Nil})
  <1>1. Init => RInv
    BY RInit
  <1>2. RInv /\ [Next]_vars => RInv'
    BY RStep
  <1>3. ASSUME RInv, Quiet, NEW p \in Existing
        PROVE  Returns(p, Existing) /\ (p \in Live => parent[p] \in Live \cup {Nil})
    <2>1. Returns(p, Existing)
      <3> SUFFICES ASSUME ~Returns(p, Existing) PROVE FALSE
        OBVIOUS
      <3> DEFINE S == Below(p, Existing)
      <3>1. S \in (SUBSET Existing) \ {{}} /\ parent[p] \in S
        BY BelowSubset DEF Returns
      <3>2. \A q \in S : parent[q] \in S
        BY <3>1, BelowParent
      <3> QED
        BY <1>3, <3>1, <3>2, Climbing
    <2>2. p \in Live => parent[p] \in Live \cup {Nil}
      BY <1>3, Climbing DEF Quiet
    <2> QED
      BY <2>1, <2>2
  <1>4. RInv => (Quiet => \A p \in Existing : /\ Returns(p, Existing)
                                             /\ p \in Live => parent[p] \in Live \cup {Nil})
    BY <1>3
  <1> QED
    BY <1>1, <1>2, <1>4, PTL DEF Spec

===============================================================================
