--------------------------- MODULE PageForest_proofs ---------------------------
(***************************************************************************)
(* The abstract page tree stays a forest, for any pages and spaces.  That  *)
(* PageTree implements it when requests do not overlap is proved in         *)
(* PageTree_refinement.                                                    *)
(***************************************************************************)
EXTENDS PageForest, TLAPS

TypeOK ==
    /\ status \in [Page -> {"unused", "live", "trash", "gone"}]
    /\ parent \in [Page -> Page \cup {Nil}]
    /\ space \in [Page -> Space \cup {Nil}]

\* No page hangs on one that does not exist.
Hanging == \A p \in Existing : parent[p] \in Existing \cup {Nil}

\* Forest is not inductive: new pages must not find old ones below them.
IInv == TypeOK /\ Hanging /\ Forest

\* Every operation of the abstract tree keeps types.
LEMMA TypeStep ==
  ASSUME TypeOK, [Next]_vars
  PROVE  TypeOK'
  <1> USE DEF TypeOK, Live, Existing, Mark
  <1>1. ASSUME NEW S \in SUBSET Page, NEW q \in Live \cup {Nil}, NEW s \in Space, Grow(S, q, s)
        PROVE  TypeOK'
    <2>1. PICK up \in [S -> S \cup {q}] :
             parent' = [p \in Page |-> IF p \in S THEN up[p] ELSE parent[p]]
      BY <1>1 DEF Grow
    <2>2. parent' \in [Page -> Page \cup {Nil}]
      BY <2>1
    <2> QED
      BY <1>1, <2>2 DEF Grow
  <1>2. ASSUME NEW p \in Page, NEW q \in Live \cup {Nil}, Graft(p, q)
        PROVE  TypeOK'
    BY <1>2 DEF Graft
  <1>3. ASSUME NEW S \in SUBSET Page, NEW s \in Space, Transplant(S, s)
        PROVE  TypeOK'
    BY <1>3 DEF Transplant
  <1>4. ASSUME NEW S \in SUBSET Page, Trash(S)
        PROVE  TypeOK'
    BY <1>4 DEF Trash
  <1>5. ASSUME NEW S \in SUBSET Page, Restore(S)
        PROVE  TypeOK'
    BY <1>5 DEF Restore
  <1>6. ASSUME NEW S \in SUBSET Page, Fell(S)
        PROVE  TypeOK'
    BY <1>6 DEF Fell
  <1>7. CASE UNCHANGED vars
    BY <1>7 DEF vars
  <1> QED
    BY <1>1, <1>2, <1>3, <1>4, <1>5, <1>6, <1>7 DEF Next

\* New pages hang on each other up to the top or to a live page, and none of
\* the old pages hangs on them.
LEMMA GrowStep ==
  ASSUME IInv, Nil \notin Page,
         NEW S \in SUBSET Page, NEW q \in Live \cup {Nil}, NEW s \in Space, Grow(S, q, s)
  PROVE  Hanging' /\ Forest'
  <1> USE DEF IInv, TypeOK
  <1>1. PICK up \in [S -> S \cup {q}] :
           /\ Climbs(S, up)
           /\ parent' = [p \in Page |-> IF p \in S THEN up[p] ELSE parent[p]]
    BY DEF Grow
  <1>2. Live' = Live \cup S /\ Existing' = Existing \cup S /\ S \cap Existing = {}
    BY DEF Grow, Mark, Live, Existing
  <1>3. Live \subseteq Existing
    BY DEF Live, Existing
  <1>4. Hanging'
    BY <1>1, <1>2, <1>3 DEF Hanging, Existing
  <1>5. \A p \in Live' : parent'[p] \in Live' \cup {Nil}
    BY <1>1, <1>2, <1>3 DEF Forest, Live
  <1>6. ASSUME NEW T \in (SUBSET Existing') \ {{}}
        PROVE  \E p \in T : parent'[p] \notin T
    <2>1. CASE T \cap Existing = {}
      <3>1. PICK p \in T : up[p] \notin T
        BY <1>2, <1>6, <1>1, <2>1 DEF Climbs
      <3> QED
        BY <3>1, <1>1, <1>2, <2>1
    <2>2. CASE T \cap Existing # {}
      <3>1. PICK p \in T \cap Existing : parent[p] \notin T \cap Existing
        BY <2>2 DEF Forest
      <3>2. parent'[p] = parent[p]
        BY <3>1, <1>1, <1>2 DEF Existing
      <3>3. parent[p] \in Existing \cup {Nil}
        BY <3>1 DEF Hanging
      <3>4. CASE parent[p] \in Existing
        BY <3>1, <3>2, <3>4
      <3>5. CASE parent[p] = Nil
        BY <1>2, <3>1, <3>2, <3>5 DEF Existing
      <3> QED
        BY <3>1, <3>2, <3>3, <3>4, <3>5
    <2> QED
      BY <2>1, <2>2
  <1> QED
    BY <1>4, <1>5, <1>6 DEF Forest

\* A page hung elsewhere closes no circle: of the pages on such a circle those
\* that are not below it would be one already.
LEMMA GraftStep ==
  ASSUME IInv, NEW p \in Page, NEW q \in Live \cup {Nil}, Graft(p, q)
  PROVE  Hanging' /\ Forest'
  <1> USE DEF IInv, TypeOK
  <1>1. Live' = Live /\ Existing' = Existing /\ Live \subseteq Existing /\ Existing \subseteq Page
    BY DEF Graft, Live, Existing
  <1>2. \A r \in Page : parent'[r] = IF r = p THEN q ELSE parent[r]
    BY DEF Graft
  <1>3. Hanging'
    BY <1>1, <1>2 DEF Hanging
  <1>4. \A r \in Live' : parent'[r] \in Live' \cup {Nil}
    BY <1>1, <1>2 DEF Forest
  <1>5. ASSUME NEW T \in (SUBSET Existing') \ {{}}
        PROVE  \E r \in T : parent'[r] \notin T
    <2>1. CASE p \notin T
      BY <1>1, <1>2, <2>1 DEF Forest
    <2>2. CASE p \in T /\ q \notin T
      BY <1>1, <1>2, <2>2
    <2>3. CASE p \in T /\ q \in T
      <3>1. PICK S \in SUBSET Existing : p \in S /\ Whole(S, Existing) /\ q \notin S
        BY DEF Graft, Apart
      <3>2. PICK r \in T \ S : parent[r] \notin T \ S
        BY <1>1, <2>3, <3>1 DEF Forest
      <3>3. parent[r] \notin S
        BY <1>1, <3>1, <3>2 DEF Whole
      <3> QED
        BY <1>1, <1>2, <3>1, <3>2, <3>3
    <2> QED
      BY <2>1, <2>2, <2>3
  <1> QED
    BY <1>3, <1>4, <1>5 DEF Forest

\* Parents that change become Nil, and the pages stay.
LEMMA DetachStep ==
  ASSUME IInv, Nil \notin Page, Existing' \subseteq Existing,
         \A p \in Existing' : parent'[p] \in {parent[p], Nil},
         \A p \in Existing' : parent'[p] \in Existing' \cup {Nil},
         \A p \in Live' : parent'[p] \in Live' \cup {Nil}
  PROVE  Hanging' /\ Forest'
  <1>1. ASSUME NEW T \in (SUBSET Existing') \ {{}}
        PROVE  \E p \in T : parent'[p] \notin T
    <2>1. PICK p \in T : parent[p] \notin T
      BY DEF IInv, Forest
    <2>2. Nil \notin T
      BY DEF Existing
    <2> QED
      BY <2>1, <2>2
  <1> QED
    BY <1>1 DEF Forest, Hanging

\* Every operation keeps the invariant.
LEMMA ForestStep ==
  ASSUME Nil \notin Page, IInv, [Next]_vars
  PROVE  IInv'
  <1> USE DEF IInv
  <1>0. TypeOK'
    BY TypeStep
  <1>a. Live \subseteq Existing /\ Existing \subseteq Page
    BY DEF Live, Existing
  <1>1. ASSUME NEW S \in SUBSET Page, NEW q \in Live \cup {Nil}, NEW s \in Space, Grow(S, q, s)
        PROVE  IInv'
    BY <1>0, <1>1, GrowStep
  <1>2. ASSUME NEW p \in Page, NEW q \in Live \cup {Nil}, Graft(p, q)
        PROVE  IInv'
    BY <1>0, <1>2, GraftStep
  <1>3. ASSUME NEW S \in SUBSET Page, NEW s \in Space, Transplant(S, s)
        PROVE  IInv'
    <2>1. Live' = Live /\ Existing' = Existing
      BY <1>3 DEF Transplant, Live, Existing
    <2>2. \A p \in Page : parent'[p] \in {parent[p], Nil}
      BY <1>3 DEF Transplant, TypeOK
    <2> QED
      BY <1>0, <1>a, <2>1, <2>2, DetachStep DEF Hanging, Forest
  <1>4. ASSUME NEW S \in SUBSET Page, Trash(S)
        PROVE  IInv'
    <2>1. Live' = Live \ S /\ Existing' = Existing /\ parent' = parent
      BY <1>4 DEF Trash, Mark, Live, Existing, TypeOK
    <2>2. \A p \in Live' : parent[p] \notin S
      BY <1>4, <2>1 DEF Trash, Whole
    <2> QED
      BY <1>0, <1>a, <2>1, <2>2, DetachStep DEF Hanging, Forest
  <1>5. ASSUME NEW S \in SUBSET Page, Restore(S)
        PROVE  IInv'
    <2>1. Live' = Live \cup S /\ Existing' = Existing
      BY <1>5 DEF Restore, Mark, Live, Existing, TypeOK
    <2>2. \A p \in Page : parent'[p] = IF p \in S /\ parent[p] \notin S \cup Live THEN Nil ELSE parent[p]
      BY <1>5 DEF Restore
    <2>3. \A p \in Live' : parent'[p] \in Live' \cup {Nil}
      BY <1>a, <2>1, <2>2 DEF Forest
    <2> QED
      BY <1>0, <1>a, <2>1, <2>2, <2>3, DetachStep DEF Hanging
  <1>6. ASSUME NEW S \in SUBSET Page, Fell(S)
        PROVE  IInv'
    <2>1. Live' = Live \ S /\ Existing' = Existing \ S
      BY <1>6 DEF Fell, Mark, Live, Existing, TypeOK
    <2>2. \A p \in Existing' : parent'[p] = parent[p]
      BY <1>6, <1>a, <2>1 DEF Fell
    <2>3. \A p \in Existing' : parent[p] \notin S
      BY <1>6, <2>1 DEF Fell, Whole
    <2> QED
      BY <1>0, <1>a, <2>1, <2>2, <2>3, DetachStep DEF Hanging, Forest
  <1>7. CASE UNCHANGED vars
    BY <1>0, <1>7 DEF vars, Hanging, Forest, Live, Existing
  <1> QED
    BY <1>1, <1>2, <1>3, <1>4, <1>5, <1>6, <1>7 DEF Next

\* At the start there is no page.
LEMMA ForestInit == Init => IInv
  <1> SUFFICES ASSUME Init PROVE IInv
    OBVIOUS
  <1>1. TypeOK
    BY DEF Init, TypeOK
  <1>2. Live = {} /\ Existing = {}
    BY DEF Init, Live, Existing
  <1>3. Hanging
    BY <1>2 DEF Hanging
  <1>4. Forest
    BY <1>2 DEF Forest
  <1> QED
    BY <1>1, <1>3, <1>4 DEF IInv

\* Whatever is created, moved, trashed, restored and deleted, as whole
\* subtrees: no live page is below one in the trash, and no page is its own
\* ancestor, so the recursive queries of the repositories return.
THEOREM StaysForest ==
  ASSUME Nil \notin Page
  PROVE  Spec => []Forest
  <1>1. Init => IInv
    BY ForestInit
  <1>2. IInv /\ [Next]_vars => IInv'
    BY ForestStep
  <1>3. IInv => Forest
    BY DEF IInv
  <1> QED
    BY <1>1, <1>2, <1>3, PTL DEF Spec
===============================================================================
