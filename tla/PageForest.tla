------------------------------ MODULE PageForest ------------------------------
(***************************************************************************)
(* What the page tree promises, without statements, handlers and users: a  *)
(* forest in which every operation takes effect on a whole set of pages in *)
(* one step.  PageTree implements it when requests do not overlap.         *)
(***************************************************************************)
CONSTANTS Page, Space, Nil

VARIABLES
    status,   \* unused | live | trash | gone
    parent,   \* the page it hangs on, Nil for a root page
    space     \* its space, Nil for an id without a page

vars == <<status, parent, space>>

Live     == {p \in Page : status[p] = "live"}
Existing == {p \in Page : status[p] \in {"live", "trash"}}

Mark(S, to) == [p \in Page |-> IF p \in S THEN to ELSE status[p]]

\* S has, of the pages of T, every child of its members.
Whole(S, T) == \A c \in T : parent[c] \in S => c \in S

\* q is neither p nor below p: some set that has p and whatever hangs on it
\* does not have q.
Apart(q, p) == \E S \in SUBSET Existing : p \in S /\ Whole(S, Existing) /\ q \notin S

\* Following up from any page of S leads out of S.
Climbs(S, up) == \A T \in (SUBSET S) \ {{}} : \E p \in T : up[p] \notin T

Init ==
    /\ status = [p \in Page |-> "unused"]
    /\ parent = [p \in Page |-> Nil]
    /\ space = [p \in Page |-> Nil]

\* New pages, a tree of their own below a live page or at the top.
Grow(S, q, s) ==
    /\ \A p \in S : status[p] = "unused"
    /\ \E up \in [S -> S \cup {q}] :
         /\ Climbs(S, up)
         /\ parent' = [p \in Page |-> IF p \in S THEN up[p] ELSE parent[p]]
    /\ status' = Mark(S, "live")
    /\ space' = [p \in Page |-> IF p \in S THEN s ELSE space[p]]

\* A page, with what hangs on it, is hung elsewhere in its space.
Graft(p, q) ==
    /\ p \in Existing /\ Apart(q, p)
    /\ q # Nil => space[q] = space[p]
    /\ parent' = [parent EXCEPT ![p] = q]
    /\ UNCHANGED <<status, space>>

\* Pages go to another space; they part from whatever live page does not go along.
Transplant(S, s) ==
    /\ S \subseteq Existing
    /\ space' = [p \in Page |-> IF p \in S THEN s ELSE space[p]]
    /\ parent' = [p \in Page |->
         IF (p \in S /\ parent[p] \notin S) \/ (p \in Live \ S /\ parent[p] \in S)
           THEN Nil ELSE parent[p]]
    /\ UNCHANGED status

\* A page goes to the trash with every live page that hangs on it.
Trash(S) ==
    /\ S \subseteq Live /\ Whole(S, Live)
    /\ status' = Mark(S, "trash")
    /\ UNCHANGED <<parent, space>>

\* It comes back with all that hangs on it, at the top when its parent is in the trash.
Restore(S) ==
    /\ S \subseteq Existing /\ Whole(S, Existing)
    /\ status' = Mark(S, "live")
    /\ parent' = [p \in Page |->
         IF p \in S /\ parent[p] \notin S \cup Live THEN Nil ELSE parent[p]]
    /\ UNCHANGED space

\* It is deleted with all that hangs on it.
Fell(S) ==
    /\ S \subseteq Existing /\ Whole(S, Existing)
    /\ status' = Mark(S, "gone")
    /\ parent' = [p \in Page |-> IF p \in S THEN Nil ELSE parent[p]]
    /\ space' = [p \in Page |-> IF p \in S THEN Nil ELSE space[p]]

Next ==
    \/ \E S \in SUBSET Page, q \in Live \cup {Nil}, s \in Space : Grow(S, q, s)
    \/ \E p \in Page, q \in Live \cup {Nil} : Graft(p, q)
    \/ \E S \in SUBSET Page, s \in Space : Transplant(S, s)
    \/ \E S \in SUBSET Page : Trash(S) \/ Restore(S) \/ Fell(S)

Spec == Init /\ [][Next]_vars

\* What hangs on a live page's chain up to the top is live, and the chain ends.
Forest ==
    /\ \A p \in Live : parent[p] \in Live \cup {Nil}
    /\ \A S \in (SUBSET Existing) \ {{}} : \E p \in S : parent[p] \notin S
===============================================================================
