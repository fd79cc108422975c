----------------------------- MODULE MCPageAccess -----------------------------
(* PageAccess for TLC. *)
EXTENDS PageAccess, TLC

\* One may write in the space, the others have any role or none.
MCSpaceRoles == {f \in [User -> Role \cup {Nil}] : \E u \in User : f[u] = "writer"}

Symmetry == Permutations(Page) \cup Permutations(User) \cup Permutations(Group)

\* The history is only compared with the step that writes it.
StateView == <<parent, access, role, inGroup, spaceRole>>
===============================================================================
