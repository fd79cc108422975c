------------------------------ MODULE MCPageTree ------------------------------
(***************************************************************************)
(* Instances of PageTree and TrashRetention for TLC.                        *)
(***************************************************************************)
EXTENDS TrashRetention, TLC

Symmetry == Permutations(Page) \cup Permutations(Space) \cup Permutations(User) \cup Permutations(Request)

===============================================================================
