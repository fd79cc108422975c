----------------------------- MODULE MCDocHistory -----------------------------
(* DocHistory for TLC. *)
EXTENDS DocHistory, TLC

\* Users are interchangeable; so are contents, except the one of a new page.
Symmetry == Permutations(User) \cup Permutations(Content \ {Blank})
===============================================================================
