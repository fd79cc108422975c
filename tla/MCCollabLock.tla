----------------------------- MODULE MCCollabLock -----------------------------
(* CollabLock for TLC. *)
EXTENDS CollabLock, TLC

\* The servers and the sockets are interchangeable (for safety only).
Symmetry == Permutations(Server) \cup Permutations(Socket)
===============================================================================
