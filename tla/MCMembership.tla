----------------------------- MODULE MCMembership -----------------------------
(***************************************************************************)
(* Instances of Membership for TLC.  A behaviour either takes the requests  *)
(* about accounts one at a time, or lets those about groups or about spaces *)
(* overlap and break off.                                                   *)
(***************************************************************************)
EXTENDS Membership, TLC

CONSTANTS AccountKind, GroupKind, SpaceKind      \* the kinds of requests

VARIABLE mode

OnAccounts == INSTANCE Membership WITH Kind <- AccountKind, Serial <- TRUE, ListedOnly <- TRUE
OnGroups == INSTANCE Membership WITH Kind <- GroupKind, Serial <- FALSE, ListedOnly <- FALSE
OnSpaces == INSTANCE Membership WITH Kind <- SpaceKind, Serial <- FALSE, ListedOnly <- FALSE

MCInit == Init /\ mode \in {"accounts", "groups", "spaces"}

MCNext ==
    \/ mode = "accounts" /\ OnAccounts!Next /\ UNCHANGED mode
    \/ mode = "groups" /\ OnGroups!Next /\ UNCHANGED mode
    \/ mode = "spaces" /\ OnSpaces!Next /\ UNCHANGED mode

MCSpec == MCInit /\ [][MCNext]_<<vars, mode>>

Symmetry == Permutations(User \ {Founder}) \cup Permutations(Request)
===============================================================================
