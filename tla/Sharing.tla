-------------------------------- MODULE Sharing --------------------------------
(***************************************************************************)
(* Public shares of pages.  A share names a page, the space it was in and  *)
(* whether it includes the pages below.  A visitor reads pages, the tree,  *)
(* search results and the title of a link through it; meanwhile pages are  *)
(* moved, restricted, put in the trash, and sharing is switched off.       *)
(* The statements of the page operations interleave in PageTree; here each *)
(* of them is one step, and the creation of a share is two.                *)
(***************************************************************************)
EXTENDS Naturals, FiniteSets

CONSTANTS Page, Space, Share, Nil

VARIABLES
    parent, space, trash,   \* pages: parent_page_id, space_id, those with deleted_at
    access,                 \* restricted pages (page_access)
    share,                  \* the shares table: [page, space, sub] or Nil
    off,                    \* spaces whose sharing is disabled
    req,                    \* a create request between its checks and its insert, or Nil
    late                    \* history: shares whose page changed space before the insert

vars == <<parent, space, trash, access, share, off, req, late>>
pages == <<parent, space, trash, access>>

Shares == {s \in Share : share[s] # Nil}
Live == Page \ trash

\* The page and all above it: what every set has that has the page, and of each of
\* its members the parent.
ClosedUp(T) == \A q \in T : parent[q] # Nil => parent[q] \in T
Above(p) == {q \in Page : \A T \in SUBSET Page : p \in T /\ ClosedUp(T) => q \in T}
Below(p) == {q \in Page : p \in Above(q)}

\* The pages on the way from p up to q, with both.
Way(p, q) == {r \in Above(p) : q \in Above(r)}

-------------------------------------------------------------------------------
(* What a visitor gets. *)

HasRestrictedAncestor(p) == Above(p) \cap access # {}
IsSharingAllowed(sp) == sp \notin off

\* Mutant: a share of a page above is inherited whether or not it includes sub-pages.
GetShareForPageAnyLevel(p) ==
    {s \in Shares : /\ share[s].page \in Above(p) /\ Way(p, share[s].page) \subseteq Live
                    /\ \A t \in Shares : share[t].page \notin Way(p, share[s].page) \ {share[s].page}}

\* getShareForPage: the walk up ends at the first shared page, at a page in the
\* trash or at the top; a share found above the page has to include sub-pages.
\* Any of several shares of the same page may be the one row returned.  (The walk
\* gives up 25 levels above the page; here no tree is that deep.)
GetShareForPage(p) ==
    {s \in Shares : /\ share[s].page \in Above(p) /\ Way(p, share[s].page) \subseteq Live
                    /\ \A t \in Shares : share[t].page \notin Way(p, share[s].page) \ {share[s].page}
                    /\ share[s].page # p => share[s].sub}

\* POST shares/page-info: the shares through which a page may be served.
Serves(p) ==
    {s \in GetShareForPage(p) : p \in Live /\ ~HasRestrictedAncestor(p) /\ IsSharingAllowed(share[s].space)}

\* getPageAndDescendantsExcludingRestricted
OpenBelow(q) == {p \in Below(q) : Way(p, q) \subseteq Live \ access}

\* POST shares/tree
Tree(s) ==
    LET q == share[s].page
    IN  IF share[s].sub /\ ~HasRestrictedAncestor(q) /\ IsSharingAllowed(share[s].space)
          THEN OpenBelow(q) ELSE {}

\* POST search/share-search: live pages among these.
Searched(s) ==
    LET q == share[s].page
    IN  IF HasRestrictedAncestor(q) THEN {}
        ELSE Live \cap IF share[s].sub THEN OpenBelow(q) ELSE {q}

-------------------------------------------------------------------------------
(* Operations. *)

Init ==
    /\ parent = [p \in Page |-> Nil] /\ trash = {} /\ access = {}
    /\ space \in {[p \in Page |-> s] : s \in Space}
    /\ share = [s \in Share |-> Nil] /\ off = {} /\ req = Nil /\ late = {}

\* POST shares/create: the page is read, and is checked to be unrestricted and
\* in a space with sharing.  A page that has a share keeps it.
CreateStart(p, sub) ==
    /\ req = Nil
    /\ ~HasRestrictedAncestor(p) /\ IsSharingAllowed(space[p])
    /\ \A s \in Shares : share[s].page # p
    /\ req' = [page |-> p, space |-> space[p], sub |-> sub]
    /\ UNCHANGED <<pages, share, off, late>>

\* No constraint of the table keeps a page from having two shares.
CreateInsert(s) ==
    /\ req # Nil /\ share[s] = Nil
    /\ share' = [share EXCEPT ![s] = req]
    /\ late' = IF space[req.page] = req.space THEN late ELSE late \cup {s}
    /\ req' = Nil
    /\ UNCHANGED <<pages, off>>

\* POST shares/update
UpdateShare(s, sub) ==
    /\ s \in Shares /\ IsSharingAllowed(share[s].space)
    /\ share' = [share EXCEPT ![s].sub = sub]
    /\ UNCHANGED <<pages, off, req, late>>

Drop(S) == share' = [s \in Share |-> IF s \in S THEN Nil ELSE share[s]] /\ late' = late \ S

\* POST shares/delete
DeleteShare(s) == s \in Shares /\ Drop({s}) /\ UNCHANGED <<pages, off, req>>

SharesOf(S) == {s \in Shares : share[s].page \in S}

\* The page with the live pages below, down to those in the trash.
LiveBelow(p) == {q \in Below(p) : Way(q, p) \subseteq Live}

\* Only the live pages below go along, and the shares of all of these.
Trash(p) ==
    LET ids == LiveBelow(p)
    IN  /\ p \in Live
        /\ trash' = trash \cup ids
        /\ Drop(SharesOf(ids))
        /\ UNCHANGED <<parent, space, access, off, req>>

Restore(p) ==
    /\ p \in trash
    /\ trash' = trash \ Below(p)
    /\ parent' = [parent EXCEPT ![p] = IF @ \in trash THEN Nil ELSE @]
    /\ UNCHANGED <<space, access, share, off, req, late>>

\* As the tree of the web client offers it: live pages, not below themselves.
Move(p, q) ==
    /\ p \in Live /\ parent[p] # q
    /\ q # Nil => q \in Live \ Below(p) /\ space[q] = space[p]
    /\ parent' = [parent EXCEPT ![p] = q]
    /\ UNCHANGED <<space, trash, access, share, off, req, late>>

\* Mutant: the shares are forgotten.
MoveToSpaceWithoutShares(p, sp) ==
    LET ids == LiveBelow(p)
    IN  /\ p \in Live /\ space[p] # sp
        /\ space' = [q \in Page |-> IF q \in ids THEN sp ELSE space[q]]
        /\ parent' = [parent EXCEPT ![p] = Nil]
        /\ access' = access \ ids
        /\ UNCHANGED <<trash, share, off, req, late>>

\* POST pages/move-to-space, by somebody who may open all of the pages.
MoveToSpace(p, sp) ==
    LET ids == LiveBelow(p)
    IN  /\ p \in Live /\ space[p] # sp
        /\ space' = [q \in Page |-> IF q \in ids THEN sp ELSE space[q]]
        /\ parent' = [parent EXCEPT ![p] = Nil]
        /\ access' = access \ ids
        /\ share' = [s \in Share |-> IF s \in SharesOf(ids) THEN [share[s] EXCEPT !.space = sp] ELSE share[s]]
        /\ late' = late \ SharesOf(ids)
        /\ UNCHANGED <<trash, off, req>>

Restrict(p) == access' = access \cup {p} /\ UNCHANGED <<parent, space, trash, share, off, req, late>>
Unrestrict(p) == access' = access \ {p} /\ UNCHANGED <<parent, space, trash, share, off, req, late>>

\* disablePublicSharing of a space: a setting only, the shares stay.
SwitchSharing(sp) ==
    /\ off' = IF sp \in off THEN off \ {sp} ELSE off \cup {sp}
    /\ UNCHANGED <<pages, share, req, late>>

Next ==
    \/ \E p \in Page, sub \in BOOLEAN : CreateStart(p, sub)
    \/ \E s \in Share, sub \in BOOLEAN : UpdateShare(s, sub)
    \/ \E s \in Share : CreateInsert(s) \/ DeleteShare(s)
    \/ \E p \in Page : Trash(p) \/ Restore(p) \/ Restrict(p) \/ Unrestrict(p)
    \/ \E p \in Page, q \in Page \cup {Nil} : Move(p, q)
    \/ \E p \in Page, sp \in Space : MoveToSpace(p, sp)
    \/ \E sp \in Space : SwitchSharing(sp)

Spec == Init /\ [][Next]_vars

-------------------------------------------------------------------------------
(* Properties. *)

TypeOK ==
    /\ parent \in [Page -> Page \cup {Nil}] /\ space \in [Page -> Space]
    /\ trash \subseteq Page /\ access \subseteq Page /\ off \subseteq Space
    /\ share \in [Share -> [page : Page, space : Space, sub : BOOLEAN] \cup {Nil}]
    /\ late \subseteq Shares

\* A page that a visitor is served through a share is the shared page or
\* stands in its tree, and the search in the share finds it; and what the tree
\* and the search list is served, but for the pages below another shared page:
\* there the walk up ends at that one.  (A page below a share without sub-pages
\* is so listed by a share further up, and served by none.)
ServedIsListed ==
    \A p \in Page, s \in Shares :
        /\ s \in Serves(p) => p \in Searched(s) /\ (p = share[s].page \/ p \in Tree(s))
        /\ p \in Tree(s) \cup Searched(s) /\ IsSharingAllowed(share[s].space)
           /\ (\A t \in Shares : share[t].page \notin Way(p, share[s].page) \ {share[s].page})
           => s \in Serves(p)

\* No share serves anything while sharing is switched off in the space where its
\* page is, wherever that was moved and restored: the share moves with its page.
\* Only a share that was inserted after its page had left the space may lag.  The
\* space of the page served is not asked for: a page that was in the trash when
\* the pages around it were moved, and is restored under its old parent, is
\* served in a space without sharing by the share of a page above.
ServedWhereAllowed ==
    \A p \in Page : \A s \in Serves(p) \ late : IsSharingAllowed(space[share[s].page])
===============================================================================
