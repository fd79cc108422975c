------------------------------ MODULE PageAccess ------------------------------
(***************************************************************************)
(* Who may open and who may change a page of one space.  A page may be     *)
(* restricted (page_access) to people and groups (page_permissions); the   *)
(* restriction holds for all that hangs below it.  The repository asks     *)
(* this in many queries, each written for one caller: the request guard,   *)
(* the permission dialog, the sidebar, lists and search, notifications,    *)
(* websockets and the collaboration server.                                *)
(***************************************************************************)
EXTENDS Naturals, FiniteSets

CONSTANTS
    Page, User, Group, Nil,
    SpaceRoles,     \* the roles in the space that Init chooses from
    MaxRestricted   \* bound: pages restricted at the same time

Member == User \cup Group
Role == {"reader", "writer"}

ASSUME NilAssumption == Nil \notin Page \cup Member \cup Role
ASSUME SpaceRolesAssumption == SpaceRoles \subseteq [User -> Role \cup {Nil}]

VARIABLES
    parent,     \* pages.parent_page_id, every page is live and in the space
    access,     \* pages with a page_access row
    role,       \* page_permissions: the role a page gives to a member, or Nil
    inGroup,    \* group_users
    spaceRole,  \* the highest role each user has in the space, or Nil
    actor       \* history: the user of the last request, Nil for an administrator

vars == <<parent, access, role, inGroup, spaceRole, actor>>

-------------------------------------------------------------------------------
(* The recursive part of every query: the chain from a page up to the top. *)

\* q is p or above it: no set with p and the parent of each of its members is without q.
ClosedUp(T)   == \A q \in T : parent[q] # Nil => parent[q] \in T
IsBelow(p, q) == q = p \/ \A T \in SUBSET (Page \ {p, q}) : ~ClosedUp(T \cup {p})

Ancestors(p) == {q \in Page : IsBelow(p, q)}

Children(q) == {c \in Page : parent[c] = q}

\* The join with page_access: the restricted pages of the chain.
RestrictedChain(p) == {a \in access : IsBelow(p, a)}

\* The first of the chain by depth: all others are above it.
NearestRestricted(p) ==
    LET chain == RestrictedChain(p) IN CHOOSE a \in chain : \A b \in chain : IsBelow(a, b)

\* The page_permissions rows of a page that are for a user or his groups.
RolesOn(u, a) == {role[a][m] : m \in {u} \cup {g \in Group : u \in inGroup[g]}} \ {Nil}

\* The same as a LEFT JOIN: a row of NULLs when there is none.
JoinedRoles(u, a) == LET roles == RolesOn(u, a) IN IF roles = {} THEN {Nil} ELSE roles

\* The first of some roles, ordered descending with NULL last.
HighestRole(S) ==
    IF "writer" \in S THEN "writer" ELSE IF "reader" \in S THEN "reader" ELSE Nil

-------------------------------------------------------------------------------
(* The queries of PagePermissionRepo. *)

\* Mutant: only the restriction of the page itself.
IsRestrictedItself(p) == p \in access

HasRestrictedAncestor(p) == RestrictedChain(p) # {}

HasRestrictedPagesInSpace == access # {}

\* NOT EXISTS a restricted ancestor whose joined row is NULL.
CanUserAccessPage(u, p) == ~\E a \in RestrictedChain(p) : Nil \in JoinedRoles(u, a)

\* One query over the chain: bool_and over the joined rows, and the first role
\* of the rows ordered by depth and role.
CanUserEditPage(u, p) ==
    LET chain == RestrictedChain(p)
        every == \A a \in chain : Nil \notin JoinedRoles(u, a)
    IN  IF chain = {}
        THEN [hasAnyRestriction |-> FALSE, canAccess |-> TRUE, canEdit |-> TRUE]
        ELSE [hasAnyRestriction |-> TRUE, canAccess |-> every,
              canEdit |-> every /\ HighestRole(JoinedRoles(u, NearestRestricted(p))) = "writer"]

\* Mutant: any restriction of the chain lets him write, not only the nearest.
AnyGivesWriter(u, p) ==
    HasRestrictedAncestor(p) => \E a \in RestrictedChain(p) : "writer" \in RolesOn(u, a)

\* A join with the nearest restriction, for a page that is restricted.
NearestGivesWriter(u, p) ==
    HasRestrictedAncestor(p) => "writer" \in RolesOn(u, NearestRestricted(p))

\* CASE over three EXISTS.
GetUserPageAccessLevel(u, p) ==
    LET permitted == CanUserAccessPage(u, p)
    IN  [hasDirectRestriction |-> p \in access,
         hasInheritedRestriction |-> RestrictedChain(p) \ {p} # {},
         canAccess |-> permitted, canEdit |-> permitted /\ NearestGivesWriter(u, p)]

FilterAccessiblePageIds(ids, u) ==
    IF HasRestrictedPagesInSpace THEN {p \in ids : CanUserAccessPage(u, p)} ELSE ids

FilterAccessiblePageIdsWithPermissions(ids, u) ==
    {[id |-> p, hasAnyRestriction |-> HasRestrictedAncestor(p),
      canEdit |-> NearestGivesWriter(u, p)] :
        p \in {q \in ids : CanUserAccessPage(u, q)}}

\* Mutant: the chain starts at the parent, the restriction of the child itself is not seen.
ParentIdsWithChildrenOfAccessible(ids, u) ==
    {q \in ids : Children(q) # {} /\ CanUserAccessPage(u, q) /\ Children(q) \cap access = {}}

GetParentIdsWithAccessibleChildren(ids, u) ==
    {q \in ids : \E c \in Children(q) : CanUserAccessPage(u, c)}

GetUserIdsWithPageAccess(p, us) ==
    LET chain == RestrictedChain(p)
    IN  {u \in us : ~\E a \in chain : RolesOn(u, a) = {}}

-------------------------------------------------------------------------------
(* Their callers. *)

\* PageAccessService: the page decides when it is restricted, else the space.
ValidateCanView(u, p) ==
    LET q == CanUserEditPage(u, p)
    IN  IF q.hasAnyRestriction THEN q.canAccess ELSE spaceRole[u] # Nil

ValidateCanEdit(u, p) ==
    LET q == CanUserEditPage(u, p)
    IN  IF q.hasAnyRestriction THEN q.canEdit ELSE spaceRole[u] = "writer"

\* The collaboration server takes members of the space only.
Connection(u, p) ==
    LET q == CanUserEditPage(u, p)
    IN  IF spaceRole[u] = Nil THEN "refused"
        ELSE IF q.hasAnyRestriction
               THEN IF ~q.canAccess THEN "refused"
                    ELSE IF q.canEdit THEN "write" ELSE "readOnly"
               ELSE IF spaceRole[u] = "writer" THEN "write" ELSE "readOnly"

\* getSidebarPages for the top (q = Nil) or below q: the entries of one level.
SidebarPages(u, q) ==
    LET items == Children(q)
        permitted == FilterAccessiblePageIdsWithPermissions(items, u)
        shown == {e.id : e \in permitted}
    IN  IF spaceRole[u] = Nil THEN {}
        ELSE IF ~HasRestrictedPagesInSpace
        THEN {[id |-> p, canEdit |-> spaceRole[u] = "writer", hasChildren |-> Children(p) # {}] :
                 p \in items}
        ELSE {[id |-> e.id,
               canEdit |-> IF e.hasAnyRestriction THEN e.canEdit ELSE spaceRole[u] = "writer",
               hasChildren |-> e.id \in GetParentIdsWithAccessibleChildren(shown, u)] :
                 e \in permitted}

\* Who gets an event about a page: the sockets in the room of the space, less
\* those without access (broadcastToAuthorizedUsers).  answer is what
\* spaceHasRestrictions says: up to 30 seconds old, for it is cached and no
\* change of a restriction drops it.  Sockets enter the room when they connect,
\* and here nobody's role in the space changes after that.
Audience(p, answer) ==
    LET room == {u \in User : spaceRole[u] # Nil}
    IN  IF answer /\ HasRestrictedAncestor(p)
          THEN GetUserIdsWithPageAccess(p, room) ELSE room

\* Search among the pages of one's spaces; that its query applies the same
\* predicate before the filter does changes nothing.
Found(u) == IF spaceRole[u] = Nil THEN {} ELSE FilterAccessiblePageIds(Page, u)

-------------------------------------------------------------------------------
(* Operations. *)

Init ==
    /\ parent = [p \in Page |-> Nil]
    /\ access = {}
    /\ role = [p \in Page |-> [m \in Member |-> Nil]]
    /\ inGroup = [g \in Group |-> {}]
    /\ spaceRole \in SpaceRoles
    /\ actor = Nil

\* Mutant: the acting user keeps the role the dialog sent for him.
SetPagePermissionsAsSent(u, p, members) ==
    /\ ValidateCanEdit(u, p)
    /\ access' = access \cup {p}
    /\ role' = [role EXCEPT ![p] = [m \in Member |-> IF m = u THEN "reader" ELSE members[m]]]
    /\ actor' = u
    /\ UNCHANGED <<parent, inGroup, spaceRole>>

\* POST pages/permissions/set: replaces the rows; the acting user is a writer.
SetPagePermissions(u, p, members) ==
    /\ ValidateCanEdit(u, p)
    /\ access' = access \cup {p}
    /\ role' = [role EXCEPT ![p] = [m \in Member |-> IF m = u THEN "writer" ELSE members[m]]]
    /\ actor' = u
    /\ UNCHANGED <<parent, inGroup, spaceRole>>

\* Mutant: the rows stay when the restriction is lifted.
ClearPageAccessOnly(u, p) ==
    /\ ValidateCanEdit(u, p)
    /\ access' = access \ {p}
    /\ actor' = u
    /\ UNCHANGED <<parent, role, inGroup, spaceRole>>

\* Mutant: seeing a page is enough to lift its restriction.
ClearPagePermissionsByViewer(u, p) ==
    /\ ValidateCanView(u, p)
    /\ access' = access \ {p}
    /\ role' = [role EXCEPT ![p] = [m \in Member |-> Nil]]
    /\ actor' = u
    /\ UNCHANGED <<parent, inGroup, spaceRole>>

\* POST pages/permissions/clear
ClearPagePermissions(u, p) ==
    /\ ValidateCanEdit(u, p)
    /\ access' = access \ {p}
    /\ role' = [role EXCEPT ![p] = [m \in Member |-> Nil]]
    /\ actor' = u
    /\ UNCHANGED <<parent, inGroup, spaceRole>>

\* Mutant: the page itself need not be editable, only the new parent.
MovePageByViewer(u, p, q) ==
    /\ spaceRole[u] = "writer" /\ ValidateCanView(u, p)
    /\ q # Nil /\ parent[p] # q => ValidateCanEdit(u, q)
    /\ q # Nil => ~IsBelow(q, p)
    /\ parent' = [parent EXCEPT ![p] = q]
    /\ actor' = u
    /\ UNCHANGED <<access, role, inGroup, spaceRole>>

\* POST pages/move, as the tree of the web client offers it.
MovePage(u, p, q) ==
    /\ spaceRole[u] = "writer" /\ ValidateCanEdit(u, p)
    /\ q # Nil /\ parent[p] # q => ValidateCanEdit(u, q)
    /\ q # Nil => ~IsBelow(q, p)
    /\ parent' = [parent EXCEPT ![p] = q]
    /\ actor' = u
    /\ UNCHANGED <<access, role, inGroup, spaceRole>>

AddToGroup(u, g) ==
    /\ inGroup' = [inGroup EXCEPT ![g] = @ \cup {u}]
    /\ actor' = Nil
    /\ UNCHANGED <<parent, access, role, spaceRole>>

RemoveFromGroup(u, g) ==
    /\ inGroup' = [inGroup EXCEPT ![g] = @ \ {u}]
    /\ actor' = Nil
    /\ UNCHANGED <<parent, access, role, spaceRole>>

\* Foreign keys cascade to the members and to the permissions of the group.
DeleteGroup(g) ==
    /\ inGroup' = [inGroup EXCEPT ![g] = {}]
    /\ role' = [p \in Page |-> [role[p] EXCEPT ![g] = Nil]]
    /\ actor' = Nil
    /\ UNCHANGED <<parent, access, spaceRole>>

Acts(u) ==
    \/ \E p \in Page, members \in [Member \ {u} -> Role \cup {Nil}] :
        Cardinality(access \cup {p}) <= MaxRestricted /\ SetPagePermissions(u, p, members)
    \/ \E p \in Page : ClearPagePermissions(u, p)
    \/ \E p \in Page, q \in Page \cup {Nil} : MovePage(u, p, q)

Next ==
    \/ \E u \in User : Acts(u)
    \/ \E u \in User, g \in Group : AddToGroup(u, g) \/ RemoveFromGroup(u, g)
    \/ \E g \in Group : DeleteGroup(g)

Spec == Init /\ [][Next]_vars

-------------------------------------------------------------------------------
(* Properties. *)

TypeOK ==
    /\ parent \in [Page -> Page \cup {Nil}]
    /\ access \in SUBSET Page
    /\ role \in [Page -> [Member -> Role \cup {Nil}]]
    /\ inGroup \in [Group -> SUBSET User]
    /\ spaceRole \in [User -> Role \cup {Nil}]
    /\ \A p \in Page, m \in Member : role[p][m] # Nil => p \in access

\* A member of the space who may open a page by its address also finds it by
\* search, sees it listed where it hangs, gets its events and may connect to
\* its document, and nobody else does any of these: seven callers, one answer.
\* Events keep to it while the cached answer is the present one or says that
\* the space has restrictions; the answer of a time before the first
\* restriction takes events from nobody who may open the page, but sends them
\* to the whole room.
ViewsAgree ==
    \A u \in {v \in User : spaceRole[v] # Nil} :
        LET found == Found(u)
        IN  \A p \in Page :
                LET view == ValidateCanView(u, p)
                IN  /\ view = GetUserPageAccessLevel(u, p).canAccess
                    /\ view = (p \in found)
                    /\ view = (u \in Audience(p, HasRestrictedPagesInSpace))
                    /\ view = (u \in Audience(p, TRUE))
                    /\ view => u \in Audience(p, FALSE)
                    /\ view = (Connection(u, p) # "refused")
                    /\ view = \E e \in SidebarPages(u, parent[p]) : e.id = p

\* Whoever may change a page by request may type in it, and is offered so by
\* the sidebar and by the permission dialog, and nobody else is.
EditsAgree ==
    \A u \in {v \in User : spaceRole[v] # Nil}, p \in Page :
        LET edit == ValidateCanEdit(u, p)
        IN  /\ edit = (Connection(u, p) = "write")
            /\ edit = \E e \in SidebarPages(u, parent[p]) : e.id = p /\ e.canEdit
            /\ HasRestrictedAncestor(p) => edit = GetUserPageAccessLevel(u, p).canEdit

\* A member can reach every page that he may open by unfolding the sidebar:
\* each page above it is listed and says that it has something to unfold.
SidebarReaches ==
    \A u \in {v \in User : spaceRole[v] # Nil} :
        LET unfolds == {e.id : e \in {s \in UNION {SidebarPages(u, q) : q \in Page \cup {Nil}} :
                                        s.hasChildren}}
        IN  \A p \in Page : ValidateCanView(u, p) => Ancestors(p) \ {p} \subseteq unfolds

\* Nobody raises himself: whatever a user does to restrictions and to the tree,
\* he may change and open no page that he could not before.
NobodyRaisesHimself ==
    [][\A u \in {actor'} \ {Nil} : \A p \in Page :
          /\ ~ValidateCanEdit(u, p) => ~ValidateCanEdit(u, p)'
          /\ ~ValidateCanView(u, p) => ~ValidateCanView(u, p)']_vars

\* Nobody locks himself out with the permission dialog: after setting the
\* permissions of a page, whatever his groups are given, he may change it.
SetterKeepsEdit ==
    [][\A u \in {actor'} \ {Nil}, p \in Page : p \in access' /\ role'[p] # role[p]
          => ValidateCanEdit(u, p)']_vars
===============================================================================
