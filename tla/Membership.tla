------------------------------ MODULE Membership ------------------------------
(***************************************************************************)
(* Who belongs to a workspace, its groups and its spaces: accounts and     *)
(* their roles, invitations, group_users, space_members and the watcher    *)
(* rows that depend on them.  A handler checks what it needs in one or     *)
(* more reads and writes later; the checks are not repeated, and the       *)
(* transactions run at READ COMMITTED.                                     *)
(***************************************************************************)
EXTENDS Naturals, FiniteSets

CONSTANTS
    User,       \* e-mail addresses, one account each
    Group,      \* group ids
    Space,      \* space ids
    Request,    \* concurrent request handlers
    Founder,    \* the user who set the workspace up
    Everyone,   \* the default group
    Home,       \* the default space
    Nil,        \* SQL NULL, and no row
    Kind,       \* which operations the instance issues
    Serial,     \* TRUE: a handler starts only when no other is under way
    ListedOnly  \* TRUE: requests name users the client offers, deleted ones are not listed

Member        == User \cup Group
WorkspaceRole == {"owner", "admin", "member"}
SpaceRole     == {"admin", "writer", "reader"}

ASSUME FirstAssumption == Founder \in User /\ Everyone \in Group /\ Home \in Space
ASSUME IdsAssumption == User \cap Group = {} /\ Nil \notin Member \cup Space \cup WorkspaceRole \cup SpaceRole
ASSUME ModeAssumption == Serial \in BOOLEAN /\ ListedOnly \in BOOLEAN

VARIABLES
    account,    \* users: role (Nil: no row), off (deactivated_at), gone (deleted_at)
    invite,     \* workspace_invitations by e-mail: role (Nil: no row) and group_ids
    groups,     \* rows of groups
    inGroup,    \* group_users
    spaces,     \* rows of spaces
    spaceRole,  \* space_members: the role of a user or a group in a space
    watching,   \* users with a watchers row of some page of the space
    jobs,       \* queued add-page-watchers jobs
    req         \* what each handler holds between two database calls

people == <<account, invite>>
places == <<groups, spaces>>
vars   == <<account, invite, groups, inGroup, spaces, spaceRole, watching, jobs, req>>

NoAccount == [role |-> Nil, off |-> FALSE, gone |-> FALSE]
NoInvite  == [role |-> Nil, groups |-> {}]
Idle      == [pc |-> "idle", by |-> Nil, user |-> Nil, group |-> Nil, space |-> Nil,
              member |-> Nil, role |-> Nil, groups |-> {}, row |-> FALSE,
              users |-> {}, spaces |-> {}]

-------------------------------------------------------------------------------
(* Queries.                                                                *)

HasRow(u)  == account[u].role # Nil
Enabled(u) == HasRow(u) /\ ~account[u].off /\ ~account[u].gone
Offered(u) == HasRow(u) /\ (ListedOnly => ~account[u].gone)

\* Owners and admins have the Manage ability on members, groups and spaces.
Manages(u) == Enabled(u) /\ account[u].role \in {"owner", "admin"}

RoleCount(role) == Cardinality({u \in User : account[u].role = role})

\* getUserSpaceRoles: the user's own row and those of the user's groups.
RolesOf(u, s)    == {spaceRole[s][m] : m \in {u} \cup {g \in Group : <<u, g>> \in inGroup}} \ {Nil}
HasAccess(u, s)  == s \in spaces /\ RolesOf(u, s) # {}
SpaceAdmin(u, s) == Enabled(u) /\ s \in spaces /\ "admin" \in RolesOf(u, s)

SpacesOfGroup(g) == {s \in spaces : spaceRole[s][g] # Nil}
UsersOf(m)       == IF m \in User THEN {m} ELSE {u \in User : <<u, m>> \in inGroup}

Admins(s) == {m \in Member : spaceRole[s][m] = "admin"}

\* Mutant: the count is compared with zero.
LastAdminOffByOne(s, m) == spaceRole[s][m] = "admin" /\ Cardinality(Admins(s)) = 0

\* validateLastAdmin refuses when the row is the only one with role admin.
LastAdmin(s, m) == spaceRole[s][m] = "admin" /\ Cardinality(Admins(s)) = 1

-------------------------------------------------------------------------------
(* Handlers.  row: the space_members or workspace_invitations row that was *)
(* read still exists; a row inserted again has another id.                 *)

Quiet == \A r \in Request : req[r].pc = "idle"

Accepts(r, kind) == kind \in Kind /\ req[r].pc = "idle" /\ (Serial => Quiet)
Begin(r, rec)    == req' = [req EXCEPT ![r] = rec]
End(r)           == req' = [req EXCEPT ![r] = Idle]

\* End, when the step deletes the space_members rows of gone.
EndDropping(r, gone) ==
    req' = [q \in Request |-> IF q = r THEN Idle
                              ELSE [req[q] EXCEPT !.row = @ /\ <<req[q].space, req[q].member>> \notin gone]]

ReadOnly == UNCHANGED <<people, places, inGroup, spaceRole, watching, jobs>>
OnlyAccount == UNCHANGED <<invite, places, inGroup, spaceRole, watching, jobs>>

-------------------------------------------------------------------------------
(* Accounts and invitations.                                               *)

\* createInvitation: addresses with an account are left out.
InviteStart(r, a, u, role, gs) ==
    /\ Accepts(r, "invite")
    /\ Manages(a) /\ ~HasRow(u)
    /\ Begin(r, [Idle EXCEPT !.pc = "invite", !.by = a, !.user = u, !.role = role,
                             !.groups = gs \cap groups])
    /\ ReadOnly

\* on conflict (email, workspace_id) do nothing
InviteInsert(r) ==
    LET u == req[r].user
    IN  /\ req[r].pc = "invite"
        /\ invite' = [invite EXCEPT ![u] =
             IF @ = NoInvite THEN [role |-> req[r].role, groups |-> req[r].groups] ELSE @]
        /\ End(r) /\ UNCHANGED <<account, places, inGroup, spaceRole, watching, jobs>>

AcceptStart(r, u) ==
    /\ Accepts(r, "accept")
    /\ invite[u] # NoInvite
    /\ Begin(r, [Idle EXCEPT !.pc = "accept", !.user = u, !.role = invite[u].role,
                             !.groups = invite[u].groups, !.row = TRUE])
    /\ ReadOnly

\* Mutant: a user invited into groups is put into these only.
AcceptWriteInvitedGroups(r) ==
    LET u == req[r].user
    IN  /\ req[r].pc = "accept" /\ ~HasRow(u)
        /\ account' = [account EXCEPT ![u].role = req[r].role]
        /\ inGroup' = inGroup \cup ({u} \X (IF req[r].groups = {} THEN {Everyone} ELSE req[r].groups \cap groups))
        /\ invite' = IF req[r].row THEN [invite EXCEPT ![u] = NoInvite] ELSE invite
        /\ End(r) /\ UNCHANGED <<places, spaceRole, watching, jobs>>

\* acceptInvitation: one transaction; the unique e-mail makes a second one fail.
AcceptWrite(r) ==
    LET u == req[r].user
    IN  /\ req[r].pc = "accept" /\ ~HasRow(u)
        /\ account' = [account EXCEPT ![u].role = req[r].role]
        /\ inGroup' = inGroup \cup ({u} \X ({Everyone} \cup (req[r].groups \cap groups)))
        /\ invite' = IF req[r].row THEN [invite EXCEPT ![u] = NoInvite] ELSE invite
        /\ End(r) /\ UNCHANGED <<places, spaceRole, watching, jobs>>

\* handleSamlCallback for an address without an account; an open invitation stays.
SsoSignup(r, u) ==
    /\ Accepts(r, "sso") /\ ~HasRow(u)
    /\ account' = [account EXCEPT ![u].role = "member"]
    /\ inGroup' = inGroup \cup {<<u, Everyone>>}
    /\ UNCHANGED <<invite, places, spaceRole, watching, jobs, req>>

\* Mutant: the columns are cleared, the row stays.
RevokeColumns(r, a, u) ==
    /\ Accepts(r, "revoke")
    /\ Manages(a) /\ invite[u] # NoInvite
    /\ invite' = [invite EXCEPT ![u].role = Nil]
    /\ req' = [q \in Request |-> IF req[q].pc = "accept" /\ req[q].user = u
                                   THEN [req[q] EXCEPT !.row = FALSE] ELSE req[q]]
    /\ UNCHANGED <<account, places, inGroup, spaceRole, watching, jobs>>

\* revokeInvitation
Revoke(r, a, u) ==
    /\ Accepts(r, "revoke")
    /\ Manages(a) /\ invite[u] # NoInvite
    /\ invite' = [invite EXCEPT ![u] = NoInvite]
    /\ req' = [q \in Request |-> IF req[q].pc = "accept" /\ req[q].user = u
                                   THEN [req[q] EXCEPT !.row = FALSE] ELSE req[q]]
    /\ UNCHANGED <<account, places, inGroup, spaceRole, watching, jobs>>

\* Mutant: the owner count is not looked at.
ChangeRoleStartUncounted(r, a, u, role) ==
    /\ Accepts(r, "changeRole")
    /\ Manages(a) /\ Offered(u) /\ account[u].role # role
    /\ account[a].role = "admin" => "owner" \notin {role, account[u].role}
    /\ Begin(r, [Idle EXCEPT !.pc = "changeRole", !.by = a, !.user = u, !.role = role])
    /\ ReadOnly

\* Mutant: the role the user has now is not looked at.
ChangeRoleStartAnyone(r, a, u, role) ==
    /\ Accepts(r, "changeRole")
    /\ Manages(a) /\ Offered(u)
    /\ account[a].role = "admin" => role # "owner"
    /\ Begin(r, [Idle EXCEPT !.pc = "changeRole", !.by = a, !.user = u, !.role = role])
    /\ ReadOnly

\* updateWorkspaceUserRole
ChangeRoleStart(r, a, u, role) ==
    /\ Accepts(r, "changeRole")
    /\ Manages(a) /\ Offered(u) /\ account[u].role # role
    /\ account[a].role = "admin" => "owner" \notin {role, account[u].role}
    /\ ~(account[u].role = "owner" /\ RoleCount("owner") = 1)
    /\ Begin(r, [Idle EXCEPT !.pc = "changeRole", !.by = a, !.user = u, !.role = role])
    /\ ReadOnly

ChangeRoleWrite(r) ==
    /\ req[r].pc = "changeRole"
    /\ account' = [account EXCEPT ![req[r].user].role = req[r].role]
    /\ End(r) /\ OnlyAccount

\* deactivateUser
DeactivateStart(r, a, u) ==
    /\ Accepts(r, "deactivate")
    /\ Manages(a) /\ a # u /\ Enabled(u)
    /\ account[u].role = "owner" => account[a].role = "owner" /\ RoleCount("owner") # 1
    /\ Begin(r, [Idle EXCEPT !.pc = "deactivate", !.by = a, !.user = u])
    /\ ReadOnly

\* activateUser
ActivateStart(r, a, u) ==
    /\ Accepts(r, "deactivate")
    /\ Manages(a) /\ HasRow(u) /\ ~account[u].gone /\ account[u].off
    /\ account[u].role = "owner" => account[a].role = "owner"
    /\ Begin(r, [Idle EXCEPT !.pc = "activate", !.by = a, !.user = u])
    /\ ReadOnly

SwitchWrite(r) ==
    /\ req[r].pc \in {"deactivate", "activate"}
    /\ account' = [account EXCEPT ![req[r].user].off = (req[r].pc = "deactivate")]
    /\ End(r) /\ OnlyAccount

\* deleteUser
DeleteUserStart(r, a, u) ==
    /\ Accepts(r, "deleteUser")
    /\ Manages(a) /\ a # u /\ HasRow(u) /\ ~account[u].gone
    /\ account[u].role = "owner" => account[a].role = "owner" /\ RoleCount("owner") # 1
    /\ Begin(r, [Idle EXCEPT !.pc = "deleteUser", !.by = a, !.user = u])
    /\ ReadOnly

\* Mutant: the group memberships stay.
DeleteUserWriteKeepGroups(r) ==
    LET u == req[r].user
    IN  /\ req[r].pc = "deleteUser"
        /\ account' = [account EXCEPT ![u].gone = TRUE]
        /\ spaceRole' = [s \in Space |-> [spaceRole[s] EXCEPT ![u] = Nil]]
        /\ watching' = watching \ ({u} \X Space)
        /\ EndDropping(r, Space \X {u}) /\ UNCHANGED <<inGroup, invite, places, jobs>>

\* One transaction.  The row stays, with its role.
DeleteUserWrite(r) ==
    LET u == req[r].user
    IN  /\ req[r].pc = "deleteUser"
        /\ account' = [account EXCEPT ![u].gone = TRUE]
        /\ inGroup' = inGroup \ ({u} \X Group)
        /\ spaceRole' = [s \in Space |-> [spaceRole[s] EXCEPT ![u] = Nil]]
        /\ watching' = watching \ ({u} \X Space)
        /\ EndDropping(r, Space \X {u}) /\ UNCHANGED <<invite, places, jobs>>

-------------------------------------------------------------------------------
(* Spaces and their members.                                               *)

CreateSpace(r, a, s) ==
    /\ Accepts(r, "createSpace")
    /\ Manages(a) /\ s \notin spaces /\ s # Home
    /\ spaces' = spaces \cup {s}
    /\ spaceRole' = [spaceRole EXCEPT ![s][a] = "admin"]
    /\ UNCHANGED <<people, groups, inGroup, watching, jobs, req>>

\* The row goes with all that refers to it.
DeleteSpace(r, a, s) ==
    /\ Accepts(r, "deleteSpace")
    /\ SpaceAdmin(a, s)
    /\ spaces' = spaces \ {s}
    /\ spaceRole' = [spaceRole EXCEPT ![s] = [m \in Member |-> Nil]]
    /\ watching' = watching \ (User \X {s})
    /\ EndDropping(r, {s} \X Member)
    /\ UNCHANGED <<people, groups, inGroup, jobs>>

\* addMembersToSpaceBatch
AddMemberStart(r, a, s, m, role) ==
    /\ Accepts(r, "addMember")
    /\ SpaceAdmin(a, s) /\ spaceRole[s][m] = Nil
    /\ IF m \in User THEN Offered(m) ELSE m \in groups
    /\ Begin(r, [Idle EXCEPT !.pc = "addMember", !.by = a, !.space = s, !.member = m, !.role = role])
    /\ ReadOnly

\* The unique constraint and the foreign keys of space_members.
CanInsertMember(s, m) == s \in spaces /\ spaceRole[s][m] = Nil /\ m \in User \cup groups

AddMemberInsert(r) ==
    LET s == req[r].space  m == req[r].member
    IN  /\ req[r].pc = "addMember" /\ CanInsertMember(s, m)
        /\ spaceRole' = [spaceRole EXCEPT ![s][m] = req[r].role]
        /\ End(r) /\ UNCHANGED <<people, places, inGroup, watching, jobs>>

\* removeMemberFromSpace
RemoveMemberStart(r, a, s, m) ==
    /\ Accepts(r, "removeMember")
    /\ SpaceAdmin(a, s) /\ spaceRole[s][m] # Nil /\ ~LastAdmin(s, m)
    /\ Begin(r, [Idle EXCEPT !.pc = "removeMember", !.by = a, !.space = s, !.member = m,
                             !.row = TRUE, !.users = UsersOf(m), !.spaces = {s}])
    /\ ReadOnly

RemoveMemberCommit(r) ==
    LET gone == IF req[r].row THEN {<<req[r].space, req[r].member>>} ELSE {}
    IN  /\ req[r].pc = "removeMember:commit"
        /\ spaceRole' = [s \in Space |-> [m \in Member |-> IF <<s, m>> \in gone THEN Nil ELSE spaceRole[s][m]]]
        /\ EndDropping(r, gone) /\ UNCHANGED <<people, places, inGroup, watching, jobs>>

\* updateSpaceMemberRole
SpaceRoleStart(r, a, s, m, role) ==
    /\ Accepts(r, "changeSpaceRole")
    /\ SpaceAdmin(a, s) /\ spaceRole[s][m] \notin {Nil, role} /\ ~LastAdmin(s, m)
    /\ Begin(r, [Idle EXCEPT !.pc = "changeSpaceRole", !.by = a, !.space = s, !.member = m,
                             !.row = TRUE, !.role = role])
    /\ ReadOnly

SpaceRoleWrite(r) ==
    /\ req[r].pc = "changeSpaceRole"
    /\ spaceRole' = IF req[r].row THEN [spaceRole EXCEPT ![req[r].space][req[r].member] = req[r].role]
                                  ELSE spaceRole
    /\ End(r) /\ UNCHANGED <<people, places, inGroup, watching, jobs>>

-------------------------------------------------------------------------------
(* Groups.                                                                 *)

CreateGroup(r, a, g) ==
    /\ Accepts(r, "createGroup")
    /\ Manages(a) /\ g \notin groups
    /\ groups' = groups \cup {g}
    /\ UNCHANGED <<people, spaces, inGroup, spaceRole, watching, jobs, req>>

\* addUsersToGroupBatch
AddToGroupStart(r, a, g, u) ==
    /\ Accepts(r, "addToGroup")
    /\ Manages(a) /\ g \in groups /\ Offered(u)
    /\ Begin(r, [Idle EXCEPT !.pc = "addToGroup", !.by = a, !.group = g, !.user = u])
    /\ ReadOnly

\* Mutant: a user is added to a group that was deleted.
AddToGroupInsertAnyway(r) ==
    /\ req[r].pc = "addToGroup"
    /\ inGroup' = inGroup \cup {<<req[r].user, req[r].group>>}
    /\ End(r) /\ UNCHANGED <<people, places, spaceRole, watching, jobs>>

AddToGroupInsert(r) ==
    /\ req[r].pc = "addToGroup" /\ req[r].group \in groups
    /\ inGroup' = inGroup \cup {<<req[r].user, req[r].group>>}
    /\ End(r) /\ UNCHANGED <<people, places, spaceRole, watching, jobs>>

\* removeUserFromGroup
RemoveFromGroupStart(r, a, g, u) ==
    /\ Accepts(r, "removeFromGroup")
    /\ Manages(a) /\ g \in groups /\ g # Everyone /\ <<u, g>> \in inGroup
    /\ Begin(r, [Idle EXCEPT !.pc = "removeFromGroup", !.by = a, !.group = g, !.user = u,
                             !.users = {u}, !.spaces = SpacesOfGroup(g)])
    /\ ReadOnly

RemoveFromGroupCommit(r) ==
    /\ req[r].pc = "removeFromGroup:commit"
    /\ inGroup' = inGroup \ {<<req[r].user, req[r].group>>}
    /\ End(r) /\ UNCHANGED <<people, places, spaceRole, watching, jobs>>

\* deleteGroup
DeleteGroupStart(r, a, g) ==
    /\ Accepts(r, "deleteGroup")
    /\ Manages(a) /\ g \in groups /\ g # Everyone
    /\ Begin(r, [Idle EXCEPT !.pc = "deleteGroup", !.by = a, !.group = g,
                             !.users = UsersOf(g), !.spaces = SpacesOfGroup(g)])
    /\ ReadOnly

\* The rows of group_users and space_members that name the group go with it.
DeleteGroupCommit(r) ==
    LET g == req[r].group
    IN  /\ req[r].pc = "deleteGroup:commit"
        /\ groups' = groups \ {g}
        /\ inGroup' = inGroup \ (User \X {g})
        /\ spaceRole' = [s \in Space |-> [spaceRole[s] EXCEPT ![g] = Nil]]
        /\ EndDropping(r, Space \X {g}) /\ UNCHANGED <<people, spaces, watching, jobs>>

-------------------------------------------------------------------------------
(* Watchers.                                                               *)

\* deleteByUsersWithoutSpaceAccess runs inside the transactions that remove a
\* member or delete a group, before they commit, but on a connection of its
\* own: it sees, and commits, without them.
CleanWatchers(r) ==
    /\ req[r].pc \in {"removeMember", "removeFromGroup", "deleteGroup"}
    /\ watching' = watching \ {w \in req[r].users \X req[r].spaces : ~HasAccess(w[1], w[2])}
    /\ req' = [req EXCEPT ![r].pc = CASE @ = "removeMember" -> "removeMember:commit"
                                      [] @ = "removeFromGroup" -> "removeFromGroup:commit"
                                      [] @ = "deleteGroup" -> "deleteGroup:commit"]
    /\ UNCHANGED <<people, places, inGroup, spaceRole, jobs>>

WatchStart(r, u, s) ==
    /\ Accepts(r, "watch")
    /\ Enabled(u) /\ HasAccess(u, s)
    /\ Begin(r, [Idle EXCEPT !.pc = "watch", !.user = u, !.space = s])
    /\ ReadOnly

WatchInsert(r) ==
    /\ req[r].pc = "watch" /\ req[r].space \in spaces
    /\ watching' = watching \cup {<<req[r].user, req[r].space>>}
    /\ End(r) /\ UNCHANGED <<people, places, inGroup, spaceRole, jobs>>

\* Creating or editing a page, or commenting on it, queues its author as a watcher.
Edit(u, s) ==
    /\ "edit" \in Kind /\ (Serial => Quiet)
    /\ Enabled(u) /\ HasAccess(u, s)
    /\ jobs' = jobs \cup {<<u, s>>}
    /\ UNCHANGED <<people, places, inGroup, spaceRole, watching, req>>

\* The worker checks nothing; without the page the insert fails.
AddPageWatchers(u, s) ==
    /\ <<u, s>> \in jobs /\ (Serial => Quiet)
    /\ jobs' = jobs \ {<<u, s>>}
    /\ watching' = IF s \in spaces THEN watching \cup {<<u, s>>} ELSE watching
    /\ UNCHANGED <<people, places, inGroup, spaceRole, req>>

\* A write fails: a constraint refuses it, the connection drops or the server stops.
Fail(r) ==
    /\ req[r].pc # "idle"
    /\ \/ "fail" \in Kind
       \/ req[r].pc = "accept" /\ HasRow(req[r].user)
       \/ req[r].pc = "addMember" /\ ~CanInsertMember(req[r].space, req[r].member)
       \/ req[r].pc = "addToGroup" /\ req[r].group \notin groups
       \/ req[r].pc = "watch" /\ req[r].space \notin spaces
    /\ End(r) /\ ReadOnly

-------------------------------------------------------------------------------

\* WorkspaceService.create
Init ==
    /\ account = [u \in User |-> IF u = Founder THEN [NoAccount EXCEPT !.role = "owner"] ELSE NoAccount]
    /\ invite = [u \in User |-> NoInvite]
    /\ groups = {Everyone}
    /\ inGroup = {<<Founder, Everyone>>}
    /\ spaces = {Home}
    /\ spaceRole = [s \in Space |-> [m \in Member |->
         IF s # Home THEN Nil ELSE CASE m = Founder -> "admin" [] m = Everyone -> "writer" [] OTHER -> Nil]]
    /\ watching = {} /\ jobs = {}
    /\ req = [r \in Request |-> Idle]

Accounts(r, a, u) ==
    \/ \E role \in WorkspaceRole, gs \in SUBSET Group : InviteStart(r, a, u, role, gs)
    \/ Revoke(r, a, u)
    \/ \E role \in WorkspaceRole : ChangeRoleStart(r, a, u, role)
    \/ DeactivateStart(r, a, u)
    \/ ActivateStart(r, a, u)
    \/ DeleteUserStart(r, a, u)

SpaceOps(r, a, s) ==
    \/ CreateSpace(r, a, s)
    \/ DeleteSpace(r, a, s)
    \/ \E m \in Member, role \in SpaceRole : AddMemberStart(r, a, s, m, role) \/ SpaceRoleStart(r, a, s, m, role)
    \/ \E m \in Member : RemoveMemberStart(r, a, s, m)
    \/ WatchStart(r, a, s)

GroupOps(r, a, g) ==
    \/ CreateGroup(r, a, g)
    \/ \E u \in User : AddToGroupStart(r, a, g, u) \/ RemoveFromGroupStart(r, a, g, u)
    \/ DeleteGroupStart(r, a, g)

Writes(r) ==
    \/ InviteInsert(r) \/ AcceptWrite(r)
    \/ ChangeRoleWrite(r) \/ SwitchWrite(r) \/ DeleteUserWrite(r)
    \/ AddMemberInsert(r) \/ RemoveMemberCommit(r) \/ SpaceRoleWrite(r)
    \/ AddToGroupInsert(r) \/ RemoveFromGroupCommit(r) \/ DeleteGroupCommit(r)
    \/ CleanWatchers(r) \/ WatchInsert(r)
    \/ Fail(r)

Next ==
    \/ \E r \in Request, a \in User :
         \/ AcceptStart(r, a) \/ SsoSignup(r, a)
         \/ \E u \in User : Accounts(r, a, u)
         \/ \E s \in Space : SpaceOps(r, a, s)
         \/ \E g \in Group : GroupOps(r, a, g)
    \/ \E r \in Request : Writes(r)
    \/ \E u \in User, s \in Space : Edit(u, s) \/ AddPageWatchers(u, s)

Spec == Init /\ [][Next]_vars

-------------------------------------------------------------------------------
(* Properties.                                                             *)

Account == [role : WorkspaceRole \cup {Nil}, off : BOOLEAN, gone : BOOLEAN]
Invite  == {NoInvite} \cup [role : WorkspaceRole, groups : SUBSET Group]
Handler ==
    [pc : {"idle", "invite", "accept", "changeRole", "deactivate", "activate", "deleteUser",
           "addMember", "removeMember", "removeMember:commit", "changeSpaceRole", "addToGroup",
           "removeFromGroup", "removeFromGroup:commit", "deleteGroup", "deleteGroup:commit", "watch"},
     by : User \cup {Nil}, user : User \cup {Nil}, group : Group \cup {Nil}, space : Space \cup {Nil},
     member : Member \cup {Nil}, role : WorkspaceRole \cup SpaceRole \cup {Nil}, groups : SUBSET Group,
     row : BOOLEAN, users : SUBSET User, spaces : SUBSET Space]

\* Every variable has the type its table, queue or handler gives it.
TypeOK ==
    /\ account \in [User -> Account]
    /\ invite \in [User -> Invite]
    /\ groups \in SUBSET Group /\ spaces \in SUBSET Space
    /\ inGroup \in SUBSET (User \X Group)
    /\ spaceRole \in [Space -> [Member -> SpaceRole \cup {Nil}]]
    /\ watching \in SUBSET (User \X Space) /\ jobs \in SUBSET (User \X Space)
    /\ req \in [Request -> Handler]

\* group_users, space_members and watchers name users, groups and spaces that
\* exist, however their deletion interleaves with the inserts.
RowsRefer ==
    /\ \A w \in inGroup : HasRow(w[1]) /\ w[2] \in groups
    /\ \A s \in Space, m \in Member :
         spaceRole[s][m] # Nil => /\ s \in spaces
                                  /\ m \in User => HasRow(m)
                                  /\ m \in Group => m \in groups
    /\ \A w \in watching : HasRow(w[1]) /\ w[2] \in spaces

\* Every member that is not deleted is in the default group, through which the
\* default space is reached: no order of requests takes one out of it.
EveryoneGrouped ==
    \A u \in User : HasRow(u) /\ ~account[u].gone => <<u, Everyone>> \in inGroup

\* Some account keeps the role owner ("There must be at least one workspace owner").
OwnerRowRemains == \E u \in User : account[u].role = "owner"

\* Removing a member of a space or changing a role never takes its last admin
\* ("There must be at least one space admin with full access"); deleting an
\* account or a group may.
LastAdminStays ==
    [][\A s \in spaces \cap spaces' : Admins(s) # {} /\ Admins(s)' = {}
         => \E r \in Request : req[r].pc \in {"deleteUser", "deleteGroup:commit"}]_vars

\* What an owner's account holds is changed by owners only: "prevent ADMIN from
\* managing OWNER role".
AdminsLeaveOwners ==
    [][\A u \in User : account[u].role = "owner" /\ account'[u] # account[u]
         => \E r \in Request : req[r].user = u /\ account[req[r].by].role = "owner"]_vars

\* A deleted user is in no group and in no space.
DeletedUsersHaveNoAccess ==
    \A u \in User : account[u].gone =>
        /\ \A g \in Group : <<u, g>> \notin inGroup
        /\ \A s \in Space : spaceRole[s][u] = Nil
===============================================================================
