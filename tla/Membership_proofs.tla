--------------------------- MODULE Membership_proofs ---------------------------
(***************************************************************************)
(* What holds of accounts, groups, spaces and watchers for any set of       *)
(* users, groups, spaces and concurrent handlers, and what holds besides    *)
(* when the handlers run one after the other.                               *)
(***************************************************************************)
EXTENDS Membership, FiniteSetTheorems, TLAPS

-------------------------------------------------------------------------------
(* The invariant.  No handler repeats its checks when it writes: what it    *)
(* holds has to be true still, whatever the others have done in between.    *)

\* What a handler holds.  Rows of users never go, and the row of a member, if
\* it goes, takes the flag along; of a group or a space nothing is known.
Held(h) ==
    /\ h.pc \in {"invite", "accept", "changeRole"} => h.role \in WorkspaceRole
    /\ h.pc \in {"invite", "accept", "removeFromGroup", "removeFromGroup:commit"} => h.user \in User
    /\ h.pc \in {"changeRole", "deactivate", "activate", "deleteUser", "addToGroup", "watch"} =>
          h.user \in User /\ HasRow(h.user)
    /\ h.pc \in {"addMember", "changeSpaceRole"} => h.role \in SpaceRole
    /\ h.pc \in {"addMember", "removeMember", "removeMember:commit", "changeSpaceRole"} =>
          h.space \in Space /\ h.member \in Member
    /\ h.pc = "addMember" /\ h.member \in User => HasRow(h.member)
    /\ h.pc = "changeSpaceRole" /\ h.row => spaceRole[h.space][h.member] # Nil
    /\ h.pc \in {"removeFromGroup", "removeFromGroup:commit", "deleteGroup", "deleteGroup:commit"} =>
          h.group \in Group \ {Everyone}
    /\ h.pc = "watch" => h.space \in Space

AllHeld == \A r \in Request : Held(req[r])

\* The rows refer to what exists, and so will the rows that queued jobs insert.
Referring == Everyone \in groups /\ RowsRefer /\ \A w \in jobs : HasRow(w[1])

IInv == TypeOK /\ AllHeld /\ Referring /\ EveryoneGrouped

\* An idle handler holds nothing.
LEMMA IdleHeld == Idle \in Handler /\ Held(Idle)
  BY DEF Idle, Handler, Held

\* What is held stays true as long as the rows that it is about are there.
LEMMA HeldStays ==
  ASSUME NEW h, Held(h),
         \A u \in User : HasRow(u) => HasRow(u)',
         h.pc = "changeSpaceRole" /\ h.row => spaceRole'[h.space][h.member] # Nil
  PROVE  Held(h)'
  BY DEF Held

\* A handler that has only read keeps the invariant, if what it holds is so.
LEMMA StartKeeps ==
  ASSUME IInv, NEW r \in Request, NEW h \in Handler, Held(h), Begin(r, h), ReadOnly
  PROVE  IInv'
  <1> USE DEF Begin, ReadOnly, people, places
  <1>1. TypeOK'
    BY DEF IInv, TypeOK
  <1>2. Referring' /\ EveryoneGrouped'
    BY DEF IInv, Referring, RowsRefer, EveryoneGrouped, HasRow
  <1>3. \A q \in Request : req'[q] = IF q = r THEN h ELSE req[q]
    BY DEF IInv, TypeOK
  <1>4. \A q \in Request : Held(req'[q])
    BY <1>3 DEF IInv, AllHeld
  <1>5. AllHeld'
    BY <1>4 DEF AllHeld, Held, HasRow
  <1> QED
    BY <1>1, <1>2, <1>5 DEF IInv

\* A handler that ends, or a step of none, keeps what the others hold.
LEMMA EndKeeps ==
  ASSUME IInv, UNCHANGED req \/ \E r \in Request : End(r),
         \A u \in User : HasRow(u) => HasRow(u)',
         \A s \in Space, m \in Member : spaceRole[s][m] # Nil => spaceRole'[s][m] # Nil
  PROVE  AllHeld' /\ req' \in [Request -> Handler]
  <1>1. req' \in [Request -> Handler]
    BY IdleHeld DEF IInv, TypeOK, End
  <1>2. \A q \in Request : req'[q] = req[q] \/ req'[q] = Idle
    BY DEF IInv, TypeOK, End
  <1>3. ASSUME NEW q \in Request PROVE Held(req[q])'
    <2>1. CASE req'[q] = Idle
      BY <2>1 DEF Held, Idle
    <2>2. CASE req'[q] = req[q]
      <3>1. Held(req[q]) /\ req'[q] = req[q]
        BY <2>2 DEF IInv, AllHeld
      <3>2. req[q].pc = "changeSpaceRole" /\ req[q].row => spaceRole'[req[q].space][req[q].member] # Nil
        BY <3>1 DEF Held
      <3> QED
        BY <3>1, <3>2 DEF Held
    <2> QED
      BY <1>2, <2>1, <2>2
  <1> QED
    BY <1>1, <1>3 DEF AllHeld

\* A handler that deletes rows of members tells the others, and ends.
LEMMA DropKeeps ==
  ASSUME IInv, NEW r \in Request, NEW gone, EndDropping(r, gone),
         \A u \in User : HasRow(u) => HasRow(u)',
         \A s \in Space, m \in Member :
            spaceRole[s][m] # Nil /\ <<s, m>> \notin gone => spaceRole'[s][m] # Nil
  PROVE  AllHeld' /\ req' \in [Request -> Handler]
  <1>1. ASSUME NEW q \in Request PROVE req'[q] \in Handler
    <2>1. req[q] \in Handler /\ req'[q] = IF q = r THEN Idle
              ELSE [req[q] EXCEPT !.row = @ /\ <<req[q].space, req[q].member>> \notin gone]
      BY DEF IInv, TypeOK, EndDropping
    <2>2. CASE q # r
      <3> DEFINE b == req[q].row /\ <<req[q].space, req[q].member>> \notin gone
      <3>1. b \in BOOLEAN
        OBVIOUS
      <3>2. req'[q] = [req[q] EXCEPT !.row = b]
        BY <2>1, <2>2
      <3> HIDE DEF b
      <3> QED
        BY <2>1, <3>1, <3>2 DEF Handler
    <2> QED
      BY <2>1, <2>2, IdleHeld
  <1>2. ASSUME NEW q \in Request PROVE Held(req[q])'
    <2>1. CASE q = r
      BY <2>1 DEF Held, Idle, EndDropping
    <2>2. CASE q # r
      <3> DEFINE h == req[q]
      <3>1. Held(h) /\ h \in Handler
        BY DEF IInv, AllHeld, TypeOK
      <3>2. req'[q] = [h EXCEPT !.row = @ /\ <<h.space, h.member>> \notin gone]
        BY <2>2 DEF EndDropping
      <3>3. /\ req'[q].pc = h.pc /\ req'[q].role = h.role /\ req'[q].user = h.user
            /\ req'[q].space = h.space /\ req'[q].member = h.member /\ req'[q].group = h.group
            /\ req'[q].row = (h.row /\ <<h.space, h.member>> \notin gone)
        BY <3>1, <3>2 DEF Handler
      <3> HIDE DEF h
      <3>4. h.pc = "changeSpaceRole" /\ req'[q].row => spaceRole'[h.space][h.member] # Nil
        BY <3>1, <3>3 DEF Held
      <3> QED
        BY <3>1, <3>3, <3>4 DEF Held
    <2> QED
      BY <2>1, <2>2
  <1>3. DOMAIN req' = Request /\ req' = [q \in Request |-> req'[q]]
    BY DEF EndDropping
  <1> QED
    BY <1>1, <1>2, <1>3 DEF AllHeld

-------------------------------------------------------------------------------
(* One lemma per group of actions.                                          *)

LEMMA AccountStartsKeep ==
  ASSUME IInv, NEW r \in Request, NEW a \in User, NEW u \in User
  PROVE  /\ \A role \in WorkspaceRole, gs \in SUBSET Group : InviteStart(r, a, u, role, gs) => IInv'
         /\ \A role \in WorkspaceRole : ChangeRoleStart(r, a, u, role) => IInv'
         /\ DeactivateStart(r, a, u) \/ ActivateStart(r, a, u) \/ DeleteUserStart(r, a, u) => IInv'
         /\ AcceptStart(r, u) => IInv'
  <1> USE DEF IInv, TypeOK
  <1>1. ASSUME NEW role \in WorkspaceRole, NEW gs \in SUBSET Group, InviteStart(r, a, u, role, gs)
        PROVE  IInv'
    <2> DEFINE h == [Idle EXCEPT !.pc = "invite", !.by = a, !.user = u, !.role = role,
                                 !.groups = gs \cap groups]
    <2>1. h \in Handler /\ Held(h)
      BY DEF Idle, Handler, Held
    <2> QED
      BY <1>1, <2>1, StartKeeps DEF InviteStart
  <1>2. ASSUME NEW role \in WorkspaceRole, ChangeRoleStart(r, a, u, role)
        PROVE  IInv'
    <2> DEFINE h == [Idle EXCEPT !.pc = "changeRole", !.by = a, !.user = u, !.role = role]
    <2>1. h \in Handler /\ Held(h)
      BY <1>2 DEF Idle, Handler, Held, ChangeRoleStart, Offered
    <2> QED
      BY <1>2, <2>1, StartKeeps DEF ChangeRoleStart
  <1>3. ASSUME NEW pc \in {"deactivate", "activate", "deleteUser"}, HasRow(u), ReadOnly,
               Begin(r, [Idle EXCEPT !.pc = pc, !.by = a, !.user = u])
        PROVE  IInv'
    <2> DEFINE h == [Idle EXCEPT !.pc = pc, !.by = a, !.user = u]
    <2>1. h \in Handler /\ Held(h)
      BY <1>3 DEF Idle, Handler, Held
    <2> QED
      BY <1>3, <2>1, StartKeeps
  <1>4. ASSUME AcceptStart(r, u) PROVE IInv'
    <2> DEFINE h == [Idle EXCEPT !.pc = "accept", !.user = u, !.role = invite[u].role,
                                 !.groups = invite[u].groups, !.row = TRUE]
    <2>1. invite[u] \in [role : WorkspaceRole, groups : SUBSET Group]
      BY <1>4 DEF AcceptStart, Invite
    <2>2. h \in Handler /\ Held(h)
      BY <2>1 DEF Idle, Handler, Held
    <2> QED
      BY <1>4, <2>2, StartKeeps DEF AcceptStart
  <1>5. DeactivateStart(r, a, u) => IInv'
    BY <1>3 DEF DeactivateStart, Enabled
  <1>6. ActivateStart(r, a, u) => IInv'
    BY <1>3 DEF ActivateStart
  <1>7. DeleteUserStart(r, a, u) => IInv'
    BY <1>3 DEF DeleteUserStart
  <1> QED
    BY <1>1, <1>2, <1>4, <1>5, <1>6, <1>7

LEMMA PlaceStartsKeep ==
  ASSUME IInv, NEW r \in Request, NEW a \in User, NEW s \in Space
  PROVE  /\ \A m \in Member, role \in SpaceRole :
               AddMemberStart(r, a, s, m, role) \/ SpaceRoleStart(r, a, s, m, role) => IInv'
         /\ \A m \in Member : RemoveMemberStart(r, a, s, m) => IInv'
         /\ WatchStart(r, a, s) => IInv'
  <1> USE DEF IInv, TypeOK
  <1>1. ASSUME NEW m \in Member, NEW role \in SpaceRole, AddMemberStart(r, a, s, m, role)
        PROVE  IInv'
    <2> DEFINE h == [Idle EXCEPT !.pc = "addMember", !.by = a, !.space = s, !.member = m, !.role = role]
    <2>1. h \in Handler /\ Held(h)
      BY <1>1, ZenonT(60) DEF Idle, Handler, Held, AddMemberStart, Offered
    <2> QED
      BY <1>1, <2>1, StartKeeps DEF AddMemberStart
  <1>2. ASSUME NEW m \in Member, NEW role \in SpaceRole, SpaceRoleStart(r, a, s, m, role)
        PROVE  IInv'
    <2> DEFINE h == [Idle EXCEPT !.pc = "changeSpaceRole", !.by = a, !.space = s, !.member = m,
                                 !.row = TRUE, !.role = role]
    <2>1. h \in Handler /\ Held(h)
      BY <1>2 DEF Idle, Handler, Held, SpaceRoleStart
    <2> QED
      BY <1>2, <2>1, StartKeeps DEF SpaceRoleStart
  <1>3. ASSUME NEW m \in Member, RemoveMemberStart(r, a, s, m)
        PROVE  IInv'
    <2> DEFINE h == [Idle EXCEPT !.pc = "removeMember", !.by = a, !.space = s, !.member = m,
                                 !.row = TRUE, !.users = UsersOf(m), !.spaces = {s}]
    <2>1. UsersOf(m) \in SUBSET User
      BY DEF UsersOf
    <2>2. h \in Handler /\ Held(h)
      BY <2>1 DEF Idle, Handler, Held
    <2> QED
      BY <1>3, <2>2, StartKeeps DEF RemoveMemberStart
  <1>4. ASSUME WatchStart(r, a, s) PROVE IInv'
    <2> DEFINE h == [Idle EXCEPT !.pc = "watch", !.user = a, !.space = s]
    <2>1. h \in Handler /\ Held(h)
      BY <1>4 DEF Idle, Handler, Held, WatchStart, Enabled
    <2> QED
      BY <1>4, <2>1, StartKeeps DEF WatchStart
  <1> QED
    BY <1>1, <1>2, <1>3, <1>4

LEMMA GroupStartsKeep ==
  ASSUME IInv, NEW r \in Request, NEW a \in User, NEW g \in Group
  PROVE  /\ \A u \in User : AddToGroupStart(r, a, g, u) \/ RemoveFromGroupStart(r, a, g, u) => IInv'
         /\ DeleteGroupStart(r, a, g) => IInv'
  <1> USE DEF IInv, TypeOK
  <1>0. SpacesOfGroup(g) \in SUBSET Space /\ UsersOf(g) \in SUBSET User
    BY DEF SpacesOfGroup, UsersOf
  <1>1. ASSUME NEW u \in User, AddToGroupStart(r, a, g, u) PROVE IInv'
    <2> DEFINE h == [Idle EXCEPT !.pc = "addToGroup", !.by = a, !.group = g, !.user = u]
    <2>1. h \in Handler /\ Held(h)
      BY <1>1 DEF Idle, Handler, Held, AddToGroupStart, Offered
    <2> QED
      BY <1>1, <2>1, StartKeeps DEF AddToGroupStart
  <1>2. ASSUME NEW u \in User, RemoveFromGroupStart(r, a, g, u) PROVE IInv'
    <2> DEFINE h == [Idle EXCEPT !.pc = "removeFromGroup", !.by = a, !.group = g, !.user = u,
                                 !.users = {u}, !.spaces = SpacesOfGroup(g)]
    <2>1. h \in Handler /\ Held(h)
      BY <1>0, <1>2 DEF Idle, Handler, Held, RemoveFromGroupStart
    <2> QED
      BY <1>2, <2>1, StartKeeps DEF RemoveFromGroupStart
  <1>3. ASSUME DeleteGroupStart(r, a, g) PROVE IInv'
    <2> DEFINE h == [Idle EXCEPT !.pc = "deleteGroup", !.by = a, !.group = g,
                                 !.users = UsersOf(g), !.spaces = SpacesOfGroup(g)]
    <2>1. h \in Handler /\ Held(h)
      BY <1>0, <1>3 DEF Idle, Handler, Held, DeleteGroupStart
    <2> QED
      BY <1>3, <2>1, StartKeeps DEF DeleteGroupStart
  <1> QED
    BY <1>1, <1>2, <1>3

\* Switching an account or deleting it leaves it an account with the same role.
LEMMA SwitchedAccount ==
  ASSUME NEW x \in Account, NEW b \in BOOLEAN
  PROVE  /\ [x EXCEPT !.off = b] \in Account /\ [x EXCEPT !.gone = b] \in Account
         /\ [x EXCEPT !.off = b].role = x.role /\ [x EXCEPT !.gone = b].role = x.role
         /\ [x EXCEPT !.off = b].gone = x.gone /\ [x EXCEPT !.gone = b].gone = b
  BY DEF Account

\* An account that comes is put in the default group, one that is switched, or
\* gets another role, stays where it is.
LEMMA AccountWritesKeep ==
  ASSUME IInv, NEW r \in Request, NEW a \in User, NEW u \in User
  PROVE  /\ Revoke(r, a, u) \/ SsoSignup(r, u) => IInv'
         /\ InviteInsert(r) \/ AcceptWrite(r) => IInv'
         /\ ChangeRoleWrite(r) \/ SwitchWrite(r) \/ DeleteUserWrite(r) => IInv'
  <1> USE IdsAssumption DEF IInv, TypeOK, people, places, OnlyAccount
  <1>0. Held(req[r]) /\ req[r] \in Handler
    BY DEF AllHeld
  <1>1. ASSUME Revoke(r, a, u) PROVE IInv'
    <2>1. invite' \in [User -> Invite]
      BY <1>1 DEF Revoke, Invite
    <2>2. ASSUME NEW q \in Request PROVE req'[q] \in Handler /\ Held(req[q])'
      <3>1. req[q] \in Handler /\ Held(req[q])
        BY DEF AllHeld
      <3>2. \/ req'[q] = req[q]
            \/ req'[q] = [req[q] EXCEPT !.row = FALSE] /\ req[q].pc = "accept"
        BY <1>1 DEF Revoke
      <3>3. UNCHANGED <<account, spaceRole>>
        BY <1>1 DEF Revoke
      <3>4. CASE req'[q] = req[q]
        BY <3>1, <3>3, <3>4 DEF Held, HasRow
      <3>5. CASE req'[q] = [req[q] EXCEPT !.row = FALSE] /\ req[q].pc = "accept"
        <4>1. /\ req'[q] \in Handler /\ req'[q].pc = "accept"
              /\ req'[q].user = req[q].user /\ req'[q].role = req[q].role
          BY <3>1, <3>5, ZenonT(60) DEF Handler
        <4> QED
          BY <3>1, <3>5, <4>1 DEF Held
      <3> QED
        BY <3>2, <3>4, <3>5
    <2>3. req' = [q \in Request |-> req'[q]]
      BY <1>1 DEF Revoke
    <2> QED
      BY <1>1, <2>1, <2>2, <2>3 DEF Revoke, AllHeld, Referring, RowsRefer, EveryoneGrouped, HasRow
  <1>2. ASSUME NEW v \in User, NEW role \in WorkspaceRole, NEW gs \in SUBSET Group, Everyone \in gs,
               account' = [account EXCEPT ![v].role = role],
               inGroup' = inGroup \cup ({v} \X (gs \cap groups)),
               invite' \in [User -> Invite], End(r) \/ UNCHANGED req,
               UNCHANGED <<places, spaceRole, watching, jobs>>
        PROVE  IInv'
    <2>1. \A w \in User : account'[w] = IF w = v THEN [account[v] EXCEPT !.role = role] ELSE account[w]
      BY <1>2
    <2>2. account' \in [User -> Account]
      BY <1>2 DEF Account
    <2>3. \A w \in User : (HasRow(w) => HasRow(w)') /\ account'[w].gone = account[w].gone
                           /\ (HasRow(w)' => HasRow(w) \/ w = v)
      BY <2>1 DEF HasRow, Account
    <2>4. AllHeld' /\ req' \in [Request -> Handler]
      BY <1>2, <2>3, EndKeeps
    <2>5. inGroup' \in SUBSET (User \X Group)
      BY <1>2
    <2>6. HasRow(v)'
      BY <1>2, <2>1 DEF HasRow, Account
    <2>7. Referring'
      BY <1>2, <2>3, <2>6 DEF Referring, RowsRefer
    <2>8. EveryoneGrouped'
      BY <1>2, <2>3 DEF EveryoneGrouped, Referring
    <2> QED
      BY <1>2, <2>2, <2>4, <2>5, <2>7, <2>8
  <1>3. ASSUME SsoSignup(r, u) PROVE IInv'
    <2>1. "member" \in WorkspaceRole /\ {Everyone} \in SUBSET Group
      BY FirstAssumption DEF WorkspaceRole
    <2>2. {u} \X ({Everyone} \cap groups) = {<<u, Everyone>>}
      BY DEF Referring
    <2>3. inGroup' = inGroup \cup ({u} \X ({Everyone} \cap groups))
      BY <1>3, <2>2 DEF SsoSignup
    <2> QED
      BY <1>2, <1>3, <2>1, <2>3 DEF SsoSignup
  <1>4. ASSUME InviteInsert(r) PROVE IInv'
    <2> DEFINE v == req[r].user
    <2>1. v \in User /\ req[r].role \in WorkspaceRole /\ req[r].groups \in SUBSET Group
      BY <1>0, <1>4 DEF InviteInsert, Held, Handler
    <2>2. invite' \in [User -> Invite]
      BY <1>4, <2>1 DEF InviteInsert, Invite
    <2>3. AllHeld' /\ req' \in [Request -> Handler]
      BY <1>4, EndKeeps DEF InviteInsert, HasRow
    <2> QED
      BY <1>4, <2>2, <2>3 DEF InviteInsert, Referring, RowsRefer, EveryoneGrouped, HasRow
  <1>5. ASSUME AcceptWrite(r) PROVE IInv'
    <2> DEFINE gs == {Everyone} \cup (req[r].groups \cap groups)
    <2>1. req[r].user \in User /\ req[r].role \in WorkspaceRole /\ gs \in SUBSET Group
      BY <1>0, <1>5, FirstAssumption DEF AcceptWrite, Held, Handler
    <2>2. invite' \in [User -> Invite]
      BY <1>5, <2>1 DEF AcceptWrite, Invite
    <2>3. gs = gs \cap groups
      BY DEF Referring
    <2>4. inGroup' = inGroup \cup ({req[r].user} \X (gs \cap groups))
      BY <1>5, <2>3 DEF AcceptWrite
    <2> HIDE DEF gs
    <2>5. Everyone \in gs
      BY DEF gs
    <2> QED
      BY <1>2, <1>5, <2>1, <2>2, <2>4, <2>5 DEF AcceptWrite
  <1>6. ASSUME account' \in [User -> Account], OnlyAccount, End(r),
               \A w \in User : /\ (account'[w].role = Nil) = (account[w].role = Nil)
                               /\ account'[w].gone = account[w].gone
        PROVE  IInv'
    <2>1. \A w \in User : HasRow(w)' = HasRow(w)
      BY <1>6 DEF HasRow
    <2>2. AllHeld' /\ req' \in [Request -> Handler]
      BY <1>6, <2>1, EndKeeps
    <2>3. Referring' /\ EveryoneGrouped'
      BY <1>6, <2>1 DEF Referring, RowsRefer, EveryoneGrouped
    <2> QED
      BY <1>6, <2>2, <2>3
  <1>7. ASSUME ChangeRoleWrite(r) PROVE IInv'
    <2> DEFINE v == req[r].user
    <2>1. v \in User /\ HasRow(v) /\ req[r].role \in WorkspaceRole
      BY <1>0, <1>7 DEF ChangeRoleWrite, Held
    <2>2. account' = [account EXCEPT ![v] = [account[v] EXCEPT !.role = req[r].role]]
      BY <1>7 DEF ChangeRoleWrite
    <2>3. /\ account' \in [User -> Account]
          /\ \A w \in User : /\ (account'[w].role = Nil) = (account[w].role = Nil)
                             /\ account'[w].gone = account[w].gone
      BY <2>1, <2>2 DEF HasRow, Account
    <2> QED
      BY <1>6, <1>7, <2>3 DEF ChangeRoleWrite
  <1>8. ASSUME SwitchWrite(r) PROVE IInv'
    <2> DEFINE v == req[r].user
    <2>1. v \in User /\ account[v] \in Account
      BY <1>0, <1>8 DEF SwitchWrite, Held
    <2>2. ASSUME NEW x \in Account, x.role = account[v].role, x.gone = account[v].gone,
                 account' = [account EXCEPT ![v] = x]
          PROVE  IInv'
      <3>1. /\ account' \in [User -> Account]
            /\ \A w \in User : /\ (account'[w].role = Nil) = (account[w].role = Nil)
                               /\ account'[w].gone = account[w].gone
        BY <2>1, <2>2
      <3> QED
        BY <1>6, <1>8, <3>1 DEF SwitchWrite
    <2>3. CASE req[r].pc = "deactivate"
      <3>1. account' = [account EXCEPT ![v] = [account[v] EXCEPT !.off = TRUE]]
        BY <1>8, <2>3 DEF SwitchWrite
      <3> DEFINE x == [account[v] EXCEPT !.off = TRUE]
      <3>2. x \in Account /\ x.role = account[v].role /\ x.gone = account[v].gone
        BY <2>1, SwitchedAccount
      <3>3. account' = [account EXCEPT ![v] = x]
        BY <3>1
      <3> HIDE DEF x
      <3> QED
        BY <2>2, <3>2, <3>3
    <2>4. CASE req[r].pc = "activate"
      <3>1. account' = [account EXCEPT ![v] = [account[v] EXCEPT !.off = FALSE]]
        BY <1>8, <2>4 DEF SwitchWrite
      <3> DEFINE x == [account[v] EXCEPT !.off = FALSE]
      <3>2. x \in Account /\ x.role = account[v].role /\ x.gone = account[v].gone
        BY <2>1, SwitchedAccount
      <3>3. account' = [account EXCEPT ![v] = x]
        BY <3>1
      <3> HIDE DEF x
      <3> QED
        BY <2>2, <3>2, <3>3
    <2> QED
      BY <1>8, <2>3, <2>4 DEF SwitchWrite
  <1>9. ASSUME DeleteUserWrite(r) PROVE IInv'
    <2> DEFINE v == req[r].user
    <2>1. v \in User
      BY <1>0, <1>9 DEF DeleteUserWrite, Held
    <2>2. account' = [account EXCEPT ![v] = [account[v] EXCEPT !.gone = TRUE]]
      BY <1>9 DEF DeleteUserWrite
    <2>a. /\ [account[v] EXCEPT !.gone = TRUE] \in Account
          /\ [account[v] EXCEPT !.gone = TRUE].role = account[v].role
          /\ [account[v] EXCEPT !.gone = TRUE].gone = TRUE
      <3> DEFINE w == account[v]
                 yes == TRUE
      <3>1. w \in Account /\ yes \in BOOLEAN /\ yes = TRUE
        BY <2>1
      <3> HIDE DEF w, yes
      <3>2. /\ [w EXCEPT !.gone = yes] \in Account
            /\ [w EXCEPT !.gone = yes].role = w.role /\ [w EXCEPT !.gone = yes].gone = yes
        BY <3>1, SwitchedAccount
      <3> QED
        BY <3>1, <3>2 DEF w
    <2>3. /\ account' \in [User -> Account]
          /\ \A w \in User : /\ account'[w].role = account[w].role
                             /\ account'[w].gone = IF w = v THEN TRUE ELSE account[w].gone
      BY <2>1, <2>2, <2>a
    <2>4. \A w \in User : HasRow(w)' = HasRow(w)
      BY <2>3 DEF HasRow
    <2>5. \A s \in Space, m \in Member : spaceRole'[s][m] = IF m = v THEN Nil ELSE spaceRole[s][m]
      BY <1>9, <2>1 DEF DeleteUserWrite, Member
    <2>6. spaceRole' \in [Space -> [Member -> SpaceRole \cup {Nil}]]
      BY <1>9, <2>1 DEF DeleteUserWrite, Member
    <2>7. \A s \in Space, m \in Member :
             spaceRole[s][m] # Nil /\ <<s, m>> \notin Space \X {v} => spaceRole'[s][m] # Nil
      BY <2>5
    <2>8. AllHeld' /\ req' \in [Request -> Handler]
      BY <1>9, <2>4, <2>7, DropKeeps DEF DeleteUserWrite
    <2>9. Referring'
      BY <1>9, <2>4, <2>5 DEF DeleteUserWrite, Referring, RowsRefer
    <2>10. EveryoneGrouped'
      BY <1>9, <2>3, <2>4 DEF DeleteUserWrite, EveryoneGrouped
    <2> QED
      BY <1>9, <2>3, <2>6, <2>8, <2>9, <2>10 DEF DeleteUserWrite
  <1> QED
    BY <1>1, <1>3, <1>4, <1>5, <1>7, <1>8, <1>9

\* The rows of members: inserted for a space, a user and a group that exist,
\* changed or deleted where they are.
LEMMA PlaceWritesKeep ==
  ASSUME IInv, NEW r \in Request, NEW a \in User, NEW s \in Space
  PROVE  /\ CreateSpace(r, a, s) \/ DeleteSpace(r, a, s) => IInv'
         /\ AddMemberInsert(r) \/ RemoveMemberCommit(r) \/ SpaceRoleWrite(r) => IInv'
  <1> USE IdsAssumption DEF IInv, TypeOK, people, places
  <1>0. Held(req[r]) /\ req[r] \in Handler
    BY DEF AllHeld
  <1>1. ASSUME NEW z \in Space, NEW m \in Member, NEW role \in SpaceRole \cup {Nil},
               role # Nil => /\ z \in spaces'
                             /\ m \in User => HasRow(m)
                             /\ m \in Group => m \in groups,
               role = Nil => spaceRole[z][m] = Nil,
               spaceRole' = [spaceRole EXCEPT ![z][m] = role],
               spaces' \in SUBSET Space, spaces \subseteq spaces',
               End(r) \/ UNCHANGED req,
               UNCHANGED <<people, groups, inGroup, watching, jobs>>
        PROVE  IInv'
    <2>1. \A y \in Space, n \in Member :
             spaceRole'[y][n] = IF y = z /\ n = m THEN role ELSE spaceRole[y][n]
      BY <1>1
    <2>2. spaceRole' \in [Space -> [Member -> SpaceRole \cup {Nil}]]
      BY <1>1
    <2>3. AllHeld' /\ req' \in [Request -> Handler]
      BY <1>1, <2>1, EndKeeps DEF HasRow
    <2>4. \A y \in Space, n \in Member :
             spaceRole'[y][n] # Nil => (y = z /\ n = m /\ role # Nil) \/ spaceRole[y][n] # Nil
      BY <2>1
    <2>5. \A u \in User : HasRow(u)' = HasRow(u)
      BY <1>1 DEF HasRow
    <2>6. RowsRefer'
      BY <1>1, <2>4, <2>5 DEF Referring, RowsRefer
    <2>7. Referring' /\ EveryoneGrouped'
      BY <1>1, <2>5, <2>6 DEF Referring, EveryoneGrouped
    <2> QED
      BY <1>1, <2>2, <2>3, <2>7
  <1>2. ASSUME CreateSpace(r, a, s) PROVE IInv'
    <2>1. a \in Member /\ HasRow(a) /\ a \notin Group /\ "admin" \in SpaceRole
      BY <1>2 DEF CreateSpace, Manages, Enabled, Member, SpaceRole
    <2> QED
      BY <1>1, <1>2, <2>1 DEF CreateSpace
  <1>3. ASSUME AddMemberInsert(r) PROVE IInv'
    <2> DEFINE z == req[r].space
               m == req[r].member
               role == req[r].role
    <2>1. z \in Space /\ m \in Member /\ role \in SpaceRole /\ (m \in User => HasRow(m))
      BY <1>0, <1>3 DEF AddMemberInsert, Held
    <2>2. z \in spaces /\ m \in User \cup groups
      BY <1>3 DEF AddMemberInsert, CanInsertMember
    <2>3. role # Nil /\ (m \in Group => m \in groups)
      BY <2>1, <2>2
    <2>4. /\ spaceRole' = [spaceRole EXCEPT ![z][m] = role]
          /\ End(r) /\ UNCHANGED <<people, groups, inGroup, watching, jobs>> /\ spaces' = spaces
      BY <1>3 DEF AddMemberInsert
    <2> HIDE DEF z, m, role
    <2> QED
      BY <1>1, <2>1, <2>2, <2>3, <2>4
  <1>4. ASSUME SpaceRoleWrite(r) PROVE IInv'
    <2>1. /\ req[r].space \in Space /\ req[r].member \in Member /\ req[r].role \in SpaceRole
          /\ req[r].row => spaceRole[req[r].space][req[r].member] # Nil
      BY <1>0, <1>4 DEF SpaceRoleWrite, Held
    <2>2. CASE req[r].row
      <3> DEFINE z == req[r].space
                 m == req[r].member
                 role == req[r].role
      <3>1. spaceRole[z][m] # Nil /\ role # Nil
        BY <2>1, <2>2
      <3>2. z \in spaces /\ (m \in User => HasRow(m)) /\ (m \in Group => m \in groups)
        BY <2>1, <3>1 DEF Referring, RowsRefer
      <3>3. /\ spaceRole' = [spaceRole EXCEPT ![z][m] = role] /\ spaces' = spaces
            /\ End(r) /\ UNCHANGED <<people, groups, inGroup, watching, jobs>>
        BY <1>4, <2>2 DEF SpaceRoleWrite
      <3> HIDE DEF z, m, role
      <3>4. z \in Space /\ m \in Member /\ role \in SpaceRole
        BY <2>1 DEF z, m, role
      <3> QED
        BY <1>1, <3>1, <3>2, <3>3, <3>4
    <2>3. CASE ~req[r].row
      <3>1. spaceRole' = spaceRole
        BY <1>4, <2>3 DEF SpaceRoleWrite
      <3>2. AllHeld' /\ req' \in [Request -> Handler]
        BY <1>4, <3>1, EndKeeps DEF SpaceRoleWrite, HasRow
      <3> QED
        BY <1>4, <3>1, <3>2 DEF SpaceRoleWrite, Referring, RowsRefer, EveryoneGrouped, HasRow
    <2> QED
      BY <2>2, <2>3
  <1>5. ASSUME NEW gone \in SUBSET (Space \X Member), EndDropping(r, gone),
               spaceRole' \in [Space -> [Member -> SpaceRole \cup {Nil}]],
               \A y \in Space, n \in Member :
                  spaceRole'[y][n] = IF <<y, n>> \in gone THEN Nil ELSE spaceRole[y][n],
               spaces' \in SUBSET spaces,
               \A y \in spaces \ spaces', n \in Member : <<y, n>> \in gone,
               watching' = watching \cap (User \X spaces'),
               UNCHANGED <<people, groups, inGroup, jobs>>
        PROVE  IInv'
    <2>1. AllHeld' /\ req' \in [Request -> Handler]
      BY <1>5, DropKeeps DEF HasRow
    <2>2. \A y \in Space, n \in Member : spaceRole'[y][n] # Nil => spaceRole[y][n] # Nil /\ <<y, n>> \notin gone
      BY <1>5
    <2>3. \A u \in User : HasRow(u)' = HasRow(u)
      BY <1>5 DEF HasRow
    <2>4. RowsRefer'
      <3>1. \A w \in inGroup' : HasRow(w[1])' /\ w[2] \in groups'
        BY <1>5, <2>3 DEF Referring, RowsRefer
      <3>2. \A y \in Space, m \in Member :
               spaceRole'[y][m] # Nil => /\ y \in spaces'
                                         /\ m \in User => HasRow(m)'
                                         /\ m \in Group => m \in groups'
        <4> SUFFICES ASSUME NEW y \in Space, NEW m \in Member, spaceRole'[y][m] # Nil
                     PROVE  y \in spaces' /\ (m \in User => HasRow(m)') /\ (m \in Group => m \in groups')
          OBVIOUS
        <4>1. y \in spaces /\ (m \in User => HasRow(m)) /\ (m \in Group => m \in groups)
          BY <2>2 DEF Referring, RowsRefer
        <4>2. y \in spaces'
          BY <1>5, <2>2, <4>1
        <4> QED
          BY <1>5, <2>3, <4>1, <4>2
      <3>3. \A w \in watching' : HasRow(w[1])' /\ w[2] \in spaces'
        BY <1>5, <2>3 DEF Referring, RowsRefer
      <3> QED
        BY <3>1, <3>2, <3>3 DEF RowsRefer
    <2>5. Referring' /\ EveryoneGrouped'
      BY <1>5, <2>3, <2>4 DEF Referring, EveryoneGrouped
    <2> QED
      BY <1>5, <2>1, <2>5
  <1>6. ASSUME DeleteSpace(r, a, s) PROVE IInv'
    <2> DEFINE gone == {s} \X Member
    <2>1. spaceRole' \in [Space -> [Member -> SpaceRole \cup {Nil}]]
      BY <1>6 DEF DeleteSpace
    <2>2. \A y \in Space, n \in Member :
             spaceRole'[y][n] = IF <<y, n>> \in gone THEN Nil ELSE spaceRole[y][n]
      BY <1>6 DEF DeleteSpace
    <2>3. watching' = watching \cap (User \X spaces')
      BY <1>6 DEF DeleteSpace, Referring, RowsRefer
    <2>4. spaces' = spaces \ {s} /\ EndDropping(r, gone)
          /\ UNCHANGED <<people, groups, inGroup, jobs>>
      BY <1>6 DEF DeleteSpace
    <2> QED
      BY <1>5, <2>1, <2>2, <2>3, <2>4
  <1>7. ASSUME RemoveMemberCommit(r) PROVE IInv'
    <2> DEFINE gone == IF req[r].row THEN {<<req[r].space, req[r].member>>} ELSE {}
    <2>1. gone \in SUBSET (Space \X Member)
      BY <1>0, <1>7 DEF RemoveMemberCommit, Held
    <2>2. EndDropping(r, gone) /\ UNCHANGED <<people, places, inGroup, watching, jobs>>
          /\ spaceRole' = [y \in Space |-> [n \in Member |-> IF <<y, n>> \in gone THEN Nil ELSE spaceRole[y][n]]]
      BY <1>7 DEF RemoveMemberCommit
    <2> HIDE DEF gone
    <2>3. /\ spaceRole' \in [Space -> [Member -> SpaceRole \cup {Nil}]]
          /\ \A y \in Space, n \in Member :
                spaceRole'[y][n] = IF <<y, n>> \in gone THEN Nil ELSE spaceRole[y][n]
      BY <2>2
    <2>4. watching' = watching \cap (User \X spaces')
      BY <2>2 DEF Referring, RowsRefer
    <2> QED
      BY <1>5, <2>1, <2>2, <2>3, <2>4
  <1> QED
    BY <1>2, <1>3, <1>4, <1>6, <1>7

\* Nobody but a deleted user leaves the default group, and a group takes the
\* rows along that name it.
LEMMA GroupWritesKeep ==
  ASSUME IInv, NEW r \in Request, NEW a \in User, NEW g \in Group
  PROVE  /\ CreateGroup(r, a, g) => IInv'
         /\ AddToGroupInsert(r) \/ RemoveFromGroupCommit(r) \/ DeleteGroupCommit(r) => IInv'
  <1> USE IdsAssumption DEF IInv, TypeOK, people, places
  <1>0. Held(req[r]) /\ req[r] \in Handler
    BY DEF AllHeld
  <1>1. ASSUME CreateGroup(r, a, g) PROVE IInv'
    <2>1. AllHeld' /\ req' \in [Request -> Handler]
      BY <1>1, EndKeeps DEF CreateGroup, HasRow
    <2> QED
      BY <1>1, <2>1 DEF CreateGroup, Referring, RowsRefer, EveryoneGrouped, HasRow
  <1>2. ASSUME AddToGroupInsert(r) PROVE IInv'
    <2>1. req[r].user \in User /\ HasRow(req[r].user)
      BY <1>0, <1>2 DEF AddToGroupInsert, Held
    <2>2. AllHeld' /\ req' \in [Request -> Handler]
      BY <1>2, EndKeeps DEF AddToGroupInsert, HasRow
    <2> QED
      BY <1>2, <2>1, <2>2 DEF AddToGroupInsert, Referring, RowsRefer, EveryoneGrouped, HasRow
  <1>3. ASSUME RemoveFromGroupCommit(r) PROVE IInv'
    <2>1. req[r].group # Everyone
      BY <1>0, <1>3 DEF RemoveFromGroupCommit, Held
    <2>2. AllHeld' /\ req' \in [Request -> Handler]
      BY <1>3, EndKeeps DEF RemoveFromGroupCommit, HasRow
    <2> QED
      BY <1>3, <2>1, <2>2 DEF RemoveFromGroupCommit, Referring, RowsRefer, EveryoneGrouped, HasRow
  <1>4. ASSUME DeleteGroupCommit(r) PROVE IInv'
    <2> DEFINE d == req[r].group
    <2>1. d \in Group /\ d # Everyone /\ d \in Member /\ d \notin User
      BY <1>0, <1>4 DEF DeleteGroupCommit, Held, Member
    <2>2. \A s \in Space, m \in Member : spaceRole'[s][m] = IF m = d THEN Nil ELSE spaceRole[s][m]
      BY <1>4, <2>1 DEF DeleteGroupCommit
    <2>3. spaceRole' \in [Space -> [Member -> SpaceRole \cup {Nil}]]
      BY <1>4, <2>1 DEF DeleteGroupCommit
    <2>4. \A s \in Space, m \in Member :
             spaceRole[s][m] # Nil /\ <<s, m>> \notin Space \X {d} => spaceRole'[s][m] # Nil
      BY <2>2
    <2>5. AllHeld' /\ req' \in [Request -> Handler]
      BY <1>4, <2>4, DropKeeps DEF DeleteGroupCommit, HasRow
    <2>6. \A u \in User : HasRow(u)' = HasRow(u)
      BY <1>4 DEF DeleteGroupCommit, HasRow
    <2>7. Referring'
      BY <1>4, <2>1, <2>2, <2>6 DEF DeleteGroupCommit, Referring, RowsRefer
    <2>8. EveryoneGrouped'
      BY <1>4, <2>1, <2>6 DEF DeleteGroupCommit, EveryoneGrouped
    <2> QED
      BY <1>4, <2>3, <2>5, <2>7, <2>8 DEF DeleteGroupCommit
  <1> QED
    BY <1>1, <1>2, <1>3, <1>4

\* Watcher rows, and steps that write nothing.
LEMMA WatcherStepsKeep ==
  ASSUME IInv
  PROVE  /\ \A r \in Request : CleanWatchers(r) \/ WatchInsert(r) \/ Fail(r) => IInv'
         /\ \A u \in User, s \in Space : Edit(u, s) \/ AddPageWatchers(u, s) => IInv'
         /\ UNCHANGED vars => IInv'
  <1> USE IdsAssumption DEF IInv, TypeOK, people, places
  <1>0. \A r \in Request : Held(req[r]) /\ req[r] \in Handler
    BY DEF AllHeld
  <1>1. ASSUME AllHeld', req' \in [Request -> Handler],
               watching' \in SUBSET (User \X Space), jobs' \in SUBSET (User \X Space),
               \A w \in watching' \ watching : HasRow(w[1]) /\ w[2] \in spaces,
               \A w \in jobs' \ jobs : HasRow(w[1]),
               UNCHANGED <<people, places, inGroup, spaceRole>>
        PROVE  IInv'
    BY <1>1 DEF Referring, RowsRefer, EveryoneGrouped, HasRow
  <1>2. ASSUME UNCHANGED req \/ \E r \in Request : End(r), UNCHANGED <<people, places, inGroup, spaceRole>>
        PROVE  AllHeld' /\ req' \in [Request -> Handler]
    BY <1>2, EndKeeps DEF HasRow
  <1>3. ASSUME NEW r \in Request, CleanWatchers(r) PROVE IInv'
    <2> DEFINE h == req[r]
               pc == CASE h.pc = "removeMember" -> "removeMember:commit"
                       [] h.pc = "removeFromGroup" -> "removeFromGroup:commit"
                       [] h.pc = "deleteGroup" -> "deleteGroup:commit"
    <2>1. pc \in {"removeMember:commit", "removeFromGroup:commit", "deleteGroup:commit"}
      BY <1>3 DEF CleanWatchers
    <2>2. req' = [req EXCEPT ![r] = [h EXCEPT !.pc = pc]]
      BY <1>3 DEF CleanWatchers
    <2>3. [h EXCEPT !.pc = pc] \in Handler
      <3>1. h \in Handler
        BY <1>0
      <3> HIDE DEF h, pc
      <3> QED
        BY <2>1, <3>1 DEF Handler
    <2>4. Held([h EXCEPT !.pc = pc])
      BY <1>0, <1>3 DEF CleanWatchers, Held, Handler
    <2> HIDE DEF pc
    <2>5. req' \in [Request -> Handler]
      BY <2>2, <2>3
    <2>6. \A q \in Request : Held(req'[q])
      BY <2>2, <2>4 DEF AllHeld
    <2>7. UNCHANGED <<people, places, inGroup, spaceRole, jobs>> /\ watching' \subseteq watching
      BY <1>3 DEF CleanWatchers
    <2>8. AllHeld'
      BY <2>6, <2>7 DEF AllHeld, Held, HasRow
    <2> QED
      BY <1>1, <2>5, <2>7, <2>8
  <1>4. ASSUME NEW r \in Request, WatchInsert(r) PROVE IInv'
    <2>1. req[r].user \in User /\ HasRow(req[r].user) /\ req[r].space \in Space
      BY <1>0, <1>4 DEF WatchInsert, Held
    <2> QED
      BY <1>1, <1>2, <1>4, <2>1 DEF WatchInsert
  <1>5. ASSUME NEW r \in Request, Fail(r) PROVE IInv'
    BY <1>1, <1>2, <1>5 DEF Fail, ReadOnly
  <1>6. ASSUME NEW u \in User, NEW s \in Space, Edit(u, s) PROVE IInv'
    BY <1>1, <1>2, <1>6 DEF Edit, Enabled
  <1>7. ASSUME NEW u \in User, NEW s \in Space, AddPageWatchers(u, s) PROVE IInv'
    BY <1>1, <1>2, <1>7 DEF AddPageWatchers, Referring
  <1>8. ASSUME UNCHANGED vars PROVE IInv'
    BY <1>1, <1>2, <1>8 DEF vars
  <1> QED
    BY <1>3, <1>4, <1>5, <1>6, <1>7, <1>8
-------------------------------------------------------------------------------
(* The theorems for any order of any steps.                                 *)

\* The founder is the first member, of the default group and the default space.
LEMMA InitHolds == Init => IInv
  <1> SUFFICES ASSUME Init PROVE IInv
    OBVIOUS
  <1> USE FirstAssumption, IdsAssumption DEF Init
  <1>1. TypeOK
    <2>1. account \in [User -> Account]
      BY DEF NoAccount, Account, WorkspaceRole
    <2>2. spaceRole \in [Space -> [Member -> SpaceRole \cup {Nil}]]
      BY DEF SpaceRole
    <2>3. req \in [Request -> Handler]
      BY IdleHeld
    <2>4. invite \in [User -> Invite]
      BY DEF Invite
    <2>5. groups \in SUBSET Group /\ spaces \in SUBSET Space /\ inGroup \in SUBSET (User \X Group)
      OBVIOUS
    <2> QED
      BY <2>1, <2>2, <2>3, <2>4, <2>5 DEF TypeOK
  <1>2. \A u \in User : HasRow(u) <=> u = Founder
    BY DEF HasRow, NoAccount, WorkspaceRole
  <1>3. Referring
    <2>1. \A s \in Space, m \in Member : spaceRole[s][m] # Nil => s = Home /\ m \in {Founder, Everyone}
      OBVIOUS
    <2> QED
      BY <1>2, <2>1 DEF Referring, RowsRefer, Member
  <1>4. EveryoneGrouped
    BY <1>2 DEF EveryoneGrouped
  <1>5. AllHeld
    BY IdleHeld DEF AllHeld
  <1> QED
    BY <1>1, <1>3, <1>4, <1>5 DEF IInv

\* Every step keeps the invariant.
LEMMA StepKeeps == IInv /\ [Next]_vars => IInv'
  <1> SUFFICES ASSUME IInv, [Next]_vars PROVE IInv'
    OBVIOUS
  <1>1. ASSUME NEW r \in Request, NEW a \in User, AcceptStart(r, a) \/ SsoSignup(r, a) PROVE IInv'
    BY <1>1, AccountStartsKeep, AccountWritesKeep
  <1>2. ASSUME NEW r \in Request, NEW a \in User, NEW u \in User, Accounts(r, a, u) PROVE IInv'
    BY <1>2, AccountStartsKeep, AccountWritesKeep DEF Accounts
  <1>3. ASSUME NEW r \in Request, NEW a \in User, NEW s \in Space, SpaceOps(r, a, s) PROVE IInv'
    BY <1>3, PlaceStartsKeep, PlaceWritesKeep DEF SpaceOps
  <1>4. ASSUME NEW r \in Request, NEW a \in User, NEW g \in Group, GroupOps(r, a, g) PROVE IInv'
    BY <1>4, GroupStartsKeep, GroupWritesKeep DEF GroupOps
  <1>5. ASSUME NEW r \in Request, Writes(r) PROVE IInv'
    BY <1>5, FirstAssumption, AccountWritesKeep, PlaceWritesKeep, GroupWritesKeep, WatcherStepsKeep DEF Writes
  <1>6. ASSUME NEW u \in User, NEW s \in Space, Edit(u, s) \/ AddPageWatchers(u, s) PROVE IInv'
    BY <1>6, WatcherStepsKeep
  <1>7. ASSUME UNCHANGED vars PROVE IInv'
    BY <1>7, WatcherStepsKeep
  <1> QED
    BY <1>1, <1>2, <1>3, <1>4, <1>5, <1>6, <1>7 DEF Next

LEMMA Invariance == Spec => []IInv
  BY InitHolds, StepKeeps, PTL DEF Spec

\* Whatever requests overlap and break off, every row and what every handler
\* holds is of the kind that the schema and the code give it.
THEOREM Typing == Spec => []TypeOK
  <1>1. IInv => TypeOK
    BY DEF IInv
  <1> QED
    BY <1>1, Invariance, PTL

\* No deletion of a group or a space, however it overlaps with the inserts,
\* leaves a row of a member, of a group or of a watcher behind that refers to it.
THEOREM AllRowsRefer == Spec => []RowsRefer
  <1>1. IInv => RowsRefer
    BY DEF IInv, Referring
  <1> QED
    BY <1>1, Invariance, PTL

\* No order of requests takes a member that is not deleted out of the default group.
THEOREM AllGrouped == Spec => []EveryoneGrouped
  <1>1. IInv => EveryoneGrouped
    BY DEF IInv
  <1> QED
    BY <1>1, Invariance, PTL
-------------------------------------------------------------------------------
(* One request after the other: what was checked is so when it is written.  *)

OneAtATime == \A r, q \in Request : req[r].pc # "idle" /\ req[q].pc # "idle" => r = q

\* What a handler has made sure of, beyond what it holds.
Checked(h) ==
    /\ h.pc = "changeRole" /\ account[h.user].role = "owner" =>
          \E v \in User \ {h.user} : account[v].role = "owner"
    /\ h.pc \in {"changeRole", "deactivate", "activate", "deleteUser"} /\ account[h.user].role = "owner" =>
          account[h.by].role = "owner"
    /\ h.pc \in {"removeMember", "removeMember:commit", "changeSpaceRole"}
          /\ spaceRole[h.space][h.member] = "admin" => \E m \in Admins(h.space) : m # h.member
    /\ ListedOnly /\ h.pc = "addMember" /\ h.member \in User => ~account[h.member].gone
    /\ ListedOnly /\ h.pc = "addToGroup" => ~account[h.user].gone

Orderly == OneAtATime /\ \A r \in Request : Checked(req[r])

GoneHaveRows == \A u \in User : account[u].gone => HasRow(u)

SInv ==
    /\ IInv /\ Orderly /\ OwnerRowRemains /\ GoneHaveRows
    /\ ListedOnly => DeletedUsersHaveNoAccess

\* When no handler is under way there is nothing to be checked.
LEMMA QuietIsOrderly == Quiet => Orderly
  BY DEF Quiet, Orderly, OneAtATime, Checked

\* A count other than one leaves another owner or another admin.
LEMMA NotTheOnly ==
  ASSUME NEW S, NEW x \in S, Cardinality(S) # 1
  PROVE  \E y \in S : y # x
  <1>1. S = {x} => Cardinality(S) = 1
    BY FS_Singleton
  <1> QED
    BY <1>1

LEMMA StartIsOrderly ==
  ASSUME IInv, Quiet, NEW r \in Request, NEW h, Checked(h), Begin(r, h), ReadOnly
  PROVE  Orderly'
  <1>1. \A q \in Request : req'[q] = IF q = r THEN h ELSE req[q]
    BY DEF IInv, TypeOK, Begin
  <1>2. OneAtATime'
    BY <1>1 DEF Quiet, OneAtATime
  <1>3. UNCHANGED <<account, spaceRole>>
    BY DEF ReadOnly, people
  <1>4. ASSUME NEW q \in Request PROVE Checked(req[q])'
    <2>1. CASE q = r
      BY <1>1, <1>3, <2>1 DEF Checked, Admins
    <2>2. CASE q # r
      BY <1>1, <2>2 DEF Quiet, Checked
    <2> QED
      BY <2>1, <2>2
  <1> QED
    BY <1>2, <1>4 DEF Orderly

LEMMA BeginsAreOrderly ==
  ASSUME Serial, SInv, NEW r \in Request, NEW a \in User
  PROVE  /\ \A u \in User : Accounts(r, a, u) => Orderly'
         /\ \A s \in Space : SpaceOps(r, a, s) => Orderly'
         /\ \A g \in Group : GroupOps(r, a, g) => Orderly'
         /\ AcceptStart(r, a) \/ SsoSignup(r, a) => Orderly'
  <1> USE DEF SInv, Accepts
  <1>a. \A h : Quiet /\ Checked(h) /\ Begin(r, h) /\ ReadOnly => Orderly'
    BY StartIsOrderly
  <1>b. ASSUME Quiet, UNCHANGED req PROVE Orderly'
    BY <1>b DEF Quiet, Orderly, OneAtATime, Checked
  <1>c. ASSUME Quiet, \A q \in Request : req'[q].pc = "idle" PROVE Orderly'
    BY <1>c DEF Quiet, Orderly, OneAtATime, Checked
  <1>1. ASSUME NEW u \in User, Accounts(r, a, u) PROVE Orderly'
    <2>1. ASSUME NEW role \in WorkspaceRole, NEW gs \in SUBSET Group, InviteStart(r, a, u, role, gs)
          PROVE  Orderly'
      BY <1>a, <2>1 DEF InviteStart, Checked, Idle
    <2>2. ASSUME Revoke(r, a, u) PROVE Orderly'
      <3>1. Quiet /\ \A q \in Request : req'[q].pc = "idle"
        BY <2>2 DEF Revoke, Quiet
      <3> QED
        BY <1>c, <3>1
    <2>3. ASSUME NEW h, h.pc \in {"changeRole", "deactivate", "activate", "deleteUser"},
                 h.user = u, h.by = a, Quiet, ReadOnly, Begin(r, h),
                 account[u].role = "owner" => account[a].role = "owner",
                 account[u].role = "owner" /\ h.pc = "changeRole" => RoleCount("owner") # 1
          PROVE  Orderly'
      <3>1. account[u].role = "owner" /\ h.pc = "changeRole" =>
               \E v \in User \ {u} : account[v].role = "owner"
        <4> DEFINE S == {v \in User : account[v].role = "owner"}
        <4>1. ASSUME Cardinality(S) # 1, account[u].role = "owner" PROVE \E v \in S : v # u
          <5>1. u \in S
            BY <4>1
          <5> HIDE DEF S
          <5> QED
            BY <4>1, <5>1, NotTheOnly
        <4> QED
          BY <2>3, <4>1 DEF RoleCount
      <3>2. Checked(h)
        BY <2>3, <3>1 DEF Checked
      <3> QED
        BY <1>a, <2>3, <3>2
    <2>4. ASSUME NEW role \in WorkspaceRole, ChangeRoleStart(r, a, u, role) PROVE Orderly'
      <3> DEFINE h == [Idle EXCEPT !.pc = "changeRole", !.by = a, !.user = u, !.role = role]
      <3>1. h.pc = "changeRole" /\ h.user = u /\ h.by = a
        BY DEF Idle
      <3>2. Begin(r, h) /\ Quiet /\ ReadOnly
        BY <2>4 DEF ChangeRoleStart
      <3>3. /\ account[u].role = "owner" => account[a].role = "owner"
            /\ account[u].role = "owner" => RoleCount("owner") # 1
        BY <2>4 DEF ChangeRoleStart, Manages
      <3> HIDE DEF h
      <3> QED
        BY <2>3, <3>1, <3>2, <3>3
    <2>5. ASSUME DeactivateStart(r, a, u) \/ ActivateStart(r, a, u) \/ DeleteUserStart(r, a, u) PROVE Orderly'
      <3>1. PICK pc \in {"deactivate", "activate", "deleteUser"} :
               Begin(r, [Idle EXCEPT !.pc = pc, !.by = a, !.user = u])
        BY <2>5 DEF DeactivateStart, ActivateStart, DeleteUserStart
      <3> DEFINE h == [Idle EXCEPT !.pc = pc, !.by = a, !.user = u]
      <3>2. h.pc = pc /\ h.user = u /\ h.by = a
        BY DEF Idle
      <3>3. Quiet /\ ReadOnly /\ (account[u].role = "owner" => account[a].role = "owner")
        BY <2>5 DEF DeactivateStart, ActivateStart, DeleteUserStart
      <3>4. account[u].role = "owner" /\ h.pc = "changeRole" => RoleCount("owner") # 1
        BY <3>2
      <3>5. Begin(r, h)
        BY <3>1
      <3> HIDE DEF h
      <3> QED
        BY <2>3, <3>2, <3>3, <3>4, <3>5
    <2> QED
      BY <1>1, <2>1, <2>2, <2>4, <2>5 DEF Accounts
  <1>2. ASSUME NEW s \in Space, SpaceOps(r, a, s) PROVE Orderly'
    <2>1. ASSUME CreateSpace(r, a, s) PROVE Orderly'
      BY <1>b, <2>1 DEF CreateSpace
    <2>2. ASSUME DeleteSpace(r, a, s) PROVE Orderly'
      <3>1. Quiet /\ \A q \in Request : req'[q].pc = "idle"
        BY <2>2 DEF DeleteSpace, EndDropping, Quiet, Idle
      <3> QED
        BY <1>c, <3>1
    <2>3. ASSUME NEW m \in Member, NEW role \in SpaceRole, AddMemberStart(r, a, s, m, role) PROVE Orderly'
      BY <1>a, <2>3 DEF AddMemberStart, Checked, Idle, Offered
    <2>4. ASSUME NEW m \in Member, NEW h, h.pc \in {"removeMember", "changeSpaceRole"},
                 h.space = s, h.member = m, ~LastAdmin(s, m), Quiet, Begin(r, h), ReadOnly
          PROVE  Orderly'
      <3>1. spaceRole[s][m] = "admin" => \E n \in Admins(s) : n # m
        BY <2>4, NotTheOnly DEF LastAdmin, Admins
      <3>2. Checked(h)
        BY <2>4, <3>1 DEF Checked
      <3> QED
        BY <1>a, <2>4, <3>2
    <2>5. ASSUME NEW m \in Member, NEW role \in SpaceRole, SpaceRoleStart(r, a, s, m, role) PROVE Orderly'
      <3> DEFINE h == [Idle EXCEPT !.pc = "changeSpaceRole", !.by = a, !.space = s, !.member = m,
                                   !.row = TRUE, !.role = role]
      <3>1. h.pc = "changeSpaceRole" /\ h.space = s /\ h.member = m
        BY DEF Idle
      <3>2. Begin(r, h) /\ Quiet /\ ReadOnly /\ ~LastAdmin(s, m)
        BY <2>5 DEF SpaceRoleStart
      <3> HIDE DEF h
      <3> QED
        BY <2>4, <3>1, <3>2
    <2>6. ASSUME NEW m \in Member, RemoveMemberStart(r, a, s, m) PROVE Orderly'
      <3> DEFINE h == [Idle EXCEPT !.pc = "removeMember", !.by = a, !.space = s, !.member = m,
                                   !.row = TRUE, !.users = UsersOf(m), !.spaces = {s}]
      <3>1. h.pc = "removeMember" /\ h.space = s /\ h.member = m
        BY DEF Idle
      <3>2. Begin(r, h) /\ Quiet /\ ReadOnly /\ ~LastAdmin(s, m)
        BY <2>6 DEF RemoveMemberStart
      <3> HIDE DEF h
      <3> QED
        BY <2>4, <3>1, <3>2
    <2>7. ASSUME WatchStart(r, a, s) PROVE Orderly'
      BY <1>a, <2>7 DEF WatchStart, Checked, Idle
    <2> QED
      BY <1>2, <2>1, <2>2, <2>3, <2>5, <2>6, <2>7 DEF SpaceOps
  <1>3. ASSUME NEW g \in Group, GroupOps(r, a, g) PROVE Orderly'
    <2>1. ASSUME CreateGroup(r, a, g) PROVE Orderly'
      BY <1>b, <2>1 DEF CreateGroup
    <2>2. ASSUME NEW u \in User, AddToGroupStart(r, a, g, u) PROVE Orderly'
      BY <1>a, <2>2 DEF AddToGroupStart, Checked, Idle, Offered
    <2>3. ASSUME NEW u \in User, RemoveFromGroupStart(r, a, g, u) PROVE Orderly'
      BY <1>a, <2>3 DEF RemoveFromGroupStart, Checked, Idle
    <2>4. ASSUME DeleteGroupStart(r, a, g) PROVE Orderly'
      BY <1>a, <2>4 DEF DeleteGroupStart, Checked, Idle
    <2> QED
      BY <1>3, <2>1, <2>2, <2>3, <2>4 DEF GroupOps
  <1>4. ASSUME AcceptStart(r, a) PROVE Orderly'
    BY <1>a, <1>4 DEF AcceptStart, Checked, Idle
  <1>5. ASSUME SsoSignup(r, a) PROVE Orderly'
    BY <1>b, <1>5 DEF SsoSignup
  <1> QED
    BY <1>1, <1>2, <1>3, <1>4, <1>5

\* A handler that writes is the only one, and ends, or goes on to its commit.
LEMMA WritesAreOrderly ==
  ASSUME SInv, NEW r \in Request, Writes(r)
  PROVE  Orderly'
  <1> USE DEF SInv, IInv, TypeOK
  <1>1. ASSUME req[r].pc # "idle", End(r) \/ \E gone : EndDropping(r, gone) PROVE Orderly'
    <2>1. \A q \in Request : q # r => req[q].pc = "idle"
      BY <1>1 DEF Orderly, OneAtATime
    <2>2. ASSUME End(r) PROVE \A q \in Request : req'[q].pc = "idle"
      BY <2>1, <2>2 DEF End, Idle
    <2>3. ASSUME NEW gone, EndDropping(r, gone) PROVE \A q \in Request : req'[q].pc = "idle"
      <3>1. ASSUME NEW q \in Request, q # r PROVE req'[q].pc = req[q].pc
        <4>1. \A b : [req[q] EXCEPT !.row = b].pc = req[q].pc
          BY DEF Handler
        <4> QED
          BY <2>3, <3>1, <4>1 DEF EndDropping
      <3>2. req'[r].pc = "idle"
        BY <2>3 DEF EndDropping, Idle
      <3> QED
        BY <2>1, <3>1, <3>2
    <2> QED
      BY <1>1, <2>2, <2>3 DEF Orderly, OneAtATime, Checked
  <1>2. ASSUME CleanWatchers(r) PROVE Orderly'
    <2>1. req[r].pc \in {"removeMember", "removeFromGroup", "deleteGroup"} /\ UNCHANGED <<account, spaceRole>>
      BY <1>2 DEF CleanWatchers, people
    <2>2. \A q \in Request : q # r => req[q].pc = "idle"
      BY <2>1 DEF Orderly, OneAtATime
    <2>3. PICK pc \in {"removeMember:commit", "removeFromGroup:commit", "deleteGroup:commit"} :
             /\ req' = [req EXCEPT ![r] = [req[r] EXCEPT !.pc = pc]]
             /\ pc = "removeMember:commit" => req[r].pc = "removeMember"
      BY <1>2 DEF CleanWatchers
    <2>4. /\ \A q \in Request : q # r => req'[q] = req[q]
          /\ req'[r].pc = pc /\ req'[r].space = req[r].space /\ req'[r].member = req[r].member
      BY <2>3 DEF Handler
    <2>5. OneAtATime'
      BY <2>2, <2>4 DEF OneAtATime
    <2>6. Checked(req[r])
      BY DEF Orderly
    <2>7. Checked(req[r])'
      BY <2>1, <2>3, <2>4, <2>6 DEF Checked, Admins
    <2>8. \A q \in Request : q # r => Checked(req[q])'
      BY <2>2, <2>4 DEF Checked
    <2> QED
      BY <2>5, <2>7, <2>8 DEF Orderly
  <1> QED
    BY <1>1, <1>2 DEF Writes, InviteInsert, AcceptWrite, ChangeRoleWrite, SwitchWrite, DeleteUserWrite,
         AddMemberInsert, RemoveMemberCommit, SpaceRoleWrite, AddToGroupInsert, RemoveFromGroupCommit,
         DeleteGroupCommit, WatchInsert, Fail

LEMMA StaysOrderly == Serial /\ SInv /\ [Next]_vars => Orderly'
  <1> SUFFICES ASSUME Serial, SInv, [Next]_vars PROVE Orderly'
    OBVIOUS
  <1>1. ASSUME NEW u \in User, NEW s \in Space, Edit(u, s) \/ AddPageWatchers(u, s) PROVE Orderly'
    <2>1. Quiet /\ UNCHANGED req
      BY <1>1 DEF Edit, AddPageWatchers
    <2> QED
      BY <2>1 DEF Quiet, Orderly, OneAtATime, Checked
  <1>2. ASSUME UNCHANGED vars PROVE Orderly'
    BY <1>2 DEF vars, SInv, Orderly, OneAtATime, Checked, Admins
  <1> QED
    BY <1>1, <1>2, BeginsAreOrderly, WritesAreOrderly DEF Next

-------------------------------------------------------------------------------
(* Which steps write what.                                                  *)

AccountStep(r) ==
    AcceptWrite(r) \/ ChangeRoleWrite(r) \/ SwitchWrite(r) \/ DeleteUserWrite(r) \/ \E u \in User : SsoSignup(r, u)

MemberStep(r) ==
    \/ DeleteUserWrite(r) \/ DeleteGroupCommit(r)
    \/ AddMemberInsert(r) \/ RemoveMemberCommit(r) \/ SpaceRoleWrite(r)
    \/ \E a \in User, s \in Space : CreateSpace(r, a, s) \/ DeleteSpace(r, a, s)

GroupStep(r) ==
    \/ AcceptWrite(r) \/ DeleteUserWrite(r) \/ \E u \in User : SsoSignup(r, u)
    \/ AddToGroupInsert(r) \/ RemoveFromGroupCommit(r) \/ DeleteGroupCommit(r)

LEMMA StepsWrite ==
  ASSUME [Next]_vars
  PROVE  /\ UNCHANGED account \/ \E r \in Request : AccountStep(r)
         /\ UNCHANGED spaceRole \/ \E r \in Request : MemberStep(r)
         /\ UNCHANGED inGroup \/ \E r \in Request : GroupStep(r)
  <1> DEFINE Goal == /\ UNCHANGED account \/ \E r \in Request : AccountStep(r)
                     /\ UNCHANGED spaceRole \/ \E r \in Request : MemberStep(r)
                     /\ UNCHANGED inGroup \/ \E r \in Request : GroupStep(r)
  <1>1. ASSUME NEW r \in Request, NEW a \in User, NEW u \in User, Accounts(r, a, u) PROVE Goal
    BY <1>1 DEF Accounts, InviteStart, Revoke, ChangeRoleStart, DeactivateStart, ActivateStart,
         DeleteUserStart, ReadOnly, people
  <1>2. ASSUME NEW r \in Request, NEW a \in User, NEW s \in Space, SpaceOps(r, a, s) PROVE Goal
    <2>1. ASSUME CreateSpace(r, a, s) \/ DeleteSpace(r, a, s) PROVE Goal
      <3>1. UNCHANGED <<account, inGroup>>
        BY <2>1 DEF CreateSpace, DeleteSpace, people
      <3> QED
        BY <2>1, <3>1 DEF MemberStep
    <2> QED
      BY <1>2, <2>1 DEF SpaceOps, AddMemberStart, SpaceRoleStart, RemoveMemberStart, WatchStart, ReadOnly, people
  <1>3. ASSUME NEW r \in Request, NEW a \in User, NEW g \in Group, GroupOps(r, a, g) PROVE Goal
    BY <1>3 DEF GroupOps, CreateGroup, AddToGroupStart, RemoveFromGroupStart, DeleteGroupStart, ReadOnly, people
  <1>4. ASSUME NEW r \in Request, NEW a \in User, AcceptStart(r, a) \/ SsoSignup(r, a) PROVE Goal
    <2>1. CASE AcceptStart(r, a)
      BY <2>1 DEF AcceptStart, ReadOnly, people
    <2>2. CASE SsoSignup(r, a)
      <3>1. UNCHANGED spaceRole
        BY <2>2 DEF SsoSignup
      <3> QED
        BY <2>2, <3>1 DEF AccountStep, GroupStep
    <2> QED
      BY <1>4, <2>1, <2>2
  <1>5. ASSUME NEW r \in Request, Writes(r) PROVE Goal
    <2>1. CASE InviteInsert(r) \/ CleanWatchers(r) \/ WatchInsert(r) \/ Fail(r)
      BY <2>1 DEF InviteInsert, CleanWatchers, WatchInsert, Fail, ReadOnly, people
    <2>2. CASE AcceptWrite(r) \/ ChangeRoleWrite(r) \/ SwitchWrite(r) \/ DeleteUserWrite(r)
      <3>1. /\ AcceptWrite(r) => UNCHANGED spaceRole
            /\ ChangeRoleWrite(r) \/ SwitchWrite(r) => UNCHANGED <<spaceRole, inGroup>>
        BY DEF AcceptWrite, ChangeRoleWrite, SwitchWrite, OnlyAccount
      <3> QED
        BY <2>2, <3>1 DEF AccountStep, MemberStep, GroupStep
    <2>3. CASE AddMemberInsert(r) \/ RemoveMemberCommit(r) \/ SpaceRoleWrite(r)
      <3>1. UNCHANGED <<account, inGroup>>
        BY <2>3 DEF AddMemberInsert, RemoveMemberCommit, SpaceRoleWrite, people
      <3> QED
        BY <2>3, <3>1 DEF MemberStep
    <2>4. CASE AddToGroupInsert(r) \/ RemoveFromGroupCommit(r) \/ DeleteGroupCommit(r)
      <3>1. /\ UNCHANGED account
            /\ AddToGroupInsert(r) \/ RemoveFromGroupCommit(r) => UNCHANGED spaceRole
        BY <2>4 DEF AddToGroupInsert, RemoveFromGroupCommit, DeleteGroupCommit, people
      <3> QED
        BY <2>4, <3>1 DEF MemberStep, GroupStep
    <2> QED
      BY <1>5, <2>1, <2>2, <2>3, <2>4 DEF Writes
  <1>6. ASSUME NEW u \in User, NEW s \in Space, Edit(u, s) \/ AddPageWatchers(u, s) PROVE Goal
    <2>1. UNCHANGED <<account, inGroup, spaceRole>>
      BY <1>6 DEF Edit, AddPageWatchers, people
    <2> QED
      BY <2>1
  <1>7. ASSUME UNCHANGED vars PROVE Goal
    BY <1>7 DEF vars
  <1> HIDE DEF Goal
  <1>8. Goal
    BY <1>1, <1>2, <1>3, <1>4, <1>5, <1>6, <1>7 DEF Next
  <1> QED
    BY <1>8 DEF Goal

-------------------------------------------------------------------------------
(* Owners, admins and deleted users.                                        *)

\* What the step properties say of one step.
OwnersAlone ==
    \A u \in User : account[u].role = "owner" /\ account'[u] # account[u]
         => \E r \in Request : req[r].user = u /\ account[req[r].by].role = "owner"
AdminRemains ==
    \A s \in spaces \cap spaces' : Admins(s) # {} /\ Admins(s)' = {}
         => \E r \in Request : req[r].pc \in {"deleteUser", "deleteGroup:commit"}

\* An owner's role is written by owners, and not when it is the last.
LEMMA OwnersKept ==
  ASSUME SInv, [Next]_vars
  PROVE  OwnerRowRemains' /\ GoneHaveRows' /\ OwnersAlone
  <1> USE IdsAssumption DEF SInv, IInv, TypeOK
  <1>1. ASSUME UNCHANGED account PROVE OwnerRowRemains' /\ GoneHaveRows' /\ OwnersAlone
    BY <1>1 DEF OwnerRowRemains, GoneHaveRows, OwnersAlone, HasRow
  <1>2. ASSUME NEW u \in User, NEW role \in WorkspaceRole, ~HasRow(u),
               account' = [account EXCEPT ![u].role = role]
        PROVE  OwnerRowRemains' /\ GoneHaveRows' /\ OwnersAlone
    <2>1. account[u].role = Nil /\ account[u] \in Account
      BY <1>2 DEF HasRow
    <2>2. \A w \in User : account'[w] = IF w = u THEN [account[u] EXCEPT !.role = role] ELSE account[w]
      BY <1>2
    <2>3. account'[u].role = role
      BY <2>1, <2>2 DEF Account
    <2>4. OwnerRowRemains'
      BY <2>1, <2>2 DEF OwnerRowRemains, WorkspaceRole
    <2>5. GoneHaveRows'
      BY <2>2, <2>3 DEF GoneHaveRows, HasRow
    <2>6. OwnersAlone
      BY <2>1, <2>2 DEF OwnersAlone, WorkspaceRole
    <2> QED
      BY <2>4, <2>5, <2>6
  <1>3. ASSUME NEW r \in Request, NEW x \in Account, x.role # Nil,
               account' = [account EXCEPT ![req[r].user] = x],
               req[r].pc \in {"changeRole", "deactivate", "activate", "deleteUser"},
               req[r].pc = "changeRole" \/ x.role = account[req[r].user].role
        PROVE  OwnerRowRemains' /\ GoneHaveRows' /\ OwnersAlone
    <2> DEFINE v == req[r].user
    <2>1. v \in User /\ Checked(req[r])
      BY <1>3 DEF AllHeld, Held, Orderly
    <2>2. \A w \in User : account'[w] = IF w = v THEN x ELSE account[w]
      BY <1>3
    <2>3. OwnerRowRemains'
      <3>1. PICK w \in User : account[w].role = "owner"
        BY DEF OwnerRowRemains
      <3>2. CASE w # v
        BY <2>2, <3>1, <3>2 DEF OwnerRowRemains
      <3>3. CASE w = v /\ req[r].pc = "changeRole"
        BY <2>1, <2>2, <3>1, <3>3 DEF Checked, OwnerRowRemains
      <3>4. CASE w = v /\ x.role = account[v].role
        BY <2>2, <3>1, <3>4 DEF OwnerRowRemains
      <3> QED
        BY <1>3, <3>2, <3>3, <3>4
    <2>4. GoneHaveRows'
      BY <1>3, <2>2 DEF GoneHaveRows, HasRow
    <2>5. OwnersAlone
      BY <1>3, <2>1, <2>2 DEF OwnersAlone, Checked
    <2> QED
      BY <2>3, <2>4, <2>5
  <1>4. ASSUME NEW r \in Request, AcceptWrite(r) PROVE OwnerRowRemains' /\ GoneHaveRows' /\ OwnersAlone
    <2>1. req[r].user \in User /\ req[r].role \in WorkspaceRole
      BY <1>4 DEF AcceptWrite, AllHeld, Held
    <2> QED
      BY <1>2, <1>4, <2>1 DEF AcceptWrite
  <1>5. ASSUME NEW r \in Request, NEW u \in User, SsoSignup(r, u)
        PROVE  OwnerRowRemains' /\ GoneHaveRows' /\ OwnersAlone
    BY <1>2, <1>5 DEF SsoSignup, WorkspaceRole
  <1>6. ASSUME NEW r \in Request, ChangeRoleWrite(r)
        PROVE  OwnerRowRemains' /\ GoneHaveRows' /\ OwnersAlone
    <2> DEFINE x == [account[req[r].user] EXCEPT !.role = req[r].role]
    <2>1. account[req[r].user] \in Account /\ req[r].role \in WorkspaceRole
      BY <1>6 DEF ChangeRoleWrite, AllHeld, Held
    <2>2. x \in Account /\ x.role # Nil
      BY <2>1 DEF Account
    <2>3. account' = [account EXCEPT ![req[r].user] = x] /\ req[r].pc = "changeRole"
      BY <1>6 DEF ChangeRoleWrite
    <2> HIDE DEF x
    <2> QED
      BY <1>3, <2>2, <2>3
  <1>7. ASSUME NEW r \in Request, NEW x \in Account, x.role = account[req[r].user].role,
               req[r].pc \in {"deactivate", "activate", "deleteUser"},
               account' = [account EXCEPT ![req[r].user] = x]
        PROVE  OwnerRowRemains' /\ GoneHaveRows' /\ OwnersAlone
    <2>1. x.role # Nil
      BY <1>7 DEF AllHeld, Held, HasRow
    <2> QED
      BY <1>3, <1>7, <2>1
  <1>8. ASSUME NEW r \in Request, SwitchWrite(r) \/ DeleteUserWrite(r)
        PROVE  OwnerRowRemains' /\ GoneHaveRows' /\ OwnersAlone
    <2>1. req[r].pc \in {"deactivate", "activate", "deleteUser"} /\ account[req[r].user] \in Account
      BY <1>8 DEF SwitchWrite, DeleteUserWrite, AllHeld, Held
    <2>2. \/ account' = [account EXCEPT ![req[r].user] = [account[req[r].user] EXCEPT !.off = TRUE]]
          \/ account' = [account EXCEPT ![req[r].user] = [account[req[r].user] EXCEPT !.off = FALSE]]
          \/ account' = [account EXCEPT ![req[r].user] = [account[req[r].user] EXCEPT !.gone = TRUE]]
      BY <1>8 DEF SwitchWrite, DeleteUserWrite
    <2>3. PICK x \in Account : x.role = account[req[r].user].role /\ account' = [account EXCEPT ![req[r].user] = x]
      BY <2>1, <2>2, SwitchedAccount
    <2> QED
      BY <1>7, <2>1, <2>3
  <1>9. ASSUME NEW r \in Request, AccountStep(r) PROVE OwnerRowRemains' /\ GoneHaveRows' /\ OwnersAlone
    BY <1>4, <1>5, <1>6, <1>8, <1>9 DEF AccountStep
  <1> QED
    BY <1>1, <1>9, StepsWrite

\* No step but the deletion of an account or of a group takes the last admin of
\* a space that stays.
LEMMA AdminsKept ==
  ASSUME SInv, [Next]_vars
  PROVE  AdminRemains
  <1> USE IdsAssumption DEF SInv, IInv, TypeOK
  <1>1. ASSUME NEW s \in Space, NEW m \in Member, NEW role \in SpaceRole \cup {Nil},
               spaceRole[s][m] = "admin" => \E n \in Admins(s) : n # m,
               \A y \in Space, n \in Member :
                  spaceRole'[y][n] = IF y = s /\ n = m THEN role ELSE spaceRole[y][n]
        PROVE  AdminRemains
    <2>1. ASSUME NEW y \in Space, Admins(y) # {} PROVE Admins(y)' # {}
      <3>1. PICK n \in Admins(y) : n \in Member /\ spaceRole[y][n] = "admin"
        BY <2>1 DEF Admins
      <3>2. CASE y = s /\ n = m
        <4>1. PICK k \in Admins(s) : k # m
          BY <1>1, <3>1, <3>2
        <4>2. k \in Member /\ spaceRole'[s][k] = "admin"
          BY <1>1, <4>1 DEF Admins
        <4> QED
          BY <3>2, <4>2 DEF Admins
      <3>3. CASE ~(y = s /\ n = m)
        BY <1>1, <3>1, <3>3 DEF Admins
      <3> QED
        BY <3>2, <3>3
    <2> QED
      BY <2>1 DEF AdminRemains
  <1>2. ASSUME UNCHANGED spaceRole PROVE AdminRemains
    BY <1>2 DEF AdminRemains, Admins
  <1>3. ASSUME NEW r \in Request, DeleteUserWrite(r) \/ DeleteGroupCommit(r) PROVE AdminRemains
    BY <1>3 DEF DeleteUserWrite, DeleteGroupCommit, AdminRemains
  <1>4. ASSUME NEW r \in Request, AddMemberInsert(r) PROVE AdminRemains
    <2> DEFINE s == req[r].space
               m == req[r].member
    <2>1. s \in Space /\ m \in Member /\ req[r].role \in SpaceRole
      BY <1>4 DEF AddMemberInsert, AllHeld, Held
    <2>2. spaceRole[s][m] = Nil /\ spaceRole' = [spaceRole EXCEPT ![s][m] = req[r].role]
      BY <1>4 DEF AddMemberInsert, CanInsertMember
    <2>3. spaceRole[s][m] # "admin"
      BY <2>2 DEF SpaceRole
    <2> HIDE DEF s, m
    <2> QED
      BY <1>1, <2>1, <2>2, <2>3
  <1>5. ASSUME NEW r \in Request, SpaceRoleWrite(r) \/ RemoveMemberCommit(r) PROVE AdminRemains
    <2> DEFINE s == req[r].space
               m == req[r].member
    <2>1. s \in Space /\ m \in Member /\ (req[r].pc = "changeSpaceRole" => req[r].role \in SpaceRole)
      BY <1>5 DEF SpaceRoleWrite, RemoveMemberCommit, AllHeld, Held
    <2>2. spaceRole[s][m] = "admin" => \E n \in Admins(s) : n # m
      BY <1>5 DEF SpaceRoleWrite, RemoveMemberCommit, Orderly, Checked
    <2>3. CASE ~req[r].row
      <3>1. \A y \in Space, n \in Member : spaceRole'[y][n] = spaceRole[y][n]
        BY <1>5, <2>3 DEF SpaceRoleWrite, RemoveMemberCommit
      <3>2. \A y \in Space : Admins(y)' = Admins(y)
        BY <3>1 DEF Admins
      <3> QED
        BY <3>2 DEF AdminRemains
    <2>4. CASE req[r].row
      <3>1. PICK role \in SpaceRole \cup {Nil} : \A y \in Space, n \in Member :
               spaceRole'[y][n] = IF y = s /\ n = m THEN role ELSE spaceRole[y][n]
        <4>1. CASE SpaceRoleWrite(r)
          <5>1. spaceRole' = [spaceRole EXCEPT ![s][m] = req[r].role] /\ req[r].role \in SpaceRole
            BY <2>1, <2>4, <4>1 DEF SpaceRoleWrite
          <5> HIDE DEF s, m
          <5> QED
            BY <2>1, <5>1
        <4>2. CASE RemoveMemberCommit(r)
          <5>1. \A y \in Space, n \in Member :
                   spaceRole'[y][n] = IF <<y, n>> \in {<<s, m>>} THEN Nil ELSE spaceRole[y][n]
            BY <2>4, <4>2 DEF RemoveMemberCommit
          <5> HIDE DEF s, m
          <5> QED
            BY <5>1
        <4> QED
          BY <1>5, <4>1, <4>2
      <3> HIDE DEF s, m
      <3> QED
        BY <1>1, <2>1, <2>2, <3>1
    <2> QED
      BY <2>3, <2>4
  <1>6. ASSUME NEW r \in Request, NEW a \in User, NEW s \in Space, CreateSpace(r, a, s) \/ DeleteSpace(r, a, s)
        PROVE  AdminRemains
    <2>1. s \notin spaces \cap spaces'
      BY <1>6 DEF CreateSpace, DeleteSpace
    <2>2. \A y \in Space \ {s} : spaceRole'[y] = spaceRole[y]
      BY <1>6 DEF CreateSpace, DeleteSpace
    <2> QED
      BY <2>1, <2>2 DEF AdminRemains, Admins
  <1>7. ASSUME NEW r \in Request, MemberStep(r) PROVE AdminRemains
    BY <1>3, <1>4, <1>5, <1>6, <1>7 DEF MemberStep
  <1> QED
    BY <1>2, <1>7, StepsWrite

\* What a deleted user has lost comes back by no step.
LEMMA DeletedKept ==
  ASSUME SInv, ListedOnly, [Next]_vars
  PROVE  DeletedUsersHaveNoAccess'
  <1> USE IdsAssumption DEF SInv, IInv, TypeOK
  <1> DEFINE Gone(u) == account[u].gone
  <1>1. \A u \in User : account'[u].gone => Gone(u) \/ \E r \in Request : DeleteUserWrite(r) /\ req[r].user = u
    <2>1. ASSUME NEW r \in Request, AccountStep(r), ~DeleteUserWrite(r), NEW u \in User
          PROVE  account'[u].gone = account[u].gone
      <3>1. \A x \in Account, role \in WorkspaceRole : [x EXCEPT !.role = role].gone = x.gone
        BY DEF Account
      <3>2. \A x \in Account : \A b : [x EXCEPT !.off = b].gone = x.gone
        BY DEF Account
      <3>3. account[u] \in Account
        OBVIOUS
      <3>4. CASE AcceptWrite(r) \/ ChangeRoleWrite(r)
        <4>1. req[r].role \in WorkspaceRole
          BY <3>4 DEF AcceptWrite, ChangeRoleWrite, AllHeld, Held
        <4>2. account' = [account EXCEPT ![req[r].user] = [account[req[r].user] EXCEPT !.role = req[r].role]]
          BY <3>4 DEF AcceptWrite, ChangeRoleWrite
        <4> QED
          BY <3>1, <3>3, <4>1, <4>2
      <3>5. CASE SwitchWrite(r)
        <4>1. account' = [account EXCEPT ![req[r].user] =
                            [account[req[r].user] EXCEPT !.off = (req[r].pc = "deactivate")]]
          BY <3>5 DEF SwitchWrite
        <4> QED
          BY <3>2, <3>3, <4>1
      <3>6. ASSUME NEW v \in User, SsoSignup(r, v) PROVE account'[u].gone = account[u].gone
        <4>1. account' = [account EXCEPT ![v] = [account[v] EXCEPT !.role = "member"]]
          BY <3>6 DEF SsoSignup
        <4> QED
          BY <3>1, <3>3, <4>1 DEF WorkspaceRole
      <3> QED
        BY <2>1, <3>4, <3>5, <3>6 DEF AccountStep
    <2>2. ASSUME NEW r \in Request, DeleteUserWrite(r), NEW u \in User, u # req[r].user
          PROVE  account'[u].gone = account[u].gone
      BY <2>2 DEF DeleteUserWrite
    <2> QED
      BY <2>1, <2>2, StepsWrite
  <1>2. ASSUME NEW r \in Request, DeleteUserWrite(r), NEW u \in User, req[r].user = u
        PROVE  /\ \A g \in Group : <<u, g>> \notin inGroup'
               /\ \A s \in Space : spaceRole'[s][u] = Nil
    BY <1>2 DEF DeleteUserWrite, Member
  <1>3. ASSUME NEW r \in Request, MemberStep(r), NEW u \in User, Gone(u), NEW s \in Space
        PROVE  spaceRole'[s][u] = Nil
    <2>0. spaceRole[s][u] = Nil /\ u \in Member
      BY <1>3 DEF DeletedUsersHaveNoAccess, Member
    <2>1. CASE AddMemberInsert(r)
      <3>1. req[r].space \in Space /\ req[r].member \in Member /\ req[r].member # u
        BY <1>3, <2>1 DEF AddMemberInsert, AllHeld, Held, Orderly, Checked
      <3> QED
        BY <2>0, <2>1, <3>1 DEF AddMemberInsert
    <2>2. CASE SpaceRoleWrite(r)
      <3>1. req[r].space \in Space /\ req[r].member \in Member
            /\ (req[r].row => spaceRole[req[r].space][req[r].member] # Nil)
        BY <2>2 DEF SpaceRoleWrite, AllHeld, Held
      <3> QED
        BY <2>0, <2>2, <3>1 DEF SpaceRoleWrite
    <2>3. CASE RemoveMemberCommit(r)
      BY <2>0, <2>3 DEF RemoveMemberCommit
    <2>4. CASE DeleteUserWrite(r) \/ DeleteGroupCommit(r)
      BY <2>0, <2>4 DEF DeleteUserWrite, DeleteGroupCommit
    <2>5. ASSUME NEW a \in User, NEW y \in Space, CreateSpace(r, a, y) PROVE spaceRole'[s][u] = Nil
      <3>1. a # u
        BY <1>3, <2>5 DEF CreateSpace, Manages, Enabled
      <3> QED
        BY <2>0, <2>5, <3>1 DEF CreateSpace, Member
    <2>6. ASSUME NEW a \in User, NEW y \in Space, DeleteSpace(r, a, y) PROVE spaceRole'[s][u] = Nil
      BY <2>0, <2>6 DEF DeleteSpace
    <2> QED
      BY <1>3, <2>1, <2>2, <2>3, <2>4, <2>5, <2>6 DEF MemberStep
  <1>4. ASSUME NEW r \in Request, GroupStep(r), NEW u \in User, Gone(u), NEW g \in Group
        PROVE  <<u, g>> \notin inGroup'
    <2>0. <<u, g>> \notin inGroup /\ HasRow(u)
      BY <1>4 DEF DeletedUsersHaveNoAccess, GoneHaveRows
    <2>1. CASE AcceptWrite(r)
      BY <2>0, <2>1 DEF AcceptWrite
    <2>2. ASSUME NEW v \in User, SsoSignup(r, v) PROVE <<u, g>> \notin inGroup'
      BY <2>0, <2>2 DEF SsoSignup
    <2>3. CASE AddToGroupInsert(r)
      <3>1. req[r].user # u
        BY <1>4, <2>3 DEF AddToGroupInsert, Orderly, Checked
      <3> QED
        BY <2>0, <2>3, <3>1 DEF AddToGroupInsert
    <2>4. CASE DeleteUserWrite(r) \/ RemoveFromGroupCommit(r) \/ DeleteGroupCommit(r)
      BY <2>0, <2>4 DEF DeleteUserWrite, RemoveFromGroupCommit, DeleteGroupCommit
    <2> QED
      BY <1>4, <2>1, <2>2, <2>3, <2>4 DEF GroupStep
  <1>5. ASSUME NEW u \in User, Gone(u)
        PROVE  /\ \A g \in Group : <<u, g>> \notin inGroup'
               /\ \A s \in Space : spaceRole'[s][u] = Nil
    <2>1. (\A g \in Group : <<u, g>> \notin inGroup) /\ \A s \in Space : spaceRole[s][u] = Nil
      BY <1>5 DEF DeletedUsersHaveNoAccess
    <2> QED
      BY <1>3, <1>4, <1>5, <2>1, StepsWrite
  <1> QED
    BY <1>1, <1>2, <1>5 DEF DeletedUsersHaveNoAccess

-------------------------------------------------------------------------------
(* The theorems for requests that are taken one at a time.                  *)

LEMMA SerialInit == Init => SInv
  <1> SUFFICES ASSUME Init PROVE SInv
    OBVIOUS
  <1>1. Orderly
    <2>1. Quiet
      BY DEF Init, Quiet, Idle
    <2> QED
      BY <2>1, QuietIsOrderly
  <1>2. OwnerRowRemains
    BY FirstAssumption DEF Init, OwnerRowRemains, NoAccount
  <1>3. \A u \in User : ~account[u].gone
    BY DEF Init, NoAccount
  <1> QED
    BY <1>1, <1>2, <1>3, InitHolds DEF SInv, GoneHaveRows, DeletedUsersHaveNoAccess

LEMMA SerialInvariance ==
  ASSUME Serial
  PROVE  Spec => []SInv
  <1>1. SInv /\ [Next]_vars => SInv'
    <2> SUFFICES ASSUME SInv, [Next]_vars PROVE SInv'
      OBVIOUS
    <2>1. IInv'
      BY StepKeeps DEF SInv
    <2>2. Orderly'
      BY StaysOrderly
    <2>3. (ListedOnly => DeletedUsersHaveNoAccess)'
      BY DeletedKept
    <2> QED
      BY <2>1, <2>2, <2>3, OwnersKept DEF SInv
  <1> QED
    BY <1>1, SerialInit, PTL DEF Spec

\* There is always an account with the role owner.
THEOREM OwnerRemains ==
  ASSUME Serial
  PROVE  Spec => []OwnerRowRemains
  <1>1. SInv => OwnerRowRemains
    BY DEF SInv
  <1> QED
    BY <1>1, SerialInvariance, PTL

\* What an owner's account holds is written at the request of an owner only.
THEOREM OwnersAreLeft ==
  ASSUME Serial
  PROVE  Spec => AdminsLeaveOwners
  <1>1. SInv /\ [Next]_vars => OwnersAlone
    BY OwnersKept
  <1> QED
    BY <1>1, SerialInvariance, PTL DEF Spec, AdminsLeaveOwners, OwnersAlone

\* Removing a member of a space, or changing a role in it, leaves it an admin.
THEOREM AdminStays ==
  ASSUME Serial
  PROVE  Spec => LastAdminStays
  <1>1. SInv /\ [Next]_vars => AdminRemains
    BY AdminsKept
  <1> QED
    BY <1>1, SerialInvariance, PTL DEF Spec, LastAdminStays, AdminRemains

\* A deleted user stays out of every group and every space, as long as
\* requests name users that the client lists.
THEOREM DeletedStayOut ==
  ASSUME Serial, ListedOnly
  PROVE  Spec => []DeletedUsersHaveNoAccess
  <1>1. SInv => DeletedUsersHaveNoAccess
    BY DEF SInv
  <1> QED
    BY <1>1, SerialInvariance, PTL
===============================================================================
