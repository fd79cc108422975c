SPECIFICATION MCSpec
CONSTANTS
    User = {founder, u1}
    Group = {everyone, g1}
    Space = {home, s1}
    Request = {r1, r2}
    Founder = founder
    Everyone = everyone
    Home = home
    Nil = Nil
    Kind = {}
    Serial = FALSE
    ListedOnly = FALSE
    AccountKind = {"sso", "changeRole", "deactivate", "deleteUser", "deleteSpace", "addMember", "removeMember", "changeSpaceRole", "watch", "edit"}
    GroupKind = {"sso", "invite", "accept", "revoke", "deleteSpace", "createGroup", "addToGroup", "removeFromGroup", "deleteGroup", "fail"}
    SpaceKind = {"sso", "createSpace", "deleteSpace", "createGroup", "deleteGroup", "fail"}
SYMMETRY Symmetry
INVARIANT TypeOK
INVARIANT OwnerRowRemains
INVARIANT DeletedUsersHaveNoAccess
INVARIANT RowsRefer
INVARIANT EveryoneGrouped
PROPERTY AdminsLeaveOwners
PROPERTY LastAdminStays
CHECK_DEADLOCK FALSE
