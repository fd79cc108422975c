SPECIFICATION Spec
CONSTANTS
    Page = {p1, p2, p3}
    User = {u1, u2}
    Group = {g1}
    Nil = Nil
    SpaceRoles <- MCSpaceRoles
    MaxRestricted = 2
SYMMETRY Symmetry
VIEW StateView
INVARIANT TypeOK
INVARIANT ViewsAgree
INVARIANT EditsAgree
INVARIANT SidebarReaches
PROPERTY NobodyRaisesHimself
PROPERTY SetterKeepsEdit
