SPECIFICATION Spec
CONSTANTS
    Users = {u1, u2, u3}
    NoUser = NoUser
    Accounts = {a1, a2}
    NoAccount = NoAccount
    Invites = {i1, i2}
    NoInvite = NoInvite
    Calls = {c1, c2}
    GivenRoles = {"super_admin", "publisher"}
    AllowPublicAdvertisers = TRUE
INVARIANTS
    TypeOK
    OneSuperAdmin
    WholeUsers
    PublisherByInvite
    InviteFitsUser
PROPERTIES
    UsedOnce
SYMMETRY Alike
