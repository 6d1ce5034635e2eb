CONSTANTS
    alice = alice
    bob = bob
    t1 = t1
    t2 = t2
    a1 = a1
    Users <- MCUsers
    Accounts <- MCAccounts
    Threads <- MCThreads
    Addresses <- MCAddresses
    Roles <- MCRoles
    Admin = "admin"
    AllowLocal = TRUE
    LdapConfigured = TRUE
    Groups <- MCGroups
    RoleOrder <- MCRoleOrder
    DefaultRole = "none"
    AccessGroups = {}
    Memberships <- MCMemberships
    UserLimit = 1
    AddressLimit = 2
    Window = 1
    SessionLife = 1
    MaxClock = 2
    MaxRequests = 4
SPECIFICATION Spec
SYMMETRY ThreadSymmetry
INVARIANTS
    ThrottleHolds
    SurvivorsRaced
PROPERTIES
    LastAdminKept
CHECK_DEADLOCK FALSE
