SPECIFICATION Spec
CONSTANTS
    admin = admin
    alice = alice
    p1 = p1
    p2 = p2
    root = root
    Names = {admin, alice}
    Emails = {e1}
    Passwords = {p1, p2}
    Requests = {r1, r2, r3}
    Seeded = {root}
    SeedRow <- SeedRows
    TTL = 1
    MaxTime = 2
    None = None
SYMMETRY AnyOrder
CHECK_DEADLOCK FALSE
INVARIANTS
    UniqueAccounts
PROPERTIES
    AdminWithinTTL
    GrantedByAdmin
    OnlyByChange
    PasswordAnswer
