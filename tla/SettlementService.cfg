SPECIFICATION Spec
CONSTANTS
    Sub = 1
    TiesDown <- NoTies
    alice = alice
    bob = bob
    carol = carol
    dinner = dinner
    r1 = r1
    r2 = r2
    Users = {alice, bob, carol}
    Owner = alice
    Founders = {alice, bob, carol}
    Expenses = {dinner}
    Entries <- AllEntries
    None = None
    Requests = {r1, r2}
    Origin = Origin
SYMMETRY AnyOrder
INVARIANTS
    SettledOnce
PROPERTIES
    CountIsTrue
    PlanPaysCreditors
    BookSpec
