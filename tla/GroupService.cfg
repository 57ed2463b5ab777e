SPECIFICATION Spec
CONSTANTS
    alice = alice
    bob = bob
    trip = trip
    Users = {alice, bob, carol}
    Requests = {r1, r2}
    Seeded = {trip}
    SeedOwner <- AlicesTrip
    SeedMembers <- BothMembers
    None = None
SYMMETRY AnyOrder
CHECK_DEADLOCK FALSE
INVARIANTS
    CreatorIsMember
    RemovedStaysOut
PROPERTIES
    LifecycleSpec
