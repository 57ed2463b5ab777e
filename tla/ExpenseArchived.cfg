SPECIFICATION Spec
CONSTANTS
    Sub = 1
    TiesDown <- NoTies
    alice = alice
    bob = bob
    carol = carol
    r1 = r1
    r2 = r2
    dinner = dinner
    Users = {alice, bob, carol}
    Owner = alice
    Founders = {alice, bob}
    Requests = {r1}
    Seeded = {dinner}
    Inputs <- AllInputs
    SeedInput <- DinnerSeed
    None = None
PROPERTIES
    NoEntryWhenArchived
