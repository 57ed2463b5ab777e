SPECIFICATION FairSpec
CONSTANTS
    Sub = 1
    TiesDown <- NoTies
    alice = alice
    bob = bob
    carol = carol
    dinner = dinner
    r1 = r1
    r2 = r2
    Users = {alice, bob}
    Owner = alice
    Founders = {alice, bob}
    Expenses = {dinner}
    Entries <- PairEntries
    None = None
    Requests = {r1, r2}
    Origin = Origin
PROPERTIES
    EveryRequestAnswered
