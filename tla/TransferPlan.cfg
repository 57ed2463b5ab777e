SPECIFICATION LoopSpec
CONSTANTS
    Sub = 1
    TiesDown <- NoTies
    alice = alice
    bob = bob
    carol = carol
    dave = dave
    People <- FourPeople
    Balances <- SmallBalances
INVARIANTS
    NobodyOverpays
    SettlesAllButCents
    FewTransfers
PROPERTY
    Terminates
CHECK_DEADLOCK FALSE
