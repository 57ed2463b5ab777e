SPECIFICATION Spec
CONSTANTS
    alice = alice
    bob = bob
    dining = dining
    other = other
    Users = {alice, bob}
    Owner = alice
    Founders = {alice, bob}
    Expenses = {e1, e2}
    Entries <- AllEntries
    None = None
    Categories = {dining, other}
    Start = 2
    PageSize = 1
    ExportSize = 1
    Requests = {r1}
INVARIANTS
    TypeOK
    StatsAgree
    NetsCancel
    ListsAreComplete
