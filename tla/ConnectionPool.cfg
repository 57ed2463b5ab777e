SPECIFICATION FairSpec
CONSTANTS
    Sizes = {2, 3}
    Requests = {r1, r2}
    Rows = {g}
CHECK_DEADLOCK FALSE
INVARIANTS
    LockersNeedNoConnection
    StuckOnlyByCircle
PROPERTIES
    EveryRequestAnswered
