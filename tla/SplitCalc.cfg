SPECIFICATION RequestSpec
CONSTANTS
    Sub = 1
    TiesDown <- SomeTies
    MaxTotal = 8
    MaxParticipants = 5
    Ratios = {0, 1, 2, 3}
    Amounts = {0, 1, 4}
INVARIANTS
    CutWithinACent
    ExactIffCovered
    FairCut
    RatioOrder
CHECK_DEADLOCK FALSE
