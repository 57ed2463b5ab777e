--------------------------- MODULE MCTransferPlan ---------------------------
EXTENDS TransferPlan

CONSTANTS alice, bob, carol, dave

NoTies(n, d) == FALSE

FourPeople == {alice, bob, carol, dave}

\* Every balance of up to three cents, also those that do not cancel (the
\* balance of a removed member is not passed on).
SmallBalances == [FourPeople -> -3..3]
=============================================================================
