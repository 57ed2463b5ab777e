--------------------------- MODULE MCGroupReport ---------------------------
EXTENDS GroupReport

CONSTANTS alice, bob, dining, other

Entry(payer, amount, a, b, category, paidAt, st) ==
    [payer |-> payer, amount |-> amount, shares |-> [u \in Users |-> IF u = alice THEN a ELSE b],
     category |-> category, paidAt |-> paidAt, status |-> st]

\* An exact split, one a cent short, an old expense of one person.
AllEntries == UNION { { Entry(alice, 4, 2, 2, dining, 2, st),
                        Entry(bob, 3, 1, 1, other, 2, st),
                        Entry(bob, 2, 0, 2, dining, 1, st) } : st \in {"active", "refunded"} }
=============================================================================
