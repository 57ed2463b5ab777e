------------------------ MODULE MCSettlementService ------------------------
EXTENDS SettlementService

CONSTANTS alice, bob, carol, dinner, r1, r2

NoTies(n, d) == FALSE

\* An expense of the payer split equally among some users.
Equal(payer, amount, us, st) ==
    LET split == CalculateShares(amount, "equal",
                   [i \in 1..Len(us) |-> [user |-> us[i], ratio |-> 0, amount |-> 0]])
    IN  [payer |-> payer, amount |-> amount, status |-> st,
         shares |-> [u \in Users |->
            IF \E i \in 1..Len(us) : us[i] = u
            THEN split.amounts[CHOOSE i \in 1..Len(us) : us[i] = u] ELSE None]]

Statuses == {"active", "refunded"}

\* A dinner that leaves two debts, and one that leaves a debt and one cent that
\* is too small for a transfer.
AllEntries ==
    UNION { { Equal(alice, 6, << alice, bob, carol >>, st),
              Equal(carol, 4, << carol, alice, bob >>, st) } :
            st \in {"active", "refunded"} }

\* One expense for two members.
PairEntries == { Equal(alice, 6, << alice, bob >>, st) : st \in {"active", "refunded"} }

AnyOrder == Permutations(Requests)
=============================================================================
