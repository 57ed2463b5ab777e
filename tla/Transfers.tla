------------------------------ MODULE Transfers ------------------------------
(***************************************************************************)
(* OptimizeTransfers of backend/pkg/splitcalc/split.go as operators: the   *)
(* two lists it builds from the balances and one iteration of its loop.    *)
(* Balances are whole cents: the caller rounds them with util.Round2.      *)
(***************************************************************************)
EXTENDS SplitCalc

\* A balance is classified by its rounded amount: round2(-0.01) is 0, so a
\* debtor of one cent is in neither list.
Creditors(balance) == {u \in DOMAIN balance : Round2(balance[u], 1) > 0}

\* Mutant: a debtor is listed whatever he owes.
Debtors_All(balance) == {u \in DOMAIN balance : balance[u] < 1}

Debtors(balance)   == {u \in DOMAIN balance : Round2(balance[u], 1) < 0}

\* sort.Slice by descending amount is not stable: equal amounts may come in
\* any order.
Orders(S, amount) ==
    { [k \in 1..Len(s) |-> [user |-> s[k], amount |-> amount[s[k]]]] :
        s \in {t \in SetToSeqs(S) :
                 \A k \in 1..Len(t)-1 : amount[t[k]] >= amount[t[k+1]]} }

\* The states in which the loop may start on these balances.
Starts(balance) ==
    { [i |-> 1, j |-> 1, debtors |-> d, creditors |-> c, transfers |-> << >>] :
        d \in Orders(Debtors(balance), [u \in DOMAIN balance |-> -balance[u]]),
        c \in Orders(Creditors(balance), balance) }

\* The loop condition (Go's indices start at 0, these at 1).
More(m) == m.i <= Len(m.debtors) /\ m.j <= Len(m.creditors)

Smaller(pay, recv) == IF recv < pay THEN recv ELSE pay

\* Mutant: the debtor pays all he owes, whatever the creditor is due.
Payment_All(m) == Round2(m.debtors[m.i].amount, 1)

\* What the current debtor can pay to the current creditor.
Payment(m) == Round2(Smaller(Round2(m.debtors[m.i].amount, 1),
                             Round2(m.creditors[m.j].amount, 1)), 1)

\* Mutant: a debtor or creditor is through when less than nothing is open.
Match_StrictlyBelow(m) ==
    LET amount == Payment(m)
        owes   == Round2(m.debtors[m.i].amount - amount, 1)
        due    == Round2(m.creditors[m.j].amount - amount, 1)
    IN  [m EXCEPT !.i = IF owes < 0 THEN @ + 1 ELSE @,
                  !.j = IF due < 0 THEN @ + 1 ELSE @,
                  !.debtors[m.i].amount = owes,
                  !.creditors[m.j].amount = due]

\* Mutant: the creditor's due amount is not reduced.
Match_KeepsDue(m) ==
    LET amount == Payment(m)
        owes   == Round2(m.debtors[m.i].amount - amount, 1)
    IN  [i         |-> IF Round2(owes, 1) <= 0 THEN m.i + 1 ELSE m.i,
         j         |-> m.j,
         debtors   |-> [m.debtors EXCEPT ![m.i].amount = owes],
         creditors |-> m.creditors,
         transfers |-> Append(m.transfers, [from   |-> m.debtors[m.i].user,
                                            to     |-> m.creditors[m.j].user,
                                            amount |-> amount])]

\* One iteration: a transfer of the smaller amount, after which the debtor,
\* the creditor or both are through.
Match(m) ==
    LET amount == Payment(m)
        owes   == Round2(m.debtors[m.i].amount - amount, 1)
        due    == Round2(m.creditors[m.j].amount - amount, 1)
    IN  [i         |-> IF Round2(owes, 1) <= 0 THEN m.i + 1 ELSE m.i,
         j         |-> IF Round2(due, 1) <= 0 THEN m.j + 1 ELSE m.j,
         debtors   |-> [m.debtors EXCEPT ![m.i].amount = owes],
         creditors |-> [m.creditors EXCEPT ![m.j].amount = due],
         transfers |-> IF amount > 0
                       THEN Append(m.transfers, [from   |-> m.debtors[m.i].user,
                                                 to     |-> m.creditors[m.j].user,
                                                 amount |-> amount])
                       ELSE m.transfers]

\* The transfers OptimizeTransfers may return for these balances.
Plans(balance) ==
    LET Finish(m) ==
          LET after[k \in Nat] ==
                IF k = 0 THEN m
                ELSE IF More(after[k-1]) THEN Match(after[k-1]) ELSE after[k-1]
          IN  after[Len(m.debtors) + Len(m.creditors)].transfers
    IN  {Finish(m) : m \in Starts(balance)}
=============================================================================
