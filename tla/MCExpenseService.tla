-------------------------- MODULE MCExpenseService --------------------------
EXTENDS ExpenseService

CONSTANTS alice, bob, carol, r1, r2, dinner

NoTies(n, d) == FALSE

With(us, ratio) == [i \in 1..Len(us) |->
                      [user |-> us[i], ratio |-> ratio[i], amount |-> 0]]

Request(op, caller, payer, amount, splitType, target, participants) ==
    [op |-> op, caller |-> caller, payer |-> payer, amount |-> amount,
     splitType |-> splitType, target |-> target, participants |-> participants]

Create(payer, us) == Request("create", bob, payer, 5, "equal", dinner,
                             With(us, << 0, 0, 0 >>))
\* One cent by the ratios 1 : 1 : 0 is split into two cents.
CreateByRatio     == Request("create", alice, alice, 1, "ratio", dinner,
                             With(<< alice, bob, carol >>, << 1, 1, 0 >>))
Update(payer, amount, us) == Request("update", alice, payer, amount, "equal",
                                     dinner, With(us, << 0, 0 >>))
Delete            == Request("delete", bob, bob, 1, "equal", dinner, << >>)

Dinner    == Create(bob, << alice, bob >>)
DinnerSeed == [e \in {dinner} |-> Dinner]

\* Creates with every outcome, two updates with overlapping and two with
\* disjoint participants, a refund.
AllInputs ==
    { Dinner, Create(carol, << carol, carol >>), CreateByRatio,
      Update(bob, 4, << alice, bob >>), Update(alice, 3, << alice >>),
      Update(bob, 7, << carol >>), Delete }

UpdateInputs ==
    { Dinner, Update(bob, 4, << alice, bob >>), Update(alice, 3, << carol >>), Delete }
=============================================================================
