---------------------------- MODULE TransferPlan ----------------------------
(***************************************************************************)
(* The loop of OptimizeTransfers as a state machine: m holds its indices,  *)
(* its two lists and the transfers found so far.  balance is the call's    *)
(* argument, one entry per user, in cents.                                 *)
(***************************************************************************)
EXTENDS Transfers

CONSTANTS People, Balances

ASSUME PeopleAssumption   == IsFiniteSet(People)
ASSUME BalancesAssumption == Balances \subseteq [People -> Int]

VARIABLES balance, m
loopVars == << balance, m >>

Entry    == [user : People, amount : Nat]
Transfer == [from : People, to : People, amount : Nat \ {0}]

\* The type invariant: no amount in the lists ever becomes negative, and every
\* transfer moves money.
LoopTypeOK ==
    /\ balance \in Balances
    /\ m \in [i : Nat \ {0}, j : Nat \ {0}, debtors : Seq(Entry),
              creditors : Seq(Entry), transfers : Seq(Transfer)]

FillLists == /\ balance \in Balances
             /\ m \in Starts(balance)

Iterate == /\ More(m)
           /\ m' = Match(m)
           /\ UNCHANGED balance

LoopSpec == FillLists /\ [][Iterate]_loopVars /\ WF_loopVars(Iterate)
-----------------------------------------------------------------------------
Sent(u)     == SumOf([k \in 1..Len(m.transfers) |->
                  IF m.transfers[k].from = u THEN m.transfers[k].amount ELSE 0])
Received(u) == SumOf([k \in 1..Len(m.transfers) |->
                  IF m.transfers[k].to = u THEN m.transfers[k].amount ELSE 0])
Open(list)  == SumOf([k \in 1..Len(list) |-> list[k].amount])
ZeroSum     == SumFunctionOnSet(balance, People) = 0
OneCent     == {u \in People : balance[u] = -1}
Done        == ~More(m)

\* A transfer never makes a debtor pay more than he owes nor a creditor get
\* more than he is due, at any point of the loop, and what is still open in
\* the two lists is exactly what is missing.
NobodyOverpays ==
    /\ \A k \in 1..Len(m.debtors) :
          Sent(m.debtors[k].user) + m.debtors[k].amount
              = -balance[m.debtors[k].user]
    /\ \A k \in 1..Len(m.creditors) :
          Received(m.creditors[k].user) + m.creditors[k].amount
              = balance[m.creditors[k].user]
    /\ \A u \in People : Sent(u) = 0 \/ Received(u) = 0

\* When the balances cancel, the plan settles every debtor it lists and leaves
\* open only the cents of the debtors it does not list.
SettlesAllButCents ==
    Done /\ ZeroSum => /\ Open(m.debtors) = 0
                       /\ Open(m.creditors) = Cardinality(OneCent)

\* Every transfer finishes a debtor or a creditor, and the last one both if
\* it finishes both lists: there are fewer transfers than people in the lists.
FewTransfers ==
    m.transfers # << >> =>
        Len(m.transfers) < Len(m.debtors) + Len(m.creditors)

\* The loop ends: every iteration finishes a debtor or a creditor.
Terminates == <>Done
-----------------------------------------------------------------------------
\* The inductive invariant behind LoopTypeOK and FewTransfers: nobody who is still
\* to be matched is through, and each iteration has finished somebody.
Counted ==
    LET nd == Len(m.debtors)
        nc == Len(m.creditors)
        nt == Len(m.transfers)
    IN  /\ m.i <= nd + 1 /\ m.j <= nc + 1
        /\ \A k \in m.i..nd : m.debtors[k].amount > 0
        /\ \A k \in m.j..nc : m.creditors[k].amount > 0
        /\ nt <= m.i + m.j - 2
        /\ m.i = nd + 1 /\ m.j = nc + 1 /\ nt > 0 => nt < nd + nc

PlanInv == LoopTypeOK /\ Counted
=============================================================================
