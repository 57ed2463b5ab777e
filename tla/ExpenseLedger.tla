---------------------------- MODULE ExpenseLedger ----------------------------
(***************************************************************************)
(* What the expense tables promise to whoever reads them, SettlementService *)
(* and StatsService first: an entry (an expenses row with its               *)
(* expense_shares rows) appears whole and changes whole, its shares are     *)
(* always the split of its own amount, it is never deleted and it keeps its *)
(* payer.  A revision may find the entry refunded: it becomes active again. *)
(***************************************************************************)
CONSTANTS Expenses,   \* expense ids
          Entries,    \* the legal entries, records with a status and a payer
          None        \* no entry yet

VARIABLE ledger

LedgerTypeOK == ledger \in [Expenses -> Entries \cup {None}]

Init == LedgerTypeOK

Add(e) == /\ ledger[e] = None
          /\ \E x \in Entries : /\ x.status = "active"
                                /\ ledger' = [ledger EXCEPT ![e] = x]

Revise(e) == /\ ledger[e] # None
             /\ \E x \in Entries : /\ x.status = "active"
                                   /\ x.payer = ledger[e].payer
                                   /\ ledger' = [ledger EXCEPT ![e] = x]

Refund(e) == /\ ledger[e] # None
             /\ ledger' = [ledger EXCEPT ![e].status = "refunded"]

Next == \E e \in Expenses : Add(e) \/ Revise(e) \/ Refund(e)

Spec == Init /\ [][Next]_ledger
=============================================================================
