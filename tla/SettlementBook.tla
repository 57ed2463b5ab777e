--------------------------- MODULE SettlementBook ---------------------------
(***************************************************************************)
(* What the settlements table promises to whoever lists it: a plan is a    *)
(* whole, its rows appear together and disappear together, and in between  *)
(* they only go from pending to settled.                                   *)
(***************************************************************************)
EXTENDS Naturals, FiniteSets

CONSTANT Generations  \* the runs of Generate, each with a plan of its own

VARIABLE book         \* the rows of each plan by position

NoPlan == [k \in {} |-> 0]

\* Numbered without gaps, nothing settled yet.
Fresh(plan) == /\ DOMAIN plan = 1..Cardinality(DOMAIN plan)
               /\ \A k \in DOMAIN plan : plan[k].status = "pending"

Init == /\ \A g \in Generations : Fresh(book[g])
        /\ \A g, h \in Generations :
              book[g] # NoPlan /\ book[h] # NoPlan => g = h

\* A new plan replaces some of the others, in one step.
Publish(g) == /\ book[g] = NoPlan
              /\ Fresh(book'[g])
              /\ \A h \in Generations \ {g} : book'[h] \in {book[h], NoPlan}

\* Some rows are settled; no row changes otherwise.
Settle == \A g \in Generations :
            /\ DOMAIN book'[g] = DOMAIN book[g]
            /\ \A k \in DOMAIN book[g] :
                 book'[g][k] \in {book[g][k], [book[g][k] EXCEPT !.status = "settled"]}

Next == Settle \/ \E g \in Generations : Publish(g)

Spec == Init /\ [][Next]_book
=============================================================================
