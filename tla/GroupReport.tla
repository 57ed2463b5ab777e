---------------------------- MODULE GroupReport ----------------------------
(***************************************************************************)
(* The read side: StatsService.GetGroupStats, SettlementService.Balances   *)
(* and ExpenseService.List and ExportCSV, one action per SQL statement and *)
(* no transaction around them, while the expenses and the members of the   *)
(* group change as ExpenseLedger and GroupLifecycle say.  A client that    *)
(* lists reads page after page.  Amounts are in cents, which PostgreSQL    *)
(* sums exactly; user rows always exist.                                   *)
(***************************************************************************)
EXTENDS Integers, FiniteSets, Functions

CONSTANTS
    Users, Owner, Founders, \* see GroupLifecycle
    Expenses, Entries,      \* see ExpenseLedger: payer, amount, shares, status,
    None,                   \* category and paidAt
    Categories,
    Start,      \* the first moment of the twelve months SumByMonth covers
    PageSize,   \* page_size of a listing client
    ExportSize, \* 10000, the page size of an export
    Requests    \* HTTP requests; a listing client's count as one

ASSUME PageAssumption  == PageSize \in Nat \ {0} /\ ExportSize \in Nat \ {0}
ASSUME TableAssumption ==
    /\ IsFiniteSet(Users) /\ IsFiniteSet(Expenses) /\ IsFiniteSet(Categories)
    /\ Start \in Int
\* What ExpenseService stores; a share may be negative, 0 is no share at all.
ASSUME EntriesAssumption ==
    /\ None \notin Entries
    /\ \A x \in Entries :
          /\ x.payer \in Users /\ x.amount \in Nat /\ x.shares \in [Users -> Int]
          /\ x.category \in Categories /\ x.paidAt \in Int
          /\ x.status \in {"active", "refunded"}
          /\ [x EXCEPT !.status = "refunded"] \in Entries

VARIABLES ledger, member,   \* the tables
          pc, op, caller,   \* the statement a request runs next, and its input
          got,              \* what it has read
          quiet             \* history: the tables are as the request found them

envVars == << ledger, member >>
vars    == << ledger, member, pc, op, caller, got, quiet >>

\* No report looks at the status of the group.
Group  == INSTANCE GroupLifecycle WITH status <- "active"
Ledger == INSTANCE ExpenseLedger

Ops == {"stats", "balances", "list", "export"}

NoReport == [category |-> [c \in Categories |-> 0], recent |-> 0, total |-> 0,
             members |-> {}, paid |-> [u \in Users |-> 0], owed |-> [u \in Users |-> 0],
             page |-> 1, listed |-> 0, rows |-> [e \in Expenses |-> 0]]

Active(rows)   == {e \in Expenses : rows[e] # None /\ rows[e].status = "active"}
Live           == Active(ledger)
AmountOf(es)   == SumFunction([e \in es |-> ledger[e].amount])
ShareOf(u, es) == SumFunction([e \in es |-> ledger[e].shares[u]])

\* Mutant: SumByCategory without the condition on the status.
SumByCategory_AnyStatus ==
    [c \in Categories |->
        AmountOf({e \in Expenses : ledger[e] # None /\ ledger[e].category = c})]

SumByCategory == [c \in Categories |-> AmountOf({e \in Live : ledger[e].category = c})]
SumByMonth    == AmountOf({e \in Live : ledger[e].paidAt >= Start})
TotalByGroup  == AmountOf(Live)
SumPaid       == [u \in Users |-> AmountOf({e \in Live : ledger[e].payer = u})]

\* Mutant: SumOwedByGroup without the condition on the expense's status.
SumOwed_AnyStatus == [u \in Users |-> ShareOf(u, {e \in Expenses : ledger[e] # None})]

SumOwed == [u \in Users |-> ShareOf(u, Live)]

\* The active expenses by paid_at, the latest first; the database orders those
\* of one moment as it likes, at each query anew.
PaidAtOrders ==
    {f \in [1..Cardinality(Live) -> Live] :
        /\ \A i, j \in DOMAIN f : i # j => f[i] # f[j]
        /\ \A i, j \in DOMAIN f : i < j => ledger[f[i]].paidAt >= ledger[f[j]].paidAt}

\* Mutant: the page number counts from zero.
Page_FromZero(order, page, size) ==
    {order[i] : i \in {j \in DOMAIN order : page * size < j /\ j <= (page + 1) * size}}

\* OFFSET (page - 1) * size LIMIT size.
Page(order, page, size) ==
    {order[i] : i \in {j \in DOMAIN order : (page - 1) * size < j /\ j <= page * size}}
-----------------------------------------------------------------------------
Init == /\ Group!Init /\ Ledger!Init
        /\ pc = [r \in Requests |-> "idle"]
        /\ op \in [Requests -> Ops]
        /\ caller \in [Requests -> Users]
        /\ got = [r \in Requests |-> NoReport]
        /\ quiet = [r \in Requests |-> TRUE]

Goto(r, label) == pc' = [pc EXCEPT ![r] = label] /\ UNCHANGED << envVars, op, caller, quiet >>

Answer(r) == Goto(r, "done") /\ got' = [got EXCEPT ![r] = NoReport]

Receive(r) == /\ pc[r] = "idle"
              /\ pc' = [pc EXCEPT ![r] = "exists"]
              /\ quiet' = [quiet EXCEPT ![r] = TRUE]
              /\ UNCHANGED << envVars, op, caller, got >>

FirstRead == [stats |-> "category", balances |-> "members", list |-> "count",
              export |-> "count"]

\* memberRepo.Exists.
CheckMember(r) ==
    /\ pc[r] = "exists"
    /\ \/ member[caller[r]] # "active" /\ Answer(r)
       \/ /\ member[caller[r]] = "active"
          /\ Goto(r, FirstRead[op[r]])
          /\ UNCHANGED got

\* GetGroupStats reads the sums one after the other,
ReadCategories(r) == /\ pc[r] = "category"
                     /\ got' = [got EXCEPT ![r].category = SumByCategory]
                     /\ Goto(r, "month")

ReadMonths(r) == /\ pc[r] = "month"
                 /\ got' = [got EXCEPT ![r].recent = SumByMonth]
                 /\ Goto(r, "total")

ReadTotal(r) == /\ pc[r] = "total"
                /\ got' = [got EXCEPT ![r].total = TotalByGroup]
                /\ Goto(r, "members")

\* and then, as Balances does, the members and what each has paid and owes.
ReadMembers(r) == /\ pc[r] = "members"
                  /\ got' = [got EXCEPT ![r].members = {u \in Users : member[u] = "active"}]
                  /\ Goto(r, "paid")

ReadPaid(r) == /\ pc[r] = "paid"
               /\ got' = [got EXCEPT ![r].paid = SumPaid]
               /\ Goto(r, "owed")

ReadOwed(r) == /\ pc[r] = "owed"
               /\ got' = [got EXCEPT ![r].owed = SumOwed]
               /\ Goto(r, "respond")

\* expenseRepo.List: Count, then Find with the page.
CountRows(r) == /\ pc[r] = "count"
                /\ got' = [got EXCEPT ![r].listed = Cardinality(Live)]
                /\ Goto(r, "find")

\* Mutant: a full last page is taken for one that is followed by another.
FindRows_PageTooMany(r) ==
    /\ pc[r] = "find"
    /\ \E order \in PaidAtOrders :
          LET size == IF op[r] = "export" THEN ExportSize ELSE PageSize
              page == Page(order, got[r].page, size)
          IN  got' = [got EXCEPT ![r].rows =
                         [e \in Expenses |-> got[r].rows[e] + (IF e \in page THEN 1 ELSE 0)]]
    /\ Goto(r, IF op[r] = "list" /\ got[r].page * PageSize <= got[r].listed
               THEN "next" ELSE "respond")

\* Find: one page, in an order of the database's choice; a listing client goes
\* on while it has been told of more rows than it has asked for.
FindRows(r) ==
    /\ pc[r] = "find"
    /\ \E order \in PaidAtOrders :
          LET size == IF op[r] = "export" THEN ExportSize ELSE PageSize
              page == Page(order, got[r].page, size)
          IN  got' = [got EXCEPT ![r].rows =
                         [e \in Expenses |-> got[r].rows[e] + (IF e \in page THEN 1 ELSE 0)]]
    /\ Goto(r, IF op[r] = "list" /\ got[r].page * PageSize < got[r].listed
               THEN "next" ELSE "respond")

\* The listing client, told of more rows than it has, asks for the next page.
NextPage(r) == /\ pc[r] = "next"
               /\ got' = [got EXCEPT ![r].page = @ + 1]
               /\ Goto(r, "exists")

\* The reply; ExportCSV writes its audit log first.
Respond(r) == pc[r] = "respond" /\ Answer(r)

\* A statement fails.
Fail(r) == pc[r] \notin {"idle", "done"} /\ Answer(r)

Step(r) == \/ Receive(r) \/ CheckMember(r)
           \/ ReadCategories(r) \/ ReadMonths(r) \/ ReadTotal(r)
           \/ ReadMembers(r) \/ ReadPaid(r) \/ ReadOwed(r)
           \/ CountRows(r) \/ FindRows(r) \/ NextPage(r)
           \/ Respond(r) \/ Fail(r)

Disturb == quiet' = [r \in Requests |-> FALSE] /\ UNCHANGED << pc, op, caller, got >>

GroupStep  == Group!Next /\ Disturb /\ UNCHANGED ledger
LedgerStep == Ledger!Next /\ Disturb /\ UNCHANGED member

Next == (\E r \in Requests : Step(r)) \/ GroupStep \/ LedgerStep

Spec == Init /\ [][Next]_vars
-----------------------------------------------------------------------------
Labels == {"idle", "exists", "category", "month", "total", "members", "paid", "owed",
           "count", "find", "next", "respond", "done"}

\* What a request may have read.
Readings ==
    [category : [Categories -> Nat], recent : Nat, total : Nat,
     members : SUBSET Users, paid : [Users -> Nat], owed : [Users -> Int],
     page : {1} \cup 1..Cardinality(Expenses), listed : 0..Cardinality(Expenses),
     rows : [Expenses -> 0..Cardinality(Expenses)]]

\* The type invariant.
TypeOK ==
    /\ Ledger!LedgerTypeOK
    /\ member \in [Users -> Group!MemberStatus]
    /\ pc \in [Requests -> Labels]
    /\ op \in [Requests -> Ops] /\ caller \in [Requests -> Users]
    /\ quiet \in [Requests -> BOOLEAN]
    /\ got \in [Requests -> Readings]

SumOver(f, us) == SumFunctionOnSet(f, us)

Reports(r, ops) == pc[r] = "respond" /\ quiet[r] /\ op[r] \in ops

\* The figures of one statistics page agree when nothing is written while they
\* are read: the categories add up to the total, the months to no more than
\* it, and what the members have paid to all but what removed ones have.
StatsAgree ==
    \A r \in Requests : Reports(r, {"stats"}) =>
        LET g == got[r]
        IN  /\ SumOver(g.category, Categories) = g.total
            /\ g.recent <= g.total
            /\ (\A e \in Live : ledger[e].paidAt >= Start) => g.recent = g.total
            /\ SumOver(g.paid, g.members) <= g.total
            /\ (\A e \in Live : ledger[e].payer \in g.members) =>
                  SumOver(g.paid, g.members) = g.total

\* The balances shown cancel out, when nothing is written meanwhile and the
\* expenses are split exactly among people who are still members.
NetsCancel ==
    \A r \in Requests : Reports(r, {"stats", "balances"}) =>
        LET g == got[r]
            exact(e) == SumOver(ledger[e].shares, Users) = ledger[e].amount
            within(e) == \A u \in Users : ledger[e].payer = u \/ ledger[e].shares[u] # 0
                                            => u \in g.members
        IN  (\A e \in Live : exact(e) /\ within(e)) =>
               SumOver(g.paid, g.members) = SumOver(g.owed, g.members)

\* Whoever reads all pages gets every active expense once, when nothing is
\* written meanwhile and no two were paid at one moment; an export does so
\* whatever the moments, as long as its one page is large enough.
ListsAreComplete ==
    \A r \in Requests : Reports(r, {"list", "export"}) =>
        \/ op[r] = "list" /\ \E d, e \in Live : d # e /\ ledger[d].paidAt = ledger[e].paidAt
        \/ op[r] = "export" /\ Cardinality(Live) > ExportSize
        \/ got[r].rows = [e \in Expenses |-> IF e \in Live THEN 1 ELSE 0]
=============================================================================
