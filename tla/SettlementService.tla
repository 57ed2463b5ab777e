-------------------------- MODULE SettlementService --------------------------
(***************************************************************************)
(* backend/internal/service/settlement_service.go for one group: Generate  *)
(* and Settle, one action per SQL statement, for a set of concurrent       *)
(* requests.                                                               *)
(*                                                                         *)
(* Both run in a transaction tx, but every read is sent on the             *)
(* repositories' own handle r.db: it sees what is committed at that moment *)
(* and LockByID's lock ends with it.  The DELETE, INSERT and UPDATE are    *)
(* sent on tx: others see them at Commit only, and from then to the commit *)
(* the rows they have touched are locked.                                  *)
(*                                                                         *)
(* The group changes by the actions of GroupLifecycle and the expenses by  *)
(* those of ExpenseLedger, at any time.                                    *)
(***************************************************************************)
EXTENDS Transfers

CONSTANTS
    Users, Owner, Founders,   \* as in GroupLifecycle
    Expenses, Entries, None,  \* as in ExpenseLedger
    Requests,                 \* HTTP requests, each handled by a goroutine
    Origin                    \* the Generate that ran before all of them

ASSUME GroupAssumption  == Owner \in Founders /\ Founders \subseteq Users
ASSUME UsersAssumption  == IsFiniteSet(Users) /\ IsFiniteSet(Expenses)
ASSUME OriginAssumption == Origin \notin Requests

\* What ExpenseService guarantees of an entry: a positive amount, and shares
\* that add up to it or to one cent more, the last of them perhaps negative.
ASSUME EntriesAssumption ==
    \A x \in Entries :
        /\ x.amount \in Nat \ {0} /\ x.payer \in Users
        /\ x.status \in {"active", "refunded"}
        /\ [x EXCEPT !.status = "refunded"] \in Entries
        /\ \A u \in Users : x.shares[u] \in Int \cup {None}
        /\ LET takers == {u \in Users : x.shares[u] # None}
           IN  SumFunctionOnSet(x.shares, takers) - x.amount \in {0, 1}

VARIABLES
    status, member,   \* the group, see GroupLifecycle
    ledger,           \* the expenses with their shares, see ExpenseLedger
    settlements,      \* the committed rows of the settlements table
    pc,               \* the statement a request runs next
    tx,               \* what a request has read and written so far
    reply             \* its response: a code and the rows Settle counted

groupVars == << status, member >>
envVars   == << status, member, ledger >>
vars      == << status, member, ledger, settlements, pc, tx, reply >>

Group  == INSTANCE GroupLifecycle
Ledger == INSTANCE ExpenseLedger
-----------------------------------------------------------------------------
\* The primary key of a row: the Generate that inserted it and its position.
Generations == Requests \cup {Origin}
Ids         == Generations \X (Nat \ {0})
Transfer    == [from : Users, to : Users, amount : Nat \ {0}]
Settlement  == [id : Ids, from : Users, to : Users, amount : Nat \ {0},
                status : {"pending", "settled"}]

\* The rows Generate makes of the transfers, lines 65-74.
Items(g, plan) ==
    {[id |-> << g, k >>, from |-> plan[k].from, to |-> plan[k].to,
      amount |-> plan[k].amount, status |-> "pending"] : k \in 1..Len(plan)}

Stored     == {s.id : s \in settlements}
PendingIds == {s.id : s \in {t \in settlements : t.status = "pending"}}

NoTx == [op |-> "none", caller |-> None, ids |-> {}, todo |-> {},
         members |-> {}, paid |-> None, plan |-> << >>, doomed |-> {},
         batch |-> {}, hit |-> {}]

\* The rows a request has locked until its transaction ends.
LockedBy(q) == CASE pc[q] \in {"insert", "commit"} /\ tx[q].op = "generate" -> tx[q].doomed
                 [] pc[q] = "commit" /\ tx[q].op = "settle"  -> tx[q].hit
                 [] OTHER -> {}

Free(r, ids) == \A q \in Requests \ {r} : LockedBy(q) \cap ids \cap Stored = {}

InFlight(r) == pc[r] \notin {"idle", "done"}

\* expense_share_repository.go, SumPaidByGroup, by user (0 without a row).
SumPaid ==
    [u \in Users |->
        SumFunction([e \in {x \in Expenses : /\ ledger[x] # None
                                             /\ ledger[x].status = "active"
                                             /\ ledger[x].payer = u}
                        |-> ledger[e].amount])]

\* SumOwedByGroup.  Its condition on the share's own status always holds: no
\* code ever marks a share settled.
SumOwed ==
    [u \in Users |->
        SumFunction([e \in {x \in Expenses : /\ ledger[x] # None
                                             /\ ledger[x].status = "active"
                                             /\ ledger[x].shares[u] # None}
                        |-> ledger[e].shares[u]])]
-----------------------------------------------------------------------------
\* The group may already have a plan, made from what the ledger held.
Init == /\ Group!Init /\ Ledger!Init
        /\ \E plan \in {<< >>} \cup
                 Plans([u \in Founders |-> SumPaid[u] - SumOwed[u]]) :
              settlements = Items(Origin, plan)
        /\ pc = [r \in Requests |-> "idle"]
        /\ tx = [r \in Requests |-> NoTx]
        /\ reply = [r \in Requests |-> [code |-> "none", rows |-> {}]]

Goto(r, label) == pc' = [pc EXCEPT ![r] = label] /\ UNCHANGED reply

\* The handler returns; what it has not committed is rolled back.  (Here and
\* below, what a handler does not use any more is reset.)
Answer(r, code, rows) ==
    /\ pc' = [pc EXCEPT ![r] = "done"]
    /\ reply' = [reply EXCEPT ![r] = [code |-> code, rows |-> rows]]
    /\ tx' = [tx EXCEPT ![r] = NoTx]
    /\ UNCHANGED << envVars, settlements >>

\* A client asks for a new plan.  The caller is only recorded in the audit.
ReceiveGenerate(r) ==
    /\ pc[r] = "idle"
    /\ tx' = [tx EXCEPT ![r].op = "generate"]
    /\ Goto(r, "lock")
    /\ UNCHANGED << envVars, settlements >>

\* A client marks rows that it has listed; the DTO wants at least one.
ReceiveSettle(r) ==
    /\ pc[r] = "idle"
    /\ \E caller \in Users, ids \in SUBSET Stored \ {{}} :
          tx' = [tx EXCEPT ![r].op = "settle", ![r].caller = caller,
                           ![r].ids = ids, ![r].todo = ids]
    /\ Goto(r, "find")
    /\ UNCHANGED << envVars, settlements >>

\* LockByID and the check of the status it returns.
LockGroup(r) ==
    /\ pc[r] = "lock"
    /\ \/ status # "active" /\ Answer(r, "conflict", {})
       \/ /\ status = "active" /\ Goto(r, "members")
          /\ UNCHANGED << tx, envVars, settlements >>

\* ListUserIDs: the active members, two at least.
ReadMembers(r) ==
    /\ pc[r] = "members"
    /\ LET members == {u \in Users : member[u] = "active"}
       IN  \/ Cardinality(members) < 2 /\ Answer(r, "tooFew", {})
           \/ /\ Cardinality(members) >= 2
              /\ tx' = [tx EXCEPT ![r].members = members]
              /\ Goto(r, "paid")
              /\ UNCHANGED << envVars, settlements >>

ReadPaid(r) ==
    /\ pc[r] = "paid"
    /\ tx' = [tx EXCEPT ![r].paid = SumPaid]
    /\ Goto(r, "owed")
    /\ UNCHANGED << envVars, settlements >>

\* Mutant: the balance is what is owed less what was paid.
PlanTransfers_Swapped(r) ==
    /\ pc[r] = "owed"
    /\ \E plan \in Plans([u \in tx[r].members |-> SumOwed[u] - tx[r].paid[u]]) :
          tx' = [tx EXCEPT ![r].plan = plan, ![r].members = {}, ![r].paid = None]
    /\ Goto(r, "delete")
    /\ UNCHANGED << envVars, settlements >>

\* SumOwedByGroup, after which balances and transfers are computed.
PlanTransfers(r) ==
    /\ pc[r] = "owed"
    /\ \E plan \in Plans([u \in tx[r].members |-> tx[r].paid[u] - SumOwed[u]]) :
          tx' = [tx EXCEPT ![r].plan = plan, ![r].members = {}, ![r].paid = None]
    /\ Goto(r, "delete")
    /\ UNCHANGED << envVars, settlements >>

\* Mutant: rows that are settled are kept.
DeleteBegins_PendingOnly(r) ==
    /\ pc[r] = "delete"
    /\ tx' = [tx EXCEPT ![r].doomed = PendingIds]
    /\ Goto(r, "deleteRows")
    /\ UNCHANGED << envVars, settlements >>

\* DeleteAllByGroup begins: the DELETE acts on the rows committed now.
DeleteBegins(r) ==
    /\ pc[r] = "delete"
    /\ tx' = [tx EXCEPT ![r].doomed = Stored]
    /\ Goto(r, "deleteRows")
    /\ UNCHANGED << envVars, settlements >>

\* It waits until nobody else holds one of them, then locks and deletes them.
DeleteRows(r) ==
    /\ pc[r] = "deleteRows"
    /\ Free(r, tx[r].doomed)
    /\ Goto(r, "insert")
    /\ UNCHANGED << tx, envVars, settlements >>

\* CreateBatch.
InsertItems(r) ==
    /\ pc[r] = "insert"
    /\ tx' = [tx EXCEPT ![r].batch = Items(r, tx[r].plan), ![r].plan = << >>]
    /\ Goto(r, "commit")
    /\ UNCHANGED << envVars, settlements >>

\* Mutant: the loop does not go on to the next id.
FindItem_KeepsTodo(r) ==
    /\ pc[r] = "find"
    /\ \E id \in tx[r].todo :
          \/ id \notin Stored /\ Answer(r, "notFound", {})
          \/ /\ id \in Stored
             /\ Goto(r, "caller")
             /\ UNCHANGED << tx, envVars, settlements >>

\* Settle: FindByID of the next id.
FindItem(r) ==
    /\ pc[r] = "find"
    /\ \E id \in tx[r].todo :
          \/ id \notin Stored /\ Answer(r, "notFound", {})
          \/ /\ id \in Stored
             /\ tx' = [tx EXCEPT ![r].todo = @ \ {id}]
             /\ Goto(r, "caller")
             /\ UNCHANGED << envVars, settlements >>

\* The caller must be a member of the row's group; then the next id, if any.
CheckCaller(r) ==
    /\ pc[r] = "caller"
    /\ \/ member[tx[r].caller] # "active" /\ Answer(r, "notMember", {})
       \/ /\ member[tx[r].caller] = "active"
          /\ Goto(r, IF tx[r].todo = {} THEN "update" ELSE "find")
          /\ UNCHANGED << tx, envVars, settlements >>

\* Mutant: the rows are updated whatever their status.
UpdateItems_AnyStatus(r) ==
    /\ pc[r] = "update"
    /\ Free(r, tx[r].ids)
    /\ tx' = [tx EXCEPT ![r].hit = tx[r].ids \cap Stored]
    /\ Goto(r, "commit")
    /\ UNCHANGED << envVars, settlements >>

\* Mutant: rows that another transaction is changing are not waited for.
UpdateItems_NoWait(r) ==
    /\ pc[r] = "update"
    /\ tx' = [tx EXCEPT ![r].hit = tx[r].ids \cap PendingIds]
    /\ Goto(r, "commit")
    /\ UNCHANGED << envVars, settlements >>

\* UPDATE ... WHERE id IN ? AND status = 'pending'.  It waits for the rows
\* that others have locked and looks at the status they have then.
UpdateItems(r) ==
    /\ pc[r] = "update"
    /\ Free(r, tx[r].ids \cap PendingIds)
    /\ tx' = [tx EXCEPT ![r].hit = tx[r].ids \cap PendingIds]
    /\ Goto(r, "commit")
    /\ UNCHANGED << envVars, settlements >>

\* The transaction's changes become visible together.
Commit(r) ==
    /\ pc[r] = "commit"
    /\ settlements' =
          IF tx[r].op = "generate"
          THEN {s \in settlements : s.id \notin tx[r].doomed} \cup tx[r].batch
          ELSE {IF s.id \in tx[r].hit THEN [s EXCEPT !.status = "settled"] ELSE s :
                   s \in settlements}
    /\ tx' = [tx EXCEPT ![r] = [NoTx EXCEPT !.op = tx[r].op, !.hit = tx[r].hit]]
    /\ Goto(r, IF tx[r].op = "generate" THEN "list" ELSE "audit")
    /\ UNCHANGED envVars

\* Generate answers with the rows that are there now.
ListItems(r) ==
    /\ pc[r] = "list"
    /\ Goto(r, "audit")
    /\ UNCHANGED << tx, envVars, settlements >>

\* auditSvc.Record only logs its failures; then the handler answers.
Audit(r) ==
    /\ pc[r] = "audit"
    /\ Answer(r, IF tx[r].op = "generate" THEN "generated" ELSE "settled", tx[r].hit)

\* A statement fails, PostgreSQL ends a deadlock, the server stops: what has
\* not been committed is rolled back.
Fail(r) == InFlight(r) /\ Answer(r, "error", {})

GroupStep  == /\ Group!Next
              /\ UNCHANGED << ledger, settlements, pc, tx, reply >>
LedgerStep == /\ Ledger!Next
              /\ UNCHANGED << groupVars, settlements, pc, tx, reply >>

Step(r) == \/ LockGroup(r) \/ ReadMembers(r) \/ ReadPaid(r) \/ PlanTransfers(r)
           \/ DeleteBegins(r) \/ DeleteRows(r) \/ InsertItems(r)
           \/ FindItem(r) \/ CheckCaller(r) \/ UpdateItems(r)
           \/ Commit(r) \/ ListItems(r) \/ Audit(r)

Next == \/ \E r \in Requests :
              ReceiveGenerate(r) \/ ReceiveSettle(r) \/ Step(r) \/ Fail(r)
        \/ GroupStep
        \/ LedgerStep

Spec == Init /\ [][Next]_vars

\* A handler that has begun goes on: its goroutine is scheduled and the
\* database answers.
FairSpec == Spec /\ \A r \in Requests : WF_vars(Step(r))
-----------------------------------------------------------------------------
PcLabels == {"idle", "lock", "members", "paid", "owed", "delete", "deleteRows",
             "insert", "find", "caller", "update", "commit", "list", "audit",
             "done"}

Codes == {"none", "generated", "settled", "conflict", "tooFew", "notFound",
          "notMember", "error"}

TxType == [op : {"none", "generate", "settle"}, caller : Users \cup {None},
           ids : SUBSET Ids, todo : SUBSET Ids, members : SUBSET Users,
           paid : [Users -> Nat] \cup {None}, plan : Seq(Transfer),
           doomed : SUBSET Ids, batch : SUBSET Settlement, hit : SUBSET Ids]

\* The type invariant; an id names at most one row.
TypeOK == /\ Group!LifecycleTypeOK /\ Ledger!LedgerTypeOK
          /\ settlements \subseteq Settlement
          /\ \A s, t \in settlements : s.id = t.id => s = t
          /\ pc \in [Requests -> PcLabels]
          /\ tx \in [Requests -> TxType]
          /\ reply \in [Requests -> [code : Codes, rows : SUBSET Ids]]

\* No transfer is counted as settled by two requests: of two members who mark
\* the same row, one is told that it was not among the affected ones.
SettledOnce ==
    \A r, q \in Requests : r # q => reply[r].rows \cap reply[q].rows = {}

\* When a Settle commits, every row it counts is still there and pending: no
\* other Settle or Generate has changed or deleted it since the UPDATE.
CountIsTrue ==
    [][\A r \in Requests :
          pc[r] = "commit" /\ pc'[r] = "audit" => tx[r].hit \subseteq PendingIds]_vars

\* What u pays and gets by a plan.
Net(plan, u) ==
    SumOf([k \in 1..Len(plan) |-> IF plan[k].to = u THEN plan[k].amount
                                  ELSE IF plan[k].from = u THEN -plan[k].amount
                                  ELSE 0])

\* The net amount of u in the entries that are not refunded.
NetOf(u) ==
    LET entries == {e \in Expenses : ledger[e] # None /\ ledger[e].status # "refunded"}
        part(e) == (IF ledger[e].payer = u THEN ledger[e].amount ELSE 0)
                   - (IF ledger[e].shares[u] = None THEN 0 ELSE ledger[e].shares[u])
    IN  SumFunction([e \in entries |-> part(e)])

\* r computes a plan from one state of the ledger, and nobody but the members it
\* has read has a balance.
PlansForAll(r) ==
    /\ pc[r] = "owed" /\ pc'[r] = "delete"
    /\ tx[r].paid = SumPaid
    /\ \A u \in Users \ tx[r].members : NetOf(u) = 0

\* By a plan nobody pays more than he owes or gets more than he is due, and the
\* creditors get all of it but the cents of those who owe one cent.
PaysCreditors(plan) ==
    LET due == {u \in Users : NetOf(u) > 0}
    IN  /\ \A u \in due : Net(plan, u) \in 0..NetOf(u)
        /\ \A u \in Users \ due : Net(plan, u) \in NetOf(u)..0
        /\ SumFunction([u \in due |-> NetOf(u) - Net(plan, u)])
              <= Cardinality({u \in Users : NetOf(u) = -1})

\* A plan computed from one state of the ledger, when nobody but the members
\* has a balance, pays the creditors.
PlanPaysCreditors ==
    [][\A r \in Requests : PlansForAll(r) => PaysCreditors(tx'[r].plan)]_vars

\* The table implements the abstract book of plans.
BookView ==
    [g \in Generations |->
        LET rows == {s \in settlements : s.id[1] = g}
        IN  [k \in {s.id[2] : s \in rows} |-> CHOOSE s \in rows : s.id[2] = k]]

Book == INSTANCE SettlementBook WITH book <- BookView

\* Whatever requests run at once, whoever lists the table sees whole plans:
\* all rows of a Generate or none, changed only from pending to settled.
BookSpec == Book!Spec

\* Every request that has begun is answered: a statement only waits for rows
\* whose holder waits for nothing.
EveryRequestAnswered ==
    \A r \in Requests : pc[r] # "idle" ~> pc[r] = "done"
-----------------------------------------------------------------------------
\* A claim of the repository that the code does not keep.

\* settlement_service.go:34: Generate clears the old plan: one is left.
OnePlan == \A s, t \in settlements : s.id[1] = t.id[1]
=============================================================================
