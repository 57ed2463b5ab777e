--------------------------- MODULE ExpenseService ---------------------------
(***************************************************************************)
(* backend/internal/service/expense_service.go for one group: the Create,  *)
(* Update and Delete handlers, one action per SQL statement, for a set of  *)
(* concurrent requests.                                                    *)
(*                                                                         *)
(* The statements a handler sends on its transaction tx are seen by others *)
(* at Commit only; those the repositories send on their own handle r.db    *)
(* (FindByID, LockByID, ListUserIDs, Exists) run outside the transaction,  *)
(* so the group row that LockByID locks is unlocked before it returns.     *)
(* The only lock that lasts is the one PostgreSQL keeps on an expenses row *)
(* from its UPDATE to the end of the transaction; it is a function of pc.  *)
(*                                                                         *)
(* The group's status and its members change at any time, by the actions   *)
(* of GroupLifecycle.  An expense is identified by the request that        *)
(* created it, or by a member of Seeded when it was stored earlier.        *)
(***************************************************************************)
EXTENDS SplitCalc

CONSTANTS
    Users, Owner, Founders,   \* as in GroupLifecycle
    Requests,                 \* HTTP requests, each handled by a goroutine
    Seeded,                   \* expenses stored before the first request
    Inputs,                   \* the decoded requests a client may send
    SeedInput,                \* the create request of each seeded expense
    None                      \* no row, no value

Expenses == Requests \cup Seeded

\* The fields of the request DTOs that the handlers act on.
InputType ==
    [op : {"create", "update", "delete"}, caller : Users, payer : Users,
     amount : Int, splitType : SplitTypes, target : Expenses,
     participants : Seq([user : Users, ratio : Int, amount : Int])]

\* What splitcalc makes of a request.
Split(in) == CalculateShares(in.amount, in.splitType, in.participants)

Takes(in, u) == \E i \in 1..Len(in.participants) : in.participants[i].user = u

HasDuplicate(in) ==
    \E i, j \in 1..Len(in.participants) :
        i < j /\ in.participants[i].user = in.participants[j].user

\* The share amount of a participant of an accepted split, None for others.
ShareOf(in, u) ==
    IF Takes(in, u)
    THEN Split(in).amounts[CHOOSE i \in 1..Len(in.participants) :
                              in.participants[i].user = u]
    ELSE None

SplitAmounts(in) == [u \in Users |-> ShareOf(in, u)]

ASSUME GroupAssumption == Owner \in Founders /\ Founders \subseteq Users

ASSUME InputsAssumption ==
    /\ Inputs \subseteq InputType
    /\ Requests \cap Seeded = {}

\* The seeded expenses were created by the code, in the founders' group.
ASSUME SeedAssumption ==
    /\ SeedInput \in [Seeded -> Inputs]
    /\ \A e \in Seeded :
          /\ SeedInput[e].op = "create"
          /\ Split(SeedInput[e]).err = "none" /\ ~HasDuplicate(SeedInput[e])
          /\ SeedInput[e].payer \in Founders
          /\ \A u \in Users : Takes(SeedInput[e], u) => u \in Founders

VARIABLES
    status, member,   \* the group, see GroupLifecycle
    expense,          \* expenses: the committed row of an id, or None
    shares,           \* expense_shares: the committed rows of an expense
    pc,               \* the statement a request runs next
    tx,               \* what a request has read and written so far
    reply             \* the response of a finished request

groupVars == << status, member >>
dbVars    == << expense, shares >>
vars      == << status, member, expense, shares, pc, tx, reply >>

Group == INSTANCE GroupLifecycle
-----------------------------------------------------------------------------
\* Requests with a split that calcShares and splitcalc accept.
Writes == {in \in Inputs : /\ in.op # "delete" /\ Split(in).err = "none"
                           /\ ~HasDuplicate(in)}

\* The rows.  Share rows are kept per expense: the request that inserted them
\* (it determines their primary keys) and the amount of each participant, None
\* for the users without a row.
Row       == [amount : Int, splitType : SplitTypes, payer : Users,
              status : {"active", "refunded"}]
Cents     == {ShareOf(in, u) : in \in Writes, u \in Users} \cup {None}
Amounts   == [Users -> Cents]
ShareRows == [batch : Expenses, amounts : Amounts]

PcLabels == {"idle", "find", "findShares", "lock", "caller", "payer", "calc",
             "insert", "save", "deleteShares", "insertShares", "refund",
             "commit", "audit", "get", "done"}

Replies == {"none", "created", "updated", "refunded", "notFound", "conflict",
            "notMember", "badPayer", "badSplit", "error"}

ASSUME NoneAssumption == None \notin Inputs \cup Row \cup ShareRows \cup Int

TxType == [in   : Inputs \cup {None},
           seen : Row \cup {None},        \* the row FindByID returned
           old  : ShareRows \cup {None},  \* the shares it preloaded
           calc : Amounts,                \* what calcShares returned
           row  : Row \cup {None},        \* the uncommitted row
           new  : Amounts]                \* its share rows, as tx sees them

NoShares == [u \in Users |-> None]

Participants(amounts) == {u \in Users : amounts[u] # None}

\* The rows of a, and those of b for the other users.
Merge(a, b) == [u \in Users |-> IF a[u] # None THEN a[u] ELSE b[u]]

NoTx == [in |-> None, seen |-> None, old |-> None, calc |-> NoShares,
         row |-> None, new |-> NoShares]

\* The expense a request is about: its own for a create.
Target(r) == IF tx[r].in.op = "create" THEN r ELSE tx[r].in.target

\* Statements that have locked the expenses row and not yet ended.
HoldsRow(r) == pc[r] \in {"deleteShares", "insertShares", "commit"}

RowLocked(e) == \E q \in Requests : HoldsRow(q) /\ Target(q) = e

InFlight(r) == pc[r] \notin {"idle", "done"}
-----------------------------------------------------------------------------
\* Mutant: participants are not looked up in the group.
BadParticipants_AnyUser(in) == HasDuplicate(in)

\* calcShares, lines 296-307: each participant once, and a current member.
BadParticipants(in) ==
    \/ HasDuplicate(in)
    \/ \E u \in Users : Takes(in, u) /\ member[u] # "active"

\* The row Create builds from the request.  (Its amount is rounded by
\* util.Round2, which agrees with splitcalc's round2 on positive amounts.)
NewRow(in) == [amount |-> Round2(in.amount, Sub), splitType |-> in.splitType,
               payer |-> in.payer, status |-> "active"]

\* The row tx.Save writes for Update: every column of the row read earlier
\* with the request's fields assigned, but for the payer: Payer was preloaded,
\* and saving that association sets payer_id back to the preloaded user.
SavedRow(seen, in) == [amount |-> Round2(in.amount, Sub),
                       splitType |-> in.splitType,
                       payer |-> seen.payer, status |-> seen.status]

\* tx.Save also upserts the preloaded Shares by primary key.  When an update
\* has replaced them meanwhile they are inserted again, which the unique index
\* on (expense_id, user_id) refuses if a participant is in both.
StaleSharesClash(old, current) ==
    old.batch # current.batch
        /\ Participants(old.amounts) \cap Participants(current.amounts) # {}
-----------------------------------------------------------------------------
Init == /\ Group!Init
        /\ expense = [e \in Expenses |->
                        IF e \in Seeded THEN NewRow(SeedInput[e]) ELSE None]
        /\ shares = [e \in Expenses |->
                        IF e \in Seeded
                        THEN [batch |-> e, amounts |-> SplitAmounts(SeedInput[e])]
                        ELSE None]
        /\ pc = [r \in Requests |-> "idle"]
        /\ tx = [r \in Requests |-> NoTx]
        /\ reply = [r \in Requests |-> "none"]

Goto(r, label) == pc' = [pc EXCEPT ![r] = label] /\ UNCHANGED reply

\* The handler returns; what it has not committed is rolled back.
Answer(r, code) == /\ pc' = [pc EXCEPT ![r] = "done"]
                   /\ reply' = [reply EXCEPT ![r] = code]
                   /\ tx' = [tx EXCEPT ![r] = NoTx]
                   /\ UNCHANGED << groupVars, dbVars >>

\* The handler goes on to its next statement.
Proceed(r, label) == /\ Goto(r, label)
                     /\ UNCHANGED << tx, groupVars, dbVars >>

\* A request arrives and its transaction begins.
Receive(r) ==
    /\ pc[r] = "idle"
    /\ \E in \in Inputs :
          /\ tx' = [tx EXCEPT ![r].in = in]
          /\ Goto(r, IF in.op = "create" THEN "lock" ELSE "find")
    /\ UNCHANGED << groupVars, dbVars >>

\* FindByID, first query: the row as committed now.
FindRow(r) ==
    /\ pc[r] = "find"
    /\ \/ /\ expense[Target(r)] = None
          /\ Answer(r, "notFound")
       \/ /\ expense[Target(r)] # None
          /\ tx' = [tx EXCEPT ![r].seen = expense[Target(r)]]
          /\ Goto(r, "findShares")
          /\ UNCHANGED << groupVars, dbVars >>

\* FindByID, the query of Preload("Shares").
FindShares(r) ==
    /\ pc[r] = "findShares"
    /\ tx' = [tx EXCEPT ![r].old = shares[Target(r)]]
    /\ Goto(r, IF tx[r].in.op = "update" THEN "lock" ELSE "caller")
    /\ UNCHANGED << groupVars, dbVars >>

\* LockByID and the check of the status it returns.
LockGroup(r) ==
    /\ pc[r] = "lock"
    /\ \/ status # "active" /\ Answer(r, "conflict")
       \/ status = "active" /\ Proceed(r, "caller")

\* ensureMember of the caller; Update and Delete then look at the status of
\* the row they have read.
CheckCaller(r) ==
    /\ pc[r] = "caller"
    /\ LET refunded == tx[r].in.op # "create" /\ tx[r].seen.status # "active"
       IN  \/ /\ member[tx[r].in.caller] # "active"
              /\ Answer(r, "notMember")
           \/ /\ member[tx[r].in.caller] = "active" /\ refunded
              /\ Answer(r, "conflict")
           \/ /\ member[tx[r].in.caller] = "active" /\ ~refunded
              /\ Proceed(r, IF tx[r].in.op = "delete" THEN "refund" ELSE "payer")

\* ensureMember of the payer.
CheckPayer(r) ==
    /\ pc[r] = "payer"
    /\ \/ member[tx[r].in.payer] # "active" /\ Answer(r, "badPayer")
       \/ member[tx[r].in.payer] = "active" /\ Proceed(r, "calc")

\* calcShares: the members as committed now, then splitcalc.
CalcShares(r) ==
    /\ pc[r] = "calc"
    /\ LET in == tx[r].in
           bad == BadParticipants(in) \/ Split(in).err # "none"
       IN  \/ bad /\ Answer(r, "badSplit")
           \/ /\ ~bad
              /\ tx' = [tx EXCEPT ![r].calc = SplitAmounts(in)]
              /\ Goto(r, IF in.op = "create" THEN "insert" ELSE "save")
              /\ UNCHANGED << groupVars, dbVars >>

\* Create: INSERT INTO expenses.
InsertExpense(r) ==
    /\ pc[r] = "insert"
    /\ tx' = [tx EXCEPT ![r].row = NewRow(tx[r].in)]
    /\ Goto(r, "insertShares")
    /\ UNCHANGED << groupVars, dbVars >>

\* Mutant: the row is saved on the repository's own handle, outside tx.
Save_OutsideTx(r) ==
    /\ pc[r] = "save"
    /\ ~RowLocked(Target(r))
    /\ tx' = [tx EXCEPT ![r].row = SavedRow(tx[r].seen, tx[r].in)]
    /\ expense' = [expense EXCEPT ![Target(r)] = tx'[r].row]
    /\ Goto(r, "deleteShares")
    /\ UNCHANGED << shares, groupVars >>

\* Mutant: the unique index on (expense_id, user_id) is missing.
Save_NoUniqueIndex(r) ==
    /\ pc[r] = "save"
    /\ ~RowLocked(Target(r))
    /\ tx' = [tx EXCEPT ![r].row = SavedRow(tx[r].seen, tx[r].in)]
    /\ Goto(r, "deleteShares")
    /\ UNCHANGED << groupVars, dbVars >>

\* Update: tx.Save, the UPDATE of the row, which waits for the row's lock,
\* and the upsert of the share rows read earlier, which adds those that have
\* been deleted meanwhile.
Save(r) ==
    /\ pc[r] = "save"
    /\ ~RowLocked(Target(r))
    /\ \/ /\ StaleSharesClash(tx[r].old, shares[Target(r)])
          /\ Answer(r, "error")
       \/ /\ ~StaleSharesClash(tx[r].old, shares[Target(r)])
          /\ tx' = [tx EXCEPT
                ![r].row = SavedRow(tx[r].seen, tx[r].in),
                ![r].new = Merge(shares[Target(r)].amounts, tx[r].old.amounts)]
          /\ Goto(r, "deleteShares")
          /\ UNCHANGED << groupVars, dbVars >>

\* Mutant: the old share rows are kept.
DeleteShares_Skipped(r) ==
    /\ pc[r] = "deleteShares"
    /\ Proceed(r, "insertShares")

\* Update: DELETE FROM expense_shares, every row of the expense.
DeleteShares(r) ==
    /\ pc[r] = "deleteShares"
    /\ tx' = [tx EXCEPT ![r].new = NoShares]
    /\ Goto(r, "insertShares")
    /\ UNCHANGED << groupVars, dbVars >>

\* Mutant: the transaction is never committed.
InsertShares_NoCommit(r) ==
    /\ pc[r] = "insertShares"
    /\ tx' = [tx EXCEPT ![r].new = Merge(tx[r].calc, @)]
    /\ Goto(r, "audit")
    /\ UNCHANGED << groupVars, dbVars >>

\* Create and Update: INSERT INTO expense_shares, one batch.
InsertShares(r) ==
    /\ pc[r] = "insertShares"
    /\ tx' = [tx EXCEPT ![r].new = Merge(tx[r].calc, @)]
    /\ Goto(r, "commit")
    /\ UNCHANGED << groupVars, dbVars >>

\* Delete: UPDATE expenses SET status = 'refunded' WHERE id = ?, whatever the
\* row's status is by now.
RefundExpense(r) ==
    /\ pc[r] = "refund"
    /\ ~RowLocked(Target(r))
    /\ tx' = [tx EXCEPT ![r].row =
                [expense[Target(r)] EXCEPT !.status = "refunded"]]
    /\ Goto(r, "commit")
    /\ UNCHANGED << groupVars, dbVars >>

\* The writes become visible together.
Commit(r) ==
    /\ pc[r] = "commit"
    /\ expense' = [expense EXCEPT ![Target(r)] = tx[r].row]
    /\ shares' = [shares EXCEPT ![Target(r)] =
                    IF tx[r].in.op = "delete" THEN @
                    ELSE [batch |-> r, amounts |-> tx[r].new]]
    /\ Goto(r, "audit")
    /\ UNCHANGED << tx, groupVars >>

\* auditSvc.Record only logs its failures; then Update and Delete answer.
Audit(r) ==
    /\ pc[r] = "audit"
    /\ \/ tx[r].in.op = "create" /\ Proceed(r, "get")
       \/ tx[r].in.op = "update" /\ Answer(r, "updated")
       \/ tx[r].in.op = "delete" /\ Answer(r, "refunded")

\* Create: s.Get after the commit fails when the caller has been removed.
GetCreated(r) ==
    /\ pc[r] = "get"
    /\ \/ member[tx[r].in.caller] = "active" /\ Answer(r, "created")
       \/ member[tx[r].in.caller] # "active" /\ Answer(r, "notMember")

\* A statement fails, the connection breaks or the server stops: the database
\* rolls back what has not been committed.  After the commit nothing is undone.
Fail(r) == InFlight(r) /\ Answer(r, "error")

GroupStep == /\ Group!Next
             /\ UNCHANGED << dbVars, pc, tx, reply >>

Step(r) == \/ FindRow(r) \/ FindShares(r) \/ LockGroup(r)
           \/ CheckCaller(r) \/ CheckPayer(r) \/ CalcShares(r)
           \/ InsertExpense(r) \/ Save(r) \/ DeleteShares(r)
           \/ InsertShares(r) \/ RefundExpense(r)
           \/ Commit(r) \/ Audit(r) \/ GetCreated(r)

Next == \/ \E r \in Requests : Receive(r) \/ Step(r) \/ Fail(r)
        \/ GroupStep

Spec == Init /\ [][Next]_vars
-----------------------------------------------------------------------------
\* The type invariant: rows, labels and what a request holds are well formed.
TypeOK == /\ Group!LifecycleTypeOK
          /\ expense \in [Expenses -> Row \cup {None}]
          /\ shares \in [Expenses -> ShareRows \cup {None}]
          /\ pc \in [Requests -> PcLabels]
          /\ tx \in [Requests -> TxType]
          /\ reply \in [Requests -> Replies]

Stored(e) == expense[e] # None

\* A row and share amounts are what one and the same request asked for.
SplitOf(row, amounts) ==
    \E in \in Writes : /\ row.amount = Round2(in.amount, Sub)
                       /\ row.splitType = in.splitType
                       /\ amounts = SplitAmounts(in)

\* The committed shares of an expense are always the split of its committed
\* amount by its committed split type: no interleaving of two updates, of an
\* update and a refund, no failure half-way and no stale upsert leaves the row
\* of one request with the shares of another (Create and Update are transactions).
SharesMatchExpense ==
    \A e \in Expenses :
        Stored(e) => shares[e] # None /\ SplitOf(expense[e], shares[e].amounts)

\* Whoever paid or owes a share of an expense has (or had) a membership row,
\* although the checks of the members are not in one snapshot with the writes.
PartiesAreMembers ==
    \A e \in Expenses :
        Stored(e) => /\ member[expense[e].payer] # "none"
                     /\ \A u \in Participants(shares[e].amounts) :
                            member[u] # "none"

Active     == {e \in Expenses : Stored(e) /\ expense[e].status = "active"}

\* expense_share_repository.go, SumPaidByGroup and SumOwedByGroup.  Its filter
\* on the share's own status lets every row through: nothing settles a share,
\* MarkSettledByExpenses has no caller.
SumPaid(u) == SumFunction([e \in {x \in Active : expense[x].payer = u} |->
                              expense[e].amount])

\* Mutant: the join does not filter on the status of the expense.
SumOwed_AnyStatus(u) ==
    SumFunction([e \in {x \in Expenses : Stored(x) /\ shares[x].amounts[u] # None} |->
                    shares[e].amounts[u]])

SumOwed(u) == SumFunction([e \in {x \in Active : shares[x].amounts[u] # None} |->
                              shares[e].amounts[u]])

\* In every committed state the net balances of all users cancel, up to the
\* cent per expense that splitcalc may add (see CutWithinACent in MCSplitCalc).
BalancesCancel ==
    SumFunction([u \in Users |-> SumOwed(u) - SumPaid(u)]) \in 0..Cardinality(Active)

\* A client that is told its expense has been created can rely on it: the
\* answer follows the commit, and nothing deletes an expense.
CreatedIsStored == \A r \in Requests : reply[r] = "created" => Stored(r)

\* Of two updates that read the same shares, the second to commit fails if
\* they share a participant: an update commits over shares it has not read
\* only when it has no participant in common with them.
NoStaleOverlap ==
    [][\A r \in Requests :
          InFlight(r) /\ tx[r].in.op = "update" /\ Commit(r) =>
             ~StaleSharesClash(tx[r].old, shares[Target(r)])]_vars

\* The expense tables implement the abstract ledger.
LedgerEntries ==
    {[amount |-> Round2(in.amount, Sub), splitType |-> in.splitType,
      payer |-> p, status |-> s, shares |-> SplitAmounts(in)] :
        in \in Writes, p \in Users, s \in {"active", "refunded"}}

ASSUME NoEntryAssumption == None \notin LedgerEntries

LedgerView ==
    [e \in Expenses |->
        IF ~Stored(e) THEN None
        ELSE [amount |-> expense[e].amount, splitType |-> expense[e].splitType,
              payer |-> expense[e].payer, status |-> expense[e].status,
              shares |-> shares[e].amounts]]

Ledger == INSTANCE ExpenseLedger WITH ledger <- LedgerView,
                                      Entries <- LedgerEntries

\* Whatever requests run at once, a reader of the tables sees the abstract
\* ledger of ExpenseLedger: entries appear, change and are refunded whole.
LedgerSpec == Ledger!Spec

-----------------------------------------------------------------------------
\* The inductive invariant.

Statements(op) ==
    CASE op = "create" -> {"lock", "caller", "payer", "calc", "insert",
                           "insertShares", "commit", "audit", "get"}
      [] op = "update" -> {"find", "findShares", "lock", "caller", "payer",
                           "calc", "save", "deleteShares", "insertShares",
                           "commit", "audit"}
      [] op = "delete" -> {"find", "findShares", "caller", "refund", "commit",
                           "audit"}

\* A request in flight runs a statement of its operation.
Phase(r) == IF InFlight(r)
            THEN tx[r].in \in Inputs /\ pc[r] \in Statements(tx[r].in.op)
            ELSE tx[r] = NoTx

\* A create has stored its expense when it has committed.  An update or delete
\* that has found its expense knows that it is stored and who the payer is.
Found(r) ==
    /\ pc[r] = "idle" => ~Stored(r)
    /\ InFlight(r) /\ tx[r].in.op = "create" =>
          (Stored(r) <=> pc[r] \in {"audit", "get"})
    /\ InFlight(r) /\ tx[r].in.op # "create" /\ pc[r] # "find" =>
          /\ Stored(Target(r)) /\ tx[r].seen # None
          /\ tx[r].seen.payer = expense[Target(r)].payer
          /\ pc[r] # "findShares" => tx[r].old # None
    /\ InFlight(r) /\ tx[r].in.op = "update"
          /\ pc[r] \notin {"find", "findShares", "lock", "caller"} =>
          tx[r].seen.status = "active"

\* What calcShares has returned and whom it has checked.
Calculated(r) ==
    /\ tx[r].in \in Writes /\ tx[r].calc = SplitAmounts(tx[r].in)
    /\ \A u \in Users : Takes(tx[r].in, u) => member[u] # "none"

\* What a request has prepared for its commit.
Prepared(r) ==
    /\ tx[r].in # None /\ tx[r].in.op = "create"
          /\ pc[r] \in {"calc", "insert", "insertShares", "commit"} =>
          member[tx[r].in.payer] # "none"
    /\ pc[r] \in {"insert", "save", "deleteShares", "insertShares"} => Calculated(r)
    /\ pc[r] = "commit" /\ tx[r].in.op # "delete" =>
          Calculated(r) /\ tx[r].new = tx[r].calc
    /\ pc[r] \notin {"deleteShares", "commit", "audit", "get"} =>
          tx[r].new = NoShares
    /\ HoldsRow(r) /\ tx[r].in.op = "create" => tx[r].row = NewRow(tx[r].in)
    /\ HoldsRow(r) /\ tx[r].in.op = "update" =>
          /\ tx[r].row = SavedRow(tx[r].seen, tx[r].in)
          /\ ~StaleSharesClash(tx[r].old, shares[Target(r)])
    /\ HoldsRow(r) /\ tx[r].in.op = "delete" =>
          tx[r].row = [expense[Target(r)] EXCEPT !.status = "refunded"]

\* A row is locked by one request at a time.
OneWriter ==
    \A r, q \in Requests :
        HoldsRow(r) /\ HoldsRow(q) /\ Target(r) = Target(q) => r = q

\* All of it together is inductive, and implies the invariants above: what is
\* about to be committed is whole, and nobody else writes the same row.
IInv == /\ TypeOK
        /\ \A r \in Requests : Phase(r) /\ Found(r) /\ Prepared(r)
        /\ OneWriter
        /\ SharesMatchExpense /\ PartiesAreMembers /\ CreatedIsStored
-----------------------------------------------------------------------------
\* A claim of the repository that the code does not keep.

\* README.md:299: in an archived group no expense is recorded.
NoEntryWhenArchived ==
    [][\A e \in Expenses :
          ~Stored(e) /\ expense'[e] # None => status = "active"]_vars
=============================================================================
