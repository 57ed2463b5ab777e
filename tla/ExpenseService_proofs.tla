----------------------- MODULE ExpenseService_proofs -----------------------
(***************************************************************************)
(* Theorems about ExpenseService, for every set of users, requests and     *)
(* inputs that meets the assumptions.                                      *)
(***************************************************************************)
EXTENDS ExpenseService, Transfers_proofs, TLAPS

\* round2 returns a whole number of cents.
LEMMA Round2Type ==
    ASSUME NEW n \in Int, NEW d \in Nat \ {0}
    PROVE  Round2(n, d) \in Int
<1>1. Trunc(2 * n + d, 2 * d) \in Int
  <2>1. 2 * n + d \in Int /\ 2 * d \in Nat \ {0} /\ -(2 * n + d) \in Int
    OBVIOUS
  <2>2. \A a \in Int, b \in Nat \ {0} : a \div b \in Int
    OBVIOUS
  <2> QED  BY <2>1, <2>2 DEF Trunc
<1>2. \A k \in Int : TowardZero(k) \in Int
  BY DEF TowardZero
<1> QED  BY <1>1, <1>2 DEF Round2

\* The rows that the handlers build are rows.
LEMMA RowTypes ==
    ASSUME NEW in \in Inputs
    PROVE  /\ NewRow(in) \in Row
           /\ \A seen \in Row : SavedRow(seen, in) \in Row
<1>1. Round2(in.amount, Sub) \in Int
  BY Round2Type, InputsAssumption, SubAssumption DEF InputType
<1> QED  BY <1>1, InputsAssumption DEF NewRow, SavedRow, Row, InputType

\* The shares of an accepted split are share amounts, of its participants.
LEMMA SplitTypesOK ==
    ASSUME NEW in \in Writes
    PROVE  /\ SplitAmounts(in) \in Amounts
           /\ \A u \in Users : SplitAmounts(in)[u] # None => Takes(in, u)
<1>1. \A u \in Users : ShareOf(in, u) \in Cents
  BY DEF Cents
<1>2. \A u \in Users : ~Takes(in, u) => ShareOf(in, u) = None
  BY Zenon DEF ShareOf
<1> QED  BY <1>1, <1>2 DEF SplitAmounts, Amounts

LEMMA NoSharesType == NoShares \in Amounts /\ NoTx \in TxType
BY DEF NoShares, NoTx, Amounts, Cents, TxType

\* Merging share rows.
LEMMA MergeType ==
    ASSUME NEW a \in Amounts, NEW b \in Amounts
    PROVE  /\ Merge(a, b) \in Amounts
           /\ b = NoShares => Merge(a, b) = a
BY DEF Merge, Amounts, NoShares
-----------------------------------------------------------------------------
\* The initial states, with the seeded expenses, satisfy the invariant.
LEMMA InitIInv == Init => IInv
<1> SUFFICES ASSUME Init PROVE IInv
  OBVIOUS
<1> USE DEF Init
<1>1. \A r \in Requests : pc[r] = "idle" /\ tx[r] = NoTx /\ reply[r] = "none"
  OBVIOUS
<1>2. \A e \in Expenses : ~Stored(e) <=> e \notin Seeded
  BY NoneAssumption, RowTypes, SeedAssumption DEF Stored
<1>3. \A e \in Seeded :
        /\ SeedInput[e] \in Writes
        /\ expense[e] = NewRow(SeedInput[e]) /\ expense[e] \in Row
        /\ shares[e] \in ShareRows
        /\ shares[e].amounts = SplitAmounts(SeedInput[e])
  BY RowTypes, SplitTypesOK, SeedAssumption DEF Expenses, Writes, ShareRows
<1>4. \A u \in Founders : member[u] = "active"
  BY GroupAssumption DEF Group!Init
<1>5. TypeOK
  <2>1. Group!LifecycleTypeOK
    BY DEF Group!Init, Group!LifecycleTypeOK, Group!GroupStatus,
           Group!MemberStatus
  <2>2. expense \in [Expenses -> Row \cup {None}]
    BY <1>3
  <2>3. shares \in [Expenses -> ShareRows \cup {None}]
    BY <1>3
  <2> QED
    BY <2>1, <2>2, <2>3, NoSharesType DEF TypeOK, PcLabels, Replies
<1> HIDE DEF Init
<1>6. \A r \in Requests : Phase(r) /\ Found(r) /\ Prepared(r)
  BY <1>1, <1>2, InputsAssumption
     DEF Phase, Found, Prepared, InFlight, HoldsRow, NoTx, Expenses
<1>7. OneWriter
  BY <1>1 DEF OneWriter, HoldsRow
<1>8. SharesMatchExpense
  <2> SUFFICES ASSUME NEW e \in Seeded
               PROVE  shares[e] # None /\ SplitOf(expense[e], shares[e].amounts)
    BY <1>2 DEF SharesMatchExpense
  <2> DEFINE in == SeedInput[e]
  <2>1. in \in Writes /\ expense[e] = NewRow(in) /\ shares[e] \in ShareRows
           /\ shares[e].amounts = SplitAmounts(in)
    BY <1>3
  <2> HIDE DEF in
  <2>2. SplitOf(expense[e], shares[e].amounts)
    BY <2>1 DEF SplitOf, NewRow
  <2> QED
    BY <2>1, <2>2, NoneAssumption
<1>9. PartiesAreMembers
  <2> SUFFICES ASSUME NEW e \in Seeded
               PROVE  /\ member[expense[e].payer] # "none"
                      /\ \A u \in Participants(shares[e].amounts) :
                            member[u] # "none"
    BY <1>2 DEF PartiesAreMembers
  <2> DEFINE in == SeedInput[e]
  <2>1. /\ in \in Writes /\ expense[e] = NewRow(in)
        /\ shares[e].amounts = SplitAmounts(in)
        /\ in.payer \in Founders
        /\ \A u \in Users : Takes(in, u) => u \in Founders
    BY <1>3, SeedAssumption
  <2> HIDE DEF in
  <2>2. expense[e].payer \in Founders
    BY <2>1 DEF NewRow
  <2>3. \A u \in Participants(shares[e].amounts) : u \in Founders
    BY <2>1, SplitTypesOK DEF Participants
  <2> QED
    BY <2>2, <2>3, <1>4
<1>10. CreatedIsStored
  BY <1>1 DEF CreatedIsStored
<1> QED
  BY <1>5, <1>6, <1>7, <1>8, <1>9, <1>10 DEF IInv
-----------------------------------------------------------------------------
\* What a request knows stays true while it and the database do not move.
LEMMA FrameRequest ==
    ASSUME NEW q \in Requests, pc'[q] = pc[q], tx'[q] = tx[q],
           UNCHANGED << expense, shares, member >>,
           Phase(q), Found(q), Prepared(q)
    PROVE  (Phase(q) /\ Found(q) /\ Prepared(q))'
BY DEF Phase, Found, Prepared, Calculated, InFlight, HoldsRow, Stored, Target

\* A statement of r that only touches r's own state keeps the invariant if it
\* does so for r, and does not lock a row that another request has locked.
LEMMA LocalStep ==
    ASSUME NEW r \in Requests, IInv, UNCHANGED << groupVars, dbVars >>,
           NEW label \in PcLabels, pc' = [pc EXCEPT ![r] = label],
           NEW t \in TxType, tx' = [tx EXCEPT ![r] = t],
           NEW code \in Replies, reply' = [reply EXCEPT ![r] = code],
           code = "created" => Stored(r),
           (Phase(r) /\ Found(r) /\ Prepared(r))',
           HoldsRow(r)' => \A q \in Requests \ {r} :
                              HoldsRow(q) => Target(q) # Target(r)'
    PROVE  IInv'
<1> USE DEF IInv, groupVars, dbVars
<1>1. TypeOK'
  BY DEF TypeOK, Group!LifecycleTypeOK
<1>2. \A q \in Requests \ {r} : pc'[q] = pc[q] /\ tx'[q] = tx[q]
  BY DEF TypeOK
<1>3. \A q \in Requests : (Phase(q) /\ Found(q) /\ Prepared(q))'
  BY <1>2, FrameRequest
<1>4. OneWriter'
  BY <1>2 DEF OneWriter, HoldsRow, Target
<1>5. SharesMatchExpense' /\ PartiesAreMembers'
  BY DEF SharesMatchExpense, PartiesAreMembers, Stored
<1>6. CreatedIsStored'
  BY DEF CreatedIsStored, Stored, TypeOK
<1> QED
  BY <1>1, <1>3, <1>4, <1>5, <1>6

\* Returning keeps the invariant: the transaction is rolled back.
LEMMA AnswerStep ==
    ASSUME NEW r \in Requests, IInv, NEW code \in Replies, Answer(r, code),
           code = "created" => Stored(r)
    PROVE  IInv'
<1> USE DEF Answer
<1>1. pc'[r] = "done" /\ tx'[r] = NoTx
  BY DEF IInv, TypeOK
<1>2. (Phase(r) /\ Found(r) /\ Prepared(r))'
  BY <1>1, InputsAssumption
     DEF Phase, Found, Prepared, InFlight, HoldsRow, NoTx
<1>3. ~HoldsRow(r)'
  BY <1>1 DEF HoldsRow
<1> QED
  BY <1>2, <1>3, LocalStep, NoSharesType DEF PcLabels

\* The same for a statement after which the handler goes on.
LEMMA GotoStep ==
    ASSUME NEW r \in Requests, IInv, UNCHANGED << groupVars, dbVars >>,
           NEW label \in PcLabels, Goto(r, label),
           NEW t \in TxType, tx' = [tx EXCEPT ![r] = t],
           (Phase(r) /\ Found(r) /\ Prepared(r))',
           HoldsRow(r)' => \A q \in Requests \ {r} :
                              HoldsRow(q) => Target(q) # Target(r)'
    PROVE  IInv'
<1>1. pc' = [pc EXCEPT ![r] = label]
  BY DEF Goto
<1>2. reply[r] \in Replies /\ reply' = [reply EXCEPT ![r] = reply[r]]
  BY DEF Goto, IInv, TypeOK
<1>3. reply[r] = "created" => Stored(r)
  BY DEF IInv, CreatedIsStored
<1> QED
  BY <1>1, <1>2, <1>3, LocalStep

\* A request that arrives starts with its first statement.
LEMMA ReceiveStep ==
    ASSUME NEW r \in Requests, IInv, Receive(r)
    PROVE  IInv'
<1>1. PICK in \in Inputs :
        /\ tx' = [tx EXCEPT ![r].in = in]
        /\ Goto(r, IF in.op = "create" THEN "lock" ELSE "find")
  BY DEF Receive
<1> DEFINE label == IF in.op = "create" THEN "lock" ELSE "find"
           t     == [NoTx EXCEPT !.in = in]
<1>2. pc[r] = "idle" /\ tx[r] = NoTx /\ ~Stored(r)
        /\ UNCHANGED << groupVars, dbVars >>
  BY DEF Receive, IInv, Phase, Found, InFlight
<1>3. /\ label \in PcLabels
      /\ t \in TxType /\ tx' = [tx EXCEPT ![r] = t]
  BY <1>1, <1>2, NoSharesType DEF PcLabels, TxType, NoTx
<1>4. /\ pc'[r] = label /\ tx'[r].in = in /\ label \in {"lock", "find"}
      /\ tx'[r].new = NoShares
  BY <1>1, <1>3 DEF Goto, IInv, TypeOK, NoTx
<1>5. in.op \in {"create", "update", "delete"} /\ in # None
  BY InputsAssumption, NoneAssumption DEF InputType
<1>6. (Phase(r) /\ Found(r) /\ Prepared(r))'
  BY <1>2, <1>4, <1>5 DEF Phase, Found, Prepared, InFlight, Statements,
                          HoldsRow, Stored, dbVars, Goto
<1>7. ~HoldsRow(r)'
  BY <1>4 DEF HoldsRow
<1> QED
  BY <1>1, <1>2, <1>3, <1>6, <1>7, GotoStep

\* A request in flight is one of the three operations on an expense.
LEMMA InFlightFacts ==
    ASSUME NEW r \in Requests, IInv, InFlight(r)
    PROVE  /\ tx[r] \in TxType /\ tx[r].in \in Inputs /\ tx[r].in # None
           /\ tx[r].in.op \in {"create", "update", "delete"}
           /\ pc[r] \in Statements(tx[r].in.op)
           /\ Target(r) \in Expenses
           /\ tx[r].in.payer \in Users
           /\ Phase(r) /\ Found(r) /\ Prepared(r)
<1>1. tx[r] \in TxType /\ Phase(r) /\ Found(r) /\ Prepared(r)
  BY DEF IInv, TypeOK
<1>2. tx[r].in \in Inputs /\ pc[r] \in Statements(tx[r].in.op)
  BY <1>1 DEF Phase
<1>3. tx[r].in \in InputType /\ tx[r].in # None
  BY <1>2, InputsAssumption, NoneAssumption
<1> QED
  BY <1>1, <1>2, <1>3 DEF Target, Expenses, InputType

\* FindByID finds nothing, or a stored row and its payer.
LEMMA FindRowStep ==
    ASSUME NEW r \in Requests, IInv, FindRow(r)
    PROVE  IInv'
<1>1. CASE Answer(r, "notFound")
  BY <1>1, AnswerStep DEF Replies
<1>2. CASE ~Answer(r, "notFound")
  <2> DEFINE t == [tx[r] EXCEPT !.seen = expense[Target(r)]]
  <2>1. /\ pc[r] = "find" /\ Phase(r) /\ Prepared(r) /\ tx[r].in \in Inputs
        /\ tx[r].in.op \in {"update", "delete"} /\ tx[r].in # None
    BY InputsAssumption, NoneAssumption
       DEF FindRow, IInv, Phase, InFlight, Statements, InputType
  <2>2. /\ expense[Target(r)] # None
        /\ tx' = [tx EXCEPT ![r].seen = expense[Target(r)]]
        /\ Goto(r, "findShares") /\ UNCHANGED << groupVars, dbVars >>
    BY <1>2 DEF FindRow
  <2>3. Target(r) \in Expenses /\ expense[Target(r)] \in Row
    BY <2>1, <2>2, InputsAssumption DEF Target, Expenses, InputType, IInv, TypeOK
  <2>4. t \in TxType /\ tx' = [tx EXCEPT ![r] = t]
    BY <2>2, <2>3 DEF IInv, TypeOK, TxType
  <2>5. pc'[r] = "findShares" /\ tx'[r] = t /\ t.in = tx[r].in
          /\ t.seen = expense[Target(r)] /\ t.new = tx[r].new
    BY <2>2, <2>4 DEF Goto, IInv, TypeOK, TxType
  <2>6. Target(r)' = Target(r) /\ Stored(Target(r))'
    BY <2>2, <2>5 DEF Target, Stored, dbVars
  <2> HIDE DEF t
  <2>7. (Phase(r) /\ Found(r) /\ Prepared(r))'
    BY <2>1, <2>2, <2>5, <2>6
       DEF Phase, Found, Prepared, InFlight, Statements, HoldsRow, dbVars
  <2> QED
    BY <2>2, <2>4, <2>5, <2>7, GotoStep DEF HoldsRow, PcLabels
<1> QED
  BY <1>1, <1>2

\* The shares that FindByID preloads.
LEMMA FindSharesStep ==
    ASSUME NEW r \in Requests, IInv, FindShares(r)
    PROVE  IInv'
<1> DEFINE label == IF tx[r].in.op = "update" THEN "lock" ELSE "caller"
           t     == [tx[r] EXCEPT !.old = shares[Target(r)]]
<1>1. /\ pc[r] = "findShares" /\ Goto(r, label)
      /\ tx' = [tx EXCEPT ![r] = t] /\ UNCHANGED << groupVars, dbVars >>
  BY DEF FindShares, IInv, TypeOK
<1>2. InFlight(r)
  BY <1>1 DEF InFlight
<1>3. t \in TxType
  BY <1>2, InFlightFacts DEF TxType, IInv, TypeOK
<1>4. pc'[r] = label /\ tx'[r] = t /\ t.in = tx[r].in /\ t.seen = tx[r].seen
        /\ t.new = tx[r].new /\ t.old = shares[Target(r)]
  BY <1>1, <1>2, InFlightFacts DEF Goto, IInv, TypeOK, TxType
<1>5. Target(r)' = Target(r) /\ label \in {"lock", "caller"}
  BY <1>4 DEF Target
<1>6. \/ tx[r].in.op = "update" /\ label = "lock"
      \/ tx[r].in.op = "delete" /\ label = "caller"
  BY <1>1, <1>2, InFlightFacts DEF Statements
<1>7. shares[Target(r)] # None
  BY <1>1, <1>2, <1>6, InFlightFacts DEF Found, IInv, SharesMatchExpense
<1> HIDE DEF t, label
<1>8. (Phase(r) /\ Found(r) /\ Prepared(r))'
  BY <1>1, <1>2, <1>4, <1>5, <1>6, <1>7, InFlightFacts
     DEF Phase, Found, Prepared, InFlight, Statements, HoldsRow, Stored, dbVars
<1> QED
  BY <1>1, <1>3, <1>4, <1>5, <1>8, GotoStep DEF HoldsRow, PcLabels

\* A check that passes changes nothing but the label.
LEMMA ProceedStep ==
    ASSUME NEW r \in Requests, IInv, NEW label \in PcLabels, Proceed(r, label),
           (Phase(r) /\ Found(r) /\ Prepared(r))', ~HoldsRow(r)'
    PROVE  IInv'
<1>1. tx[r] \in TxType /\ tx' = [tx EXCEPT ![r] = tx[r]]
  BY DEF Proceed, IInv, TypeOK
<1> QED
  BY <1>1, GotoStep DEF Proceed

\* The lock of the group row, released at once, changes nothing.
LEMMA LockGroupStep ==
    ASSUME NEW r \in Requests, IInv, LockGroup(r)
    PROVE  IInv'
<1>1. CASE Answer(r, "conflict")
  BY <1>1, AnswerStep DEF Replies
<1>2. CASE Proceed(r, "caller")
  <2>1. pc[r] = "lock" /\ InFlight(r) /\ pc'[r] = "caller" /\ tx' = tx
          /\ UNCHANGED << groupVars, dbVars >>
    BY <1>2 DEF LockGroup, InFlight, Proceed, Goto, IInv, TypeOK
  <2>2. (Phase(r) /\ Found(r) /\ Prepared(r))'
    BY <2>1, InFlightFacts
       DEF Phase, Found, Prepared, InFlight, Statements, HoldsRow, Stored,
           Target, dbVars
  <2> QED
    BY <1>2, <2>1, <2>2, ProceedStep DEF HoldsRow, PcLabels
<1> QED
  BY <1>1, <1>2 DEF LockGroup

\* From here an update or delete knows that the row it read was active.
LEMMA CheckCallerStep ==
    ASSUME NEW r \in Requests, IInv, CheckCaller(r)
    PROVE  IInv'
<1> DEFINE label == IF tx[r].in.op = "delete" THEN "refund" ELSE "payer"
<1>1. CASE Answer(r, "notMember") \/ Answer(r, "conflict")
  BY <1>1, AnswerStep DEF Replies
<1>2. CASE /\ Proceed(r, label)
           /\ ~(tx[r].in.op # "create" /\ tx[r].seen.status # "active")
  <2>1. pc[r] = "caller" /\ InFlight(r) /\ pc'[r] = label /\ tx' = tx
          /\ UNCHANGED << groupVars, dbVars >>
    BY <1>2 DEF CheckCaller, InFlight, Proceed, Goto, IInv, TypeOK
  <2>2. (Phase(r) /\ Found(r) /\ Prepared(r))'
    BY <1>2, <2>1, InFlightFacts
       DEF Phase, Found, Prepared, InFlight, Statements, HoldsRow, Stored,
           Target, dbVars
  <2> QED
    BY <1>2, <2>1, <2>2, ProceedStep DEF HoldsRow, PcLabels
<1> QED
  BY <1>1, <1>2 DEF CheckCaller

\* From here a create knows that the payer has a membership row.
LEMMA CheckPayerStep ==
    ASSUME NEW r \in Requests, IInv, CheckPayer(r)
    PROVE  IInv'
<1>1. CASE Answer(r, "badPayer")
  BY <1>1, AnswerStep DEF Replies
<1>2. CASE Proceed(r, "calc") /\ member[tx[r].in.payer] = "active"
  <2>1. pc[r] = "payer" /\ InFlight(r) /\ pc'[r] = "calc" /\ tx' = tx
          /\ UNCHANGED << groupVars, dbVars >>
    BY <1>2 DEF CheckPayer, InFlight, Proceed, Goto, IInv, TypeOK
  <2>2. (Phase(r) /\ Found(r) /\ Prepared(r))'
    BY <1>2, <2>1, InFlightFacts
       DEF Phase, Found, Prepared, InFlight, Statements, HoldsRow, Stored,
           Target, dbVars, groupVars
  <2> QED
    BY <1>2, <2>1, <2>2, ProceedStep DEF HoldsRow, PcLabels
<1> QED
  BY <1>1, <1>2 DEF CheckPayer

\* calcShares returns the split, for participants that have membership rows.
LEMMA CalcSharesStep ==
    ASSUME NEW r \in Requests, IInv, CalcShares(r)
    PROVE  IInv'
<1> DEFINE in    == tx[r].in
           label == IF in.op = "create" THEN "insert" ELSE "save"
           t     == [tx[r] EXCEPT !.calc = SplitAmounts(in)]
<1>1. CASE Answer(r, "badSplit")
  BY <1>1, AnswerStep DEF Replies
<1>2. CASE ~Answer(r, "badSplit")
  <2>1. /\ pc[r] = "calc" /\ Goto(r, label)
        /\ tx' = [tx EXCEPT ![r] = t] /\ UNCHANGED << groupVars, dbVars >>
        /\ ~BadParticipants(in) /\ Split(in).err = "none"
    BY <1>2 DEF CalcShares, IInv, TypeOK
  <2>2. InFlight(r)
    BY <2>1 DEF InFlight
  <2>3. \/ in.op = "create" /\ label = "insert"
        \/ in.op = "update" /\ label = "save"
    BY <2>1, <2>2, InFlightFacts DEF Statements
  <2>4. in \in Writes /\ SplitAmounts(in) \in Amounts
    <3>1. in \in Inputs /\ in.op # "delete" BY <2>2, <2>3, InFlightFacts
    <3>2. in \in Writes BY <2>1, <3>1 DEF Writes, BadParticipants
    <3> QED BY <3>2, SplitTypesOK
  <2>5. \A u \in Users : Takes(in, u) => member[u] # "none"
    BY <2>1 DEF BadParticipants
  <2>6. t \in TxType
    BY <2>2, <2>4, InFlightFacts DEF TxType
  <2>7. /\ pc'[r] = label /\ tx'[r] = t /\ t.in = tx[r].in
        /\ t.seen = tx[r].seen /\ t.old = tx[r].old /\ t.new = tx[r].new
        /\ t.calc = SplitAmounts(tx[r].in)
    BY <2>1, <2>2, InFlightFacts DEF Goto, IInv, TypeOK, TxType
  <2>8. Target(r)' = Target(r) /\ label \in {"insert", "save"}
    BY <2>7 DEF Target
  <2> HIDE DEF t, label
  <2>9. (Phase(r) /\ Found(r))'
    BY <2>1, <2>2, <2>3, <2>7, <2>8, InFlightFacts
       DEF Phase, Found, InFlight, Statements, Stored, dbVars
  <2>10. Calculated(r)'
    BY <2>1, <2>4, <2>5, <2>7 DEF Calculated, groupVars
  <2>11. tx[r].in # None /\ Prepared(r)
    BY <2>2, InFlightFacts
  <2> HIDE DEF in
  <2>12. Prepared(r)'
    BY <2>1, <2>3, <2>7, <2>8, <2>10, <2>11 DEF Prepared, HoldsRow, groupVars, in
  <2> QED
    BY <2>1, <2>6, <2>7, <2>8, <2>9, <2>12, GotoStep DEF HoldsRow, PcLabels
<1> QED
  BY <1>1, <1>2

\* The INSERT of a create: nobody else can have locked the new row.
LEMMA InsertExpenseStep ==
    ASSUME NEW r \in Requests, IInv, InsertExpense(r)
    PROVE  IInv'
<1> DEFINE t == [tx[r] EXCEPT !.row = NewRow(tx[r].in)]
<1>1. /\ pc[r] = "insert" /\ Goto(r, "insertShares")
      /\ tx' = [tx EXCEPT ![r] = t] /\ UNCHANGED << groupVars, dbVars >>
  BY DEF InsertExpense, IInv, TypeOK
<1>2. InFlight(r)
  BY <1>1 DEF InFlight
<1>3. tx[r].in.op = "create" /\ ~Stored(r) /\ Target(r) = r
  BY <1>1, <1>2, InFlightFacts DEF Statements, Found, Target
<1>4. t \in TxType
  BY <1>2, InFlightFacts, RowTypes DEF TxType
<1>5. /\ pc'[r] = "insertShares" /\ tx'[r] = t /\ t.in = tx[r].in
      /\ t.calc = tx[r].calc /\ t.row = NewRow(tx[r].in) /\ t.new = tx[r].new
  BY <1>1, <1>2, InFlightFacts DEF Goto, IInv, TypeOK, TxType
<1>6. Target(r)' = Target(r)
  BY <1>5 DEF Target
<1> HIDE DEF t
<1>7. (Phase(r) /\ Found(r) /\ Prepared(r))'
  BY <1>1, <1>2, <1>3, <1>5, <1>6, InFlightFacts
     DEF Phase, Found, Prepared, Calculated, InFlight, Statements, HoldsRow,
         Stored, dbVars, groupVars
<1>8. \A q \in Requests \ {r} : HoldsRow(q) => Target(q) # r
  <2> SUFFICES ASSUME NEW q \in Requests, q # r, HoldsRow(q) PROVE Target(q) # r
    OBVIOUS
  <2>1. InFlight(q) /\ pc[q] # "find"
    BY DEF HoldsRow, InFlight
  <2>2. tx[q].in.op = "create" => Target(q) = q
    BY DEF Target
  <2>3. tx[q].in.op # "create" => Stored(Target(q))
    BY <2>1, InFlightFacts DEF Found
  <2> QED
    BY <2>2, <2>3, <1>3
<1> QED
  BY <1>1, <1>3, <1>4, <1>6, <1>7, <1>8, GotoStep DEF PcLabels

\* A statement that waits for the row finds it unlocked.
LEMMA UnlockedFacts ==
    ASSUME NEW r \in Requests, IInv, ~RowLocked(Target(r))
    PROVE  \A q \in Requests \ {r} : HoldsRow(q) => Target(q) # Target(r)
BY DEF RowLocked

\* A statement of a request that has locked the row is alone on it.
LEMMA LockedFacts ==
    ASSUME NEW r \in Requests, IInv, HoldsRow(r)
    PROVE  \A q \in Requests \ {r} : HoldsRow(q) => Target(q) # Target(r)
BY DEF IInv, OneWriter

\* tx.Save fails on stale shares, or locks the row.
LEMMA SaveStep ==
    ASSUME NEW r \in Requests, IInv, Save(r)
    PROVE  IInv'
<1> DEFINE t == [tx[r] EXCEPT
                   !.row = SavedRow(tx[r].seen, tx[r].in),
                   !.new = Merge(shares[Target(r)].amounts, tx[r].old.amounts)]
<1>1. CASE Answer(r, "error")
  BY <1>1, AnswerStep DEF Replies
<1>2. CASE ~Answer(r, "error")
  <2>1. /\ pc[r] = "save" /\ Goto(r, "deleteShares")
        /\ tx' = [tx EXCEPT ![r] = t] /\ UNCHANGED << groupVars, dbVars >>
        /\ ~RowLocked(Target(r))
        /\ ~StaleSharesClash(tx[r].old, shares[Target(r)])
    BY <1>2 DEF Save, IInv, TypeOK
  <2>2. InFlight(r)
    BY <2>1 DEF InFlight
  <2>3. tx[r].in.op = "update"
    BY <2>1, <2>2, InFlightFacts DEF Statements
  <2>4. Stored(Target(r)) /\ tx[r].seen \in Row
    BY <2>1, <2>2, <2>3, InFlightFacts DEF Found, TxType
  <2>5. shares[Target(r)].amounts \in Amounts /\ tx[r].old.amounts \in Amounts
    BY <2>1, <2>2, <2>3, <2>4, InFlightFacts
       DEF Found, IInv, TypeOK, SharesMatchExpense, TxType, ShareRows
  <2>6. t \in TxType
    BY <2>2, <2>4, <2>5, InFlightFacts, RowTypes, MergeType DEF TxType
  <2>7. /\ pc'[r] = "deleteShares" /\ tx'[r] = t /\ t.in = tx[r].in
        /\ t.calc = tx[r].calc /\ t.seen = tx[r].seen /\ t.old = tx[r].old
        /\ t.row = SavedRow(tx[r].seen, tx[r].in)
    BY <2>1, <2>2, InFlightFacts DEF Goto, IInv, TypeOK, TxType
  <2>8. Target(r)' = Target(r)
    BY <2>7 DEF Target
  <2> HIDE DEF t
  <2>9. (Phase(r) /\ Found(r))'
    BY <2>1, <2>2, <2>3, <2>7, <2>8, InFlightFacts
       DEF Phase, Found, InFlight, Statements, Stored, dbVars
  <2>10. Prepared(r)'
    BY <2>1, <2>2, <2>3, <2>7, <2>8, InFlightFacts
       DEF Prepared, Calculated, HoldsRow, dbVars, groupVars
  <2> QED
    BY <2>1, <2>6, <2>8, <2>9, <2>10, UnlockedFacts, GotoStep DEF PcLabels
<1> QED
  BY <1>1, <1>2

\* DELETE FROM expense_shares in a transaction that has locked the row.
LEMMA DeleteSharesStep ==
    ASSUME NEW r \in Requests, IInv, DeleteShares(r)
    PROVE  IInv'
<1> DEFINE t == [tx[r] EXCEPT !.new = NoShares]
<1>1. /\ pc[r] = "deleteShares" /\ Goto(r, "insertShares")
      /\ tx' = [tx EXCEPT ![r] = t] /\ UNCHANGED << groupVars, dbVars >>
  BY DEF DeleteShares, IInv, TypeOK
<1>2. InFlight(r) /\ HoldsRow(r)
  BY <1>1 DEF InFlight, HoldsRow
<1>3. tx[r].in.op = "update"
  BY <1>1, <1>2, InFlightFacts DEF Statements
<1>4. t \in TxType
  BY <1>2, InFlightFacts, NoSharesType DEF TxType
<1>5. /\ pc'[r] = "insertShares" /\ tx'[r] = t /\ t.in = tx[r].in
      /\ t.calc = tx[r].calc /\ t.seen = tx[r].seen /\ t.old = tx[r].old
      /\ t.row = tx[r].row /\ t.new = NoShares
  BY <1>1, <1>2, InFlightFacts DEF Goto, IInv, TypeOK, TxType
<1>6. Target(r)' = Target(r)
  BY <1>5 DEF Target
<1> HIDE DEF t
<1>7. (Phase(r) /\ Found(r))'
  BY <1>1, <1>2, <1>3, <1>5, <1>6, InFlightFacts
     DEF Phase, Found, InFlight, Statements, Stored, dbVars
<1>8. Prepared(r)'
  BY <1>1, <1>2, <1>3, <1>5, <1>6, InFlightFacts
     DEF Prepared, Calculated, HoldsRow, dbVars, groupVars
<1> QED
  BY <1>1, <1>2, <1>4, <1>6, <1>7, <1>8, LockedFacts, GotoStep DEF PcLabels

\* INSERT INTO expense_shares: the transaction now holds the whole entry.
LEMMA InsertSharesStep ==
    ASSUME NEW r \in Requests, IInv, InsertShares(r)
    PROVE  IInv'
<1> DEFINE t == [tx[r] EXCEPT !.new = Merge(tx[r].calc, tx[r].new)]
<1>1. /\ pc[r] = "insertShares" /\ Goto(r, "commit")
      /\ tx' = [tx EXCEPT ![r] = t] /\ UNCHANGED << groupVars, dbVars >>
  BY DEF InsertShares, IInv, TypeOK
<1>2. InFlight(r) /\ HoldsRow(r)
  BY <1>1 DEF InFlight, HoldsRow
<1>3. tx[r].in.op \in {"create", "update"}
  BY <1>1, <1>2, InFlightFacts DEF Statements
<1>4. tx[r].calc \in Amounts /\ tx[r].new = NoShares /\ tx[r].new \in Amounts
  BY <1>1, <1>2, InFlightFacts DEF Prepared, TxType
<1>5. Merge(tx[r].calc, tx[r].new) = tx[r].calc
  BY <1>4, MergeType
<1>6. t \in TxType
  BY <1>2, <1>4, <1>5, InFlightFacts DEF TxType
<1>7. /\ pc'[r] = "commit" /\ tx'[r] = t /\ t.in = tx[r].in
      /\ t.calc = tx[r].calc /\ t.seen = tx[r].seen /\ t.old = tx[r].old
      /\ t.row = tx[r].row /\ t.new = tx[r].calc
  BY <1>1, <1>2, <1>5, InFlightFacts DEF Goto, IInv, TypeOK, TxType
<1>8. Target(r)' = Target(r)
  BY <1>7 DEF Target
<1> HIDE DEF t
<1>9. (Phase(r) /\ Found(r))'
  BY <1>1, <1>2, <1>3, <1>7, <1>8, InFlightFacts
     DEF Phase, Found, InFlight, Statements, Stored, dbVars
<1>10. Prepared(r)'
  BY <1>1, <1>2, <1>3, <1>7, <1>8, InFlightFacts
     DEF Prepared, Calculated, HoldsRow, dbVars, groupVars
<1> QED
  BY <1>1, <1>2, <1>6, <1>8, <1>9, <1>10, LockedFacts, GotoStep DEF PcLabels

\* The UPDATE of a refund locks the row.
LEMMA RefundExpenseStep ==
    ASSUME NEW r \in Requests, IInv, RefundExpense(r)
    PROVE  IInv'
<1> DEFINE row == [expense[Target(r)] EXCEPT !.status = "refunded"]
           t   == [tx[r] EXCEPT !.row = row]
<1>1. /\ pc[r] = "refund" /\ Goto(r, "commit") /\ ~RowLocked(Target(r))
      /\ tx' = [tx EXCEPT ![r] = t] /\ UNCHANGED << groupVars, dbVars >>
  BY DEF RefundExpense, IInv, TypeOK
<1>2. InFlight(r)
  BY <1>1 DEF InFlight
<1>3. tx[r].in.op = "delete"
  BY <1>1, <1>2, InFlightFacts DEF Statements
<1>4. expense[Target(r)] \in Row
  BY <1>1, <1>2, <1>3, InFlightFacts DEF Found, Stored, IInv, TypeOK
<1>5. row \in Row
  BY <1>4 DEF Row
<1> HIDE DEF row
<1>6. t \in TxType
  BY <1>2, <1>5, InFlightFacts DEF TxType
<1>7. /\ pc'[r] = "commit" /\ tx'[r] = t /\ t.in = tx[r].in
      /\ t.seen = tx[r].seen /\ t.old = tx[r].old /\ t.row = row
  BY <1>1, <1>2, InFlightFacts DEF Goto, IInv, TypeOK, TxType
<1>8. Target(r)' = Target(r)
  BY <1>7 DEF Target
<1> HIDE DEF t
<1>9. (Phase(r) /\ Found(r))'
  BY <1>1, <1>2, <1>3, <1>7, <1>8, InFlightFacts
     DEF Phase, Found, InFlight, Statements, Stored, dbVars
<1>10. expense' = expense /\ row = [expense'[Target(r)'] EXCEPT !.status = "refunded"]
  BY <1>1, <1>8 DEF dbVars, row
<1>11. Prepared(r)'
  BY <1>1, <1>2, <1>3, <1>7, <1>8, <1>10, InFlightFacts
     DEF Prepared, Calculated, HoldsRow
<1> QED
  BY <1>1, <1>6, <1>8, <1>9, <1>11, UnlockedFacts, GotoStep DEF PcLabels

\* The answers of a request whose work has been committed.
LEMMA AuditStep ==
    ASSUME NEW r \in Requests, IInv, Audit(r)
    PROVE  IInv'
<1>1. CASE Answer(r, "updated") \/ Answer(r, "refunded")
  BY <1>1, AnswerStep DEF Replies
<1>2. CASE Proceed(r, "get") /\ tx[r].in.op = "create"
  <2>1. pc[r] = "audit" /\ InFlight(r) /\ pc'[r] = "get" /\ tx' = tx
          /\ UNCHANGED << groupVars, dbVars >>
    BY <1>2 DEF Audit, InFlight, Proceed, Goto, IInv, TypeOK
  <2>2. (Phase(r) /\ Found(r) /\ Prepared(r))'
    BY <1>2, <2>1, InFlightFacts
       DEF Phase, Found, Prepared, InFlight, Statements, HoldsRow, Stored,
           Target, dbVars
  <2> QED
    BY <1>2, <2>1, <2>2, ProceedStep DEF HoldsRow, PcLabels
<1> QED
  BY <1>1, <1>2 DEF Audit

\* "created" is answered for a stored expense only.
LEMMA GetCreatedStep ==
    ASSUME NEW r \in Requests, IInv, GetCreated(r)
    PROVE  IInv'
<1>1. pc[r] = "get" /\ InFlight(r)
  BY DEF GetCreated, InFlight
<1>2. Stored(r)
  BY <1>1, InFlightFacts DEF Statements, Found
<1> QED
  BY <1>2, AnswerStep DEF GetCreated, Replies

\* The group changes under the requests, but no membership row is deleted.
LEMMA GroupStepStep ==
    ASSUME IInv, GroupStep
    PROVE  IInv'
<1>1. Group!LifecycleTypeOK'
  BY DEF GroupStep, IInv, TypeOK, Group!Next, Group!Join, Group!Leave,
         Group!Close, Group!Reopen, Group!LifecycleTypeOK,
         Group!GroupStatus, Group!MemberStatus
<1>2. \A u \in Users : member[u] # "none" => member'[u] # "none"
  BY DEF GroupStep, IInv, TypeOK, Group!Next, Group!Join, Group!Leave,
         Group!Close, Group!Reopen, Group!LifecycleTypeOK
<1>3. UNCHANGED << expense, shares, pc, tx, reply >>
  BY DEF GroupStep, dbVars
<1>4. TypeOK' /\ OneWriter' /\ SharesMatchExpense' /\ CreatedIsStored'
  BY <1>1, <1>3 DEF IInv, TypeOK, OneWriter, HoldsRow, Target,
         SharesMatchExpense, CreatedIsStored, Stored
<1>5. PartiesAreMembers'
  <2>1. \A e \in Expenses : Stored(e) =>
           /\ expense[e].payer \in Users
           /\ Participants(shares[e].amounts) \subseteq Users
    BY DEF IInv, TypeOK, Stored, Row, Participants
  <2> QED
    BY <1>2, <1>3, <2>1 DEF IInv, PartiesAreMembers, Stored
<1>6. ASSUME NEW r \in Requests
      PROVE  (Phase(r) /\ Found(r) /\ Prepared(r))'
  <2>1. (Phase(r) /\ Found(r))'
    BY <1>3 DEF IInv, Phase, Found, InFlight, Stored, Target
  <2>2. Calculated(r) => Calculated(r)'
    BY <1>2, <1>3 DEF Calculated
  <2>3. tx[r].in # None => tx[r].in.payer \in Users
    BY InputsAssumption DEF IInv, TypeOK, TxType, InputType
  <2> QED
    BY <1>2, <1>3, <2>1, <2>2, <2>3 DEF IInv, Prepared, HoldsRow, Target
<1> QED
  BY <1>4, <1>5, <1>6 DEF IInv
-----------------------------------------------------------------------------
\* What a commit is about to store: a whole entry, with the payer that the
\* expense has if it is stored, and only members in it.
LEMMA CommitFacts ==
    ASSUME NEW r \in Requests, IInv, pc[r] = "commit"
    PROVE  LET e == Target(r)
               in == tx[r].in
               row == tx[r].row
           IN  /\ row \in Row /\ row # None
               /\ member[row.payer] # "none"
               /\ in.op = "create" => e = r /\ ~Stored(e)
               /\ in.op # "create" =>
                     Stored(e) /\ row.payer = expense[e].payer
                        /\ tx[r].seen.payer = expense[e].payer
               /\ in.op # "delete" =>
                     /\ row.status = "active"
                     /\ tx[r].new \in Amounts /\ SplitOf(row, tx[r].new)
                     /\ \A u \in Participants(tx[r].new) : member[u] # "none"
               /\ in.op = "delete" =>
                     row = [expense[e] EXCEPT !.status = "refunded"]
<1> DEFINE e == Target(r)
           in == tx[r].in
           row == tx[r].row
<1>1. InFlight(r) /\ HoldsRow(r)
  BY DEF InFlight, HoldsRow
<1>2. /\ in \in Inputs /\ e \in Expenses /\ Found(r) /\ Prepared(r)
      /\ in.op \in {"create", "update", "delete"}
  BY <1>1, InFlightFacts
<1>3. in.op # "delete" =>
        /\ tx[r].new = SplitAmounts(in) /\ in \in Writes
        /\ \A u \in Users : Takes(in, u) => member[u] # "none"
  BY <1>2 DEF Prepared, Calculated
<1>4. in.op # "create" => /\ Stored(e) /\ expense[e] \in Row
                          /\ member[expense[e].payer] # "none"
                          /\ tx[r].seen \in Row
                          /\ tx[r].seen.payer = expense[e].payer
  BY <1>1, <1>2
     DEF Found, Stored, IInv, TypeOK, TxType, PartiesAreMembers
<1>5. CASE in.op = "create"
  <2>1. row = NewRow(in) /\ member[in.payer] # "none" /\ e = r /\ ~Stored(e)
    BY <1>1, <1>2, <1>5, InFlightFacts DEF Prepared, Found, Target
  <2>2. row.payer = in.payer /\ row.status = "active" /\ SplitOf(row, tx[r].new)
    BY <2>1, <1>3, <1>5 DEF NewRow, SplitOf
  <2> QED
    BY <2>1, <2>2, <1>2, <1>3, <1>5, RowTypes, SplitTypesOK, NoneAssumption
       DEF Participants
<1>6. CASE in.op = "update"
  <2>1. row = SavedRow(tx[r].seen, in) /\ tx[r].seen.status = "active"
    BY <1>1, <1>2, <1>6 DEF Prepared, Found
  <2>2. /\ row.payer = expense[e].payer /\ row.status = "active"
        /\ SplitOf(row, tx[r].new)
    BY <2>1, <1>3, <1>4, <1>6 DEF SavedRow, SplitOf
  <2> QED
    BY <2>1, <2>2, <1>2, <1>3, <1>4, <1>6, RowTypes, SplitTypesOK,
       NoneAssumption DEF Participants
<1>7. CASE in.op = "delete"
  <2>1. row = [expense[e] EXCEPT !.status = "refunded"]
    BY <1>1, <1>2, <1>7 DEF Prepared
  <2>2. row \in Row /\ row.payer = expense[e].payer
    BY <2>1, <1>4, <1>7 DEF Row
  <2> QED
    BY <2>1, <2>2, <1>4, <1>7, NoneAssumption
<1> QED
  BY <1>2, <1>5, <1>6, <1>7

\* The commit of one entry.
LEMMA CommitStep ==
    ASSUME NEW r \in Requests, IInv, Commit(r)
    PROVE  IInv'
<1> DEFINE e   == Target(r)
           in  == tx[r].in
           row == tx[r].row
           sh  == IF in.op = "delete" THEN shares[e]
                  ELSE [batch |-> r, amounts |-> tx[r].new]
<1>1. /\ pc[r] = "commit" /\ pc' = [pc EXCEPT ![r] = "audit"] /\ tx' = tx
      /\ reply' = reply /\ status' = status /\ member' = member
      /\ expense' = [expense EXCEPT ![e] = row]
      /\ shares' = [shares EXCEPT ![e] = sh]
  BY DEF Commit, Goto, groupVars
<1>2. /\ InFlight(r) /\ HoldsRow(r) /\ e \in Expenses /\ r \in Expenses
      /\ in.op \in {"create", "update", "delete"} /\ in # None
  BY <1>1, InFlightFacts DEF InFlight, HoldsRow, Expenses
<1>3. /\ expense'[e] = row /\ shares'[e] = sh
      /\ \A x \in Expenses \ {e} : expense'[x] = expense[x] /\ shares'[x] = shares[x]
      /\ \A q \in Requests \ {r} : pc'[q] = pc[q]
      /\ pc'[r] = "audit"
  BY <1>1, <1>2 DEF IInv, TypeOK
<1>4. /\ row \in Row /\ row # None /\ member[row.payer] # "none"
      /\ in.op = "create" => e = r /\ ~Stored(e)
      /\ in.op # "create" => Stored(e) /\ row.payer = expense[e].payer
                               /\ tx[r].seen.payer = row.payer
      /\ in.op # "delete" =>
            /\ tx[r].new \in Amounts /\ SplitOf(row, tx[r].new)
            /\ \A u \in Participants(tx[r].new) : member[u] # "none"
      /\ in.op = "delete" => row = [expense[e] EXCEPT !.status = "refunded"]
  BY <1>1, CommitFacts
<1>5. sh \in ShareRows /\ sh # None /\ SplitOf(row, sh.amounts)
        /\ \A u \in Participants(sh.amounts) : member[u] # "none"
  <2>1. CASE in.op = "delete"
    <3>1. Stored(e) /\ sh = shares[e] /\ sh # None
      BY <1>2, <1>4, <2>1 DEF IInv, SharesMatchExpense
    <3>2. sh \in ShareRows /\ SplitOf(expense[e], sh.amounts)
            /\ \A u \in Participants(sh.amounts) : member[u] # "none"
      BY <1>2, <3>1 DEF IInv, TypeOK, SharesMatchExpense, PartiesAreMembers
    <3>3. row.amount = expense[e].amount /\ row.splitType = expense[e].splitType
      BY <1>2, <1>4, <2>1, <3>1 DEF IInv, TypeOK, Row, Stored
    <3> QED
      BY <3>1, <3>2, <3>3 DEF SplitOf
  <2>2. CASE in.op # "delete"
    <3>1. sh = [batch |-> r, amounts |-> tx[r].new] /\ sh \in ShareRows
            /\ sh.amounts = tx[r].new
      BY <1>2, <1>4, <2>2 DEF ShareRows
    <3> HIDE DEF sh
    <3> QED
      BY <1>4, <2>2, <3>1, NoneAssumption
  <2> QED
    BY <2>1, <2>2
<1> HIDE DEF sh, row, in, e
<1>6. TypeOK'
  BY <1>1, <1>4, <1>5 DEF IInv, TypeOK, PcLabels, Group!LifecycleTypeOK
<1>7. \A x \in Expenses : Stored(x)' <=> (Stored(x) \/ x = e)
  BY <1>3, <1>4 DEF Stored
<1>8. SharesMatchExpense' /\ PartiesAreMembers'
  <2> SUFFICES ASSUME NEW x \in Expenses, Stored(x)'
               PROVE  /\ shares'[x] # None /\ SplitOf(expense[x], shares[x].amounts)'
                      /\ member'[expense'[x].payer] # "none"
                      /\ \A u \in Participants(shares'[x].amounts) :
                            member'[u] # "none"
    BY DEF SharesMatchExpense, PartiesAreMembers, Participants
  <2>1. CASE x = e
    BY <1>1, <1>3, <1>4, <1>5, <2>1 DEF SplitOf
  <2>2. CASE x # e
    BY <1>1, <1>3, <1>7, <2>2
       DEF IInv, SharesMatchExpense, PartiesAreMembers, SplitOf
  <2> QED
    BY <2>1, <2>2
<1>9. CreatedIsStored'
  BY <1>1, <1>7 DEF IInv, CreatedIsStored, Expenses
<1>10. OneWriter'
  BY <1>1, <1>3 DEF IInv, OneWriter, HoldsRow, Target
<1>11. ASSUME NEW q \in Requests, q # r
       PROVE  (Phase(q) /\ Found(q) /\ Prepared(q))'
  <2>1. q \in Expenses /\ (Stored(q)' <=> Stored(q)) /\ pc'[q] = pc[q]
    BY <1>2, <1>3, <1>4, <1>7, <1>11 DEF Expenses, in, e
  <2>2. Phase(q)'
    BY <1>1, <2>1 DEF IInv, Phase, InFlight
  <2>3. ASSUME InFlight(q), tx[q].in.op # "create", pc[q] # "find"
        PROVE  /\ Stored(Target(q))' /\ Target(q) \in Expenses
               /\ tx[q].seen.payer = expense'[Target(q)].payer
    <3>1. /\ Target(q) \in Expenses /\ Target(q)' = Target(q)
          /\ Stored(Target(q)) /\ tx[q].seen.payer = expense[Target(q)].payer
      BY <1>1, <2>3, InFlightFacts DEF Found, Target
    <3>2. Stored(Target(q))'
      BY <1>7, <3>1
    <3>3. expense'[Target(q)].payer = expense[Target(q)].payer
      BY <1>3, <1>4, <3>1
    <3> QED
      BY <3>1, <3>2, <3>3
  <2>4. Found(q)'
    BY <1>1, <2>1, <2>3 DEF IInv, Found, InFlight, Target
  <2>5. HoldsRow(q) =>
          /\ Target(q) \in Expenses \ {e}
          /\ expense'[Target(q)] = expense[Target(q)]
          /\ shares'[Target(q)] = shares[Target(q)]
    <3>1. HoldsRow(q) => InFlight(q)
      BY DEF HoldsRow, InFlight
    <3> QED
      BY <1>2, <1>3, <1>11, <3>1, InFlightFacts, LockedFacts DEF e
  <2>6. /\ Target(q)' = Target(q) /\ HoldsRow(q)' = HoldsRow(q)
        /\ Calculated(q)' = Calculated(q) /\ Prepared(q)
    BY <1>1, <2>1 DEF IInv, Calculated, HoldsRow, Target
  <2>7. Prepared(q)'
    BY <1>1, <2>1, <2>5, <2>6 DEF Prepared
  <2> QED
    BY <2>2, <2>4, <2>7
<1>12. (Phase(r) /\ Found(r) /\ Prepared(r))'
  <2>1. Phase(r)'
    BY <1>1, <1>2, <1>3, InFlightFacts DEF Phase, InFlight, Statements, in
  <2>2. Found(r)'
    BY <1>1, <1>2, <1>3, <1>4, <1>7, InFlightFacts
       DEF Found, InFlight, Target, in, e
  <2>3. Prepared(r)'
    BY <1>1, <1>2, <1>3 DEF Prepared, HoldsRow
  <2> QED
    BY <2>1, <2>2, <2>3
<1> QED
  BY <1>6, <1>8, <1>9, <1>10, <1>11, <1>12 DEF IInv

\* Every step keeps the invariant.
LEMMA NextIInv == IInv /\ [Next]_vars => IInv'
<1> SUFFICES ASSUME IInv, [Next]_vars PROVE IInv'
  OBVIOUS
<1>1. ASSUME NEW r \in Requests, Receive(r) PROVE IInv'
  BY <1>1, ReceiveStep
<1>2. ASSUME NEW r \in Requests, Step(r) PROVE IInv'
  BY <1>2, FindRowStep, FindSharesStep, LockGroupStep, CheckCallerStep,
     CheckPayerStep, CalcSharesStep, InsertExpenseStep, SaveStep,
     DeleteSharesStep, InsertSharesStep, RefundExpenseStep, CommitStep,
     AuditStep, GetCreatedStep DEF Step
<1>3. ASSUME NEW r \in Requests, Fail(r) PROVE IInv'
  BY <1>3, AnswerStep DEF Fail, Replies
<1>4. CASE GroupStep
  BY <1>4, GroupStepStep
<1>5. CASE UNCHANGED vars
  <2>1. UNCHANGED << status, member, expense, shares, pc, tx, reply >>
    BY <1>5 DEF vars
  <2>2. TypeOK' /\ OneWriter' /\ SharesMatchExpense' /\ PartiesAreMembers'
          /\ CreatedIsStored'
    BY <2>1 DEF IInv, TypeOK, Group!LifecycleTypeOK, OneWriter, HoldsRow,
                Target, SharesMatchExpense, PartiesAreMembers,
                CreatedIsStored, Stored
  <2>3. \A q \in Requests : (Phase(q) /\ Found(q) /\ Prepared(q))'
    BY <2>1, FrameRequest DEF IInv
  <2> QED
    BY <2>2, <2>3 DEF IInv
<1> QED
  BY <1>1, <1>2, <1>3, <1>4, <1>5 DEF Next

\* The inductive invariant holds in every reachable state: what a request in
\* flight has read and prepared agrees with the tables whenever it matters.
THEOREM Invariance == Spec => []IInv
<1>1. Init => IInv
  BY InitIInv
<1>2. IInv /\ [Next]_vars => IInv'
  BY NextIInv
<1> QED
  BY <1>1, <1>2, PTL DEF Spec

\* Type correctness: rows are complete and requests hold what their statement
\* needs.
THEOREM TypeCorrect == Spec => []TypeOK
<1>1. IInv => TypeOK
  BY DEF IInv
<1> QED
  BY <1>1, Invariance, PTL

\* The shares of every stored expense are the split of its own amount,
\* whatever creates, updates and refunds run at once and wherever they fail.
THEOREM SharesAlwaysMatch == Spec => []SharesMatchExpense
<1>1. IInv => SharesMatchExpense
  BY DEF IInv
<1> QED
  BY <1>1, Invariance, PTL

\* Whoever appears in a stored expense has a membership row in the group.
THEOREM PartiesAlwaysMembers == Spec => []PartiesAreMembers
<1>1. IInv => PartiesAreMembers
  BY DEF IInv
<1> QED
  BY <1>1, Invariance, PTL

\* An expense whose creation has been answered with success is stored.
THEOREM CreatedAlwaysStored == Spec => []CreatedIsStored
<1>1. IInv => CreatedIsStored
  BY DEF IInv
<1> QED
  BY <1>1, Invariance, PTL

\* No update commits over share rows it has not read if it has a participant
\* in common with them.
THEOREM NoStaleCommit == Spec => NoStaleOverlap
<1>1. ASSUME IInv, NEW r \in Requests, InFlight(r), tx[r].in.op = "update",
             Commit(r)
      PROVE  ~StaleSharesClash(tx[r].old, shares[Target(r)])
  BY <1>1, InFlightFacts DEF Prepared, HoldsRow, Commit
<1> DEFINE A == \A r \in Requests :
                   InFlight(r) /\ tx[r].in.op = "update" /\ Commit(r) =>
                      ~StaleSharesClash(tx[r].old, shares[Target(r)])
<1>2. IInv /\ [Next]_vars => [A]_vars
  BY <1>1
<1> HIDE DEF A
<1>3. Spec => [][A]_vars
  BY <1>2, Invariance, PTL DEF Spec
<1> QED
  BY <1>3 DEF NoStaleOverlap, A
-----------------------------------------------------------------------------
\* In whole cents, the share rows of an accepted request add up to its amount or to
\* one cent more: each participant has one of the shares that splitcalc returns.
LEMMA RowsAddUp ==
    ASSUME Sub = 1, NEW in \in Writes
    PROVE  LET amounts == SplitAmounts(in)
               takers  == Participants(amounts)
           IN  /\ \A u \in takers : amounts[u] \in Int
               /\ in.amount \in Int /\ Round2(in.amount, Sub) = in.amount
               /\ SumFunctionOnSet(amounts, takers) \in {in.amount, in.amount + 1}
<1> DEFINE ps == in.participants
           n  == Len(ps)
           s  == Split(in).amounts
           amounts == SplitAmounts(in)
           Participant == [user : Users, ratio : Int, amount : Int]
<1>1. /\ in.amount \in Int /\ ps \in Seq(Participant) /\ n \in Nat
      /\ Split(in).err = "none" /\ ~HasDuplicate(in)
  <2>1. in \in InputType /\ Split(in).err = "none" /\ ~HasDuplicate(in)
    BY InputsAssumption DEF Writes
  <2>2. in.amount \in Int /\ ps \in Seq(Participant)
    BY <2>1 DEF InputType
  <2>3. n \in Nat
    <3>1. \A T : \A x \in Seq(T) : Len(x) \in Nat OBVIOUS
    <3> HIDE DEF ps, Participant
    <3> QED BY <2>2, <3>1 DEF n
  <2> QED BY <2>1, <2>2, <2>3
<1>2. in.amount > 0 /\ ps # << >>
  BY <1>1 DEF Split, CalculateShares, InvalidSplit
<1>3. Divides(s, n, in.amount)
  <2>1. InCents(Participant) BY DEF InCents
  <2>2. CalculateShares(in.amount, in.splitType, ps).err = "none" BY <1>1 DEF Split
  <2> HIDE DEF ps, Participant
  <2> QED BY <1>1, <2>1, <2>2, SharesAddUp DEF Split, ps
<1>4. SumOf(s) \in {in.amount, in.amount + 1}
  <2>1. n \in Nat \ {0} BY <1>1, <1>2
  <2> HIDE DEF n, s
  <2> QED BY <1>1, <1>3, <2>1, SharesWithinACent
<1>5. DOMAIN s = 1 .. n /\ \A k \in 1 .. n : s[k] \in Int
  BY <1>3 DEF Divides
<1>6. \A k \in 1 .. n : ps[k].user \in Users
  <2>1. \A T : \A x \in Seq(T) : \A k \in 1 .. Len(x) : x[k] \in T OBVIOUS
  <2>2. \A k \in 1 .. n : ps[k] \in Participant BY <1>1, <2>1
  <2>3. \A x \in Participant : x.user \in Users OBVIOUS
  <2> QED BY <2>2, <2>3
<1>7. \A j, k \in 1 .. n : ps[j].user = ps[k].user => j = k
  <2>1. \A j, k \in 1 .. n : ~(j < k /\ ps[j].user = ps[k].user)
    <3>1. ~HasDuplicate(in) BY <1>1
    <3> QED BY <3>1 DEF HasDuplicate
  <2>2. \A j, k \in 1 .. n : j = k \/ j < k \/ k < j
    <3>1. n \in Nat BY <1>1
    <3> HIDE DEF n
    <3> QED BY <3>1
  <2> HIDE DEF n
  <2> QED BY <2>1, <2>2
<1>8. \A k \in 1 .. n : amounts[ps[k].user] = s[k]
  <2> SUFFICES ASSUME NEW k \in 1 .. n PROVE amounts[ps[k].user] = s[k]
    OBVIOUS
  <2> DEFINE P(i) == i \in 1 .. n /\ ps[i].user = ps[k].user
  <2>1. PICK j : j = CHOOSE i \in 1 .. n : ps[i].user = ps[k].user OBVIOUS
  <2>2. j \in 1 .. n /\ ps[j].user = ps[k].user BY <2>1
  <2>3. j = k BY <1>7, <2>2
  <2>4. Takes(in, ps[k].user) BY DEF Takes
  <2>5. ShareOf(in, ps[k].user) = s[j] BY <2>1, <2>4 DEF ShareOf
  <2> QED BY <1>6, <2>3, <2>5 DEF SplitAmounts
<1>9. {ps[k].user : k \in 1 .. n} = Participants(amounts)
  <2>1. None \notin Int BY NoneAssumption
  <2>2. \A u \in Users : amounts[u] # None => Takes(in, u) BY SplitTypesOK
  <2>3. \A u \in Users : Takes(in, u) <=> \E k \in 1 .. n : ps[k].user = u
    BY DEF Takes
  <2>4. \A k \in 1 .. n : amounts[ps[k].user] # None BY <1>5, <1>8, <2>1
  <2> HIDE DEF amounts, ps, n, s
  <2> QED BY <1>6, <2>2, <2>3, <2>4 DEF Participants
<1> HIDE DEF amounts, n, s
<1>10. \A u \in Participants(amounts) : amounts[u] \in Int
  BY <1>5, <1>8, <1>9
<1>11. SumOf(s) = SumFunctionOnSet(amounts, Participants(amounts))
  <2>1. PICK e : e = [k \in 1 .. n |-> ps[k].user] OBVIOUS
  <2>2. \A j, k \in 1 .. n : e[j] = e[k] => j = k BY <1>7, <2>1
  <2>3. \A k \in 1 .. n : amounts[e[k]] \in Int /\ s[k] = amounts[e[k]]
    BY <1>5, <1>8, <2>1
  <2>4. SumOf(s) = SumFunctionOnSet(amounts, {e[k] : k \in 1 .. n})
    <3>1. n \in Nat /\ DOMAIN s = 1 .. n BY <1>1, <1>5 DEF n
    <3> QED BY <2>2, <2>3, <3>1, SetSumInOrder
  <2>5. {e[k] : k \in 1 .. n} = Participants(amounts) BY <1>9, <2>1
  <2> QED BY <2>4, <2>5
<1>12. Round2(in.amount, Sub) = in.amount
  BY <1>1, <1>2, Round2Cents
<1> QED
  BY <1>1, <1>4, <1>10, <1>11, <1>12 DEF amounts

\* What u owes and has paid for e.
Owes(e, u)  == IF shares[e].amounts[u] # None THEN shares[e].amounts[u] ELSE 0
Spent(e, u) == IF expense[e].payer = u THEN expense[e].amount ELSE 0

\* What all users owe for one expense, less what its payer has paid, is a cent or
\* nothing.
LEMMA ExpenseCancels ==
    ASSUME Sub = 1, IsFiniteSet(Users), TypeOK, SharesMatchExpense, NEW e \in Active
    PROVE  LET net == [u \in Users |-> Owes(e, u) - Spent(e, u)]
           IN  /\ \A u \in Users : Owes(e, u) \in Int /\ Spent(e, u) \in Int
               /\ SumFunctionOnSet(net, Users) \in {0, 1}
<1>1. PICK amounts, row : amounts = shares[e].amounts /\ row = expense[e]
  OBVIOUS
<1>2. row \in Row /\ row.payer \in Users /\ SplitOf(row, amounts)
  BY <1>1 DEF TypeOK, SharesMatchExpense, Active, Stored, Row
<1>3. PICK in \in Writes : row.amount = Round2(in.amount, Sub) /\ amounts = SplitAmounts(in)
  BY <1>2 DEF SplitOf
<1> DEFINE takers == Participants(amounts)
           owed   == [u \in Users |-> Owes(e, u)]
           spent  == [u \in Users |-> Spent(e, u)]
           net    == [u \in Users |-> Owes(e, u) - Spent(e, u)]
<1>4. /\ \A u \in takers : amounts[u] \in Int
      /\ row.amount \in Int
      /\ SumFunctionOnSet(amounts, takers) \in {row.amount, row.amount + 1}
  BY <1>3, RowsAddUp
<1>5. takers \in SUBSET Users /\ \A u \in Users : u \in takers <=> amounts[u] # None
  BY DEF Participants
<1>6. \A u \in Users : /\ owed[u] = IF u \in takers THEN amounts[u] ELSE 0
                       /\ spent[u] = IF row.payer = u THEN row.amount ELSE 0
                       /\ net[u] = owed[u] - spent[u]
                       /\ owed[u] = Owes(e, u) /\ spent[u] = Spent(e, u)
  BY <1>1, <1>5 DEF Owes, Spent
<1> HIDE DEF takers, owed, spent, net
<1>7. \A u \in Users : owed[u] \in Int /\ spent[u] \in Int
  BY <1>4, <1>6
<1>8. SumFunctionOnSet(owed, Users) = SumFunctionOnSet(amounts, takers)
  <2>1. \A u \in Users : owed[u] = IF u \in takers THEN amounts[u] ELSE 0 BY <1>6
  <2> QED BY <1>4, <1>5, <2>1, SetSumFilter
<1>9. SumFunctionOnSet(spent, Users) = row.amount
  <2>1. spent[row.payer] = row.amount BY <1>2, <1>6
  <2>2. SumFunctionOnSet(spent, {row.payer}) = row.amount BY <1>4, <2>1, SetSumOne
  <2>3. {row.payer} \in SUBSET Users /\ \A u \in {row.payer} : spent[u] \in Int
    BY <1>2, <1>7
  <2>4. \A u \in Users \ {row.payer} : spent[u] = 0 BY <1>6
  <2>5. SumFunctionOnSet(spent, Users) = SumFunctionOnSet(spent, {row.payer})
    BY <2>3, <2>4, SetSumWithin
  <2> QED BY <2>2, <2>5
<1>10. SumFunctionOnSet(net, Users) =
         SumFunctionOnSet(owed, Users) - SumFunctionOnSet(spent, Users)
  <2>1. \A u \in Users : owed[u] \in Int /\ spent[u] \in Int /\ net[u] = owed[u] - spent[u]
    BY <1>6, <1>7
  <2> QED BY <2>1, SetSumMinus
<1>11. SumFunctionOnSet(net, Users) \in {0, 1}
  BY <1>4, <1>8, <1>9, <1>10
<1> QED
  BY <1>6, <1>7, <1>11 DEF net

\* The same summed up by users.
LEMMA Balanced ==
    ASSUME Sub = 1, IsFiniteSet(Users), IsFiniteSet(Expenses), TypeOK, SharesMatchExpense
    PROVE  BalancesCancel
<1> DEFINE row    == [e \in Active |-> [u \in Users |-> Owes(e, u) - Spent(e, u)]]
           column == [u \in Users |-> [e \in Active |-> Owes(e, u) - Spent(e, u)]]
           perExpense == [e \in Active |-> SumFunctionOnSet(row[e], Users)]
           perUser    == [u \in Users |-> SumOwed(u) - SumPaid(u)]
<1>1. IsFiniteSet(Active)
  <2>1. Active \in SUBSET Expenses BY DEF Active
  <2> QED BY <2>1, FS_Subset
<1>2. \A e \in Active : /\ \A u \in Users : Owes(e, u) \in Int /\ Spent(e, u) \in Int
                        /\ perExpense[e] \in {0, 1}
  BY ExpenseCancels
<1>3. \A u \in Users : perUser[u] = SumFunctionOnSet(column[u], Active)
  <2> SUFFICES ASSUME NEW u \in Users
               PROVE  SumOwed(u) - SumPaid(u) = SumFunctionOnSet(column[u], Active)
    OBVIOUS
  <2> DEFINE T == {x \in Active : shares[x].amounts[u] # None}
             P == {x \in Active : expense[x].payer = u}
             f == [e \in T |-> shares[e].amounts[u]]
             g == [e \in P |-> expense[e].amount]
             owed  == [e \in Active |-> Owes(e, u)]
             spent == [e \in Active |-> Spent(e, u)]
  <2>1. /\ SumOwed(u) = SumFunctionOnSet(f, T)
        /\ SumPaid(u) = SumFunctionOnSet(g, P)
    BY DEF SumOwed, SumPaid, SumFunction
  <2>2. /\ T \in SUBSET Active /\ P \in SUBSET Active
        /\ \A e \in Active : owed[e] = IF e \in T THEN f[e] ELSE 0
        /\ \A e \in Active : spent[e] = IF e \in P THEN g[e] ELSE 0
    BY DEF Owes, Spent
  <2>3. \A e \in Active : owed[e] \in Int /\ spent[e] \in Int
                          /\ column[u][e] = owed[e] - spent[e]
    BY <1>2
  <2> HIDE DEF T, P, f, g, owed, spent, column
  <2>4. (\A e \in T : f[e] \in Int) /\ \A e \in P : g[e] \in Int
    BY <2>2, <2>3
  <2>5. SumFunctionOnSet(f, T) = SumFunctionOnSet(owed, Active)
    BY <1>1, <2>2, <2>4, SetSumFilter
  <2>6. SumFunctionOnSet(g, P) = SumFunctionOnSet(spent, Active)
    BY <1>1, <2>2, <2>4, SetSumFilter
  <2>7. SumFunctionOnSet(column[u], Active) =
          SumFunctionOnSet(owed, Active) - SumFunctionOnSet(spent, Active)
    <3>1. PICK h : h = column[u] OBVIOUS
    <3> QED BY <1>1, <2>3, <3>1, SetSumMinus
  <2> QED BY <2>1, <2>5, <2>6, <2>7
<1>4. Transposed(row, column, Active, Users)
  <2> HIDE DEF perExpense, perUser
  <2>1. \A e \in Active : \A u \in Users : Owes(e, u) \in Int /\ Spent(e, u) \in Int
    BY <1>2
  <2>2. \A e \in Active : \A u \in Users :
          row[e][u] = Owes(e, u) - Spent(e, u) /\ column[u][e] = row[e][u]
    OBVIOUS
  <2> HIDE DEF row, column
  <2> QED BY <2>1, <2>2 DEF Transposed
<1>5. \A e \in Active : perExpense[e] = SumFunctionOnSet(row[e], Users)
  OBVIOUS
<1>6. BalancesCancel <=> SumFunctionOnSet(perUser, Users) \in 0 .. Cardinality(Active)
  BY DEF BalancesCancel, SumFunction
<1> HIDE DEF row, column, perExpense, perUser
<1>7. SumFunctionOnSet(perExpense, Active) = SumFunctionOnSet(perUser, Users)
  BY <1>1, <1>3, <1>4, <1>5, SetSumSwap
<1> DEFINE none == [e \in Active |-> 0]
           one  == [e \in Active |-> 1]
<1>8. SumFunctionOnSet(none, Active) = 0 /\ SumFunctionOnSet(one, Active) = Cardinality(Active)
  BY <1>1, SetSumZero, SetSumOnes
<1>9. \A e \in Active : /\ none[e] \in Int /\ perExpense[e] \in Int /\ one[e] \in Int
                        /\ none[e] <= perExpense[e] /\ perExpense[e] <= one[e]
  BY <1>2
<1> HIDE DEF none, one
<1>10. /\ SumFunctionOnSet(none, Active) <= SumFunctionOnSet(perExpense, Active)
       /\ SumFunctionOnSet(perExpense, Active) <= SumFunctionOnSet(one, Active)
  BY <1>1, <1>9, SetSumMonotone
<1>11. SumFunctionOnSet(perExpense, Active) \in Int BY <1>1, <1>9, SetSumType
<1>12. Cardinality(Active) \in Nat BY <1>1, FS_CardinalityType
<1> QED
  BY <1>6, <1>7, <1>8, <1>10, <1>11, <1>12

\* With finitely many users and expenses, in whole cents: whatever requests run at
\* once, what all users owe less what they have paid is at most a cent per expense.
THEOREM BalancesAlwaysCancel ==
    ASSUME Sub = 1, IsFiniteSet(Users), IsFiniteSet(Expenses)
    PROVE  Spec => []BalancesCancel
<1>1. IInv => BalancesCancel
  BY Balanced DEF IInv
<1> QED
  BY <1>1, Invariance, PTL
-----------------------------------------------------------------------------
\* The entry that a row and share amounts make is one of the abstract ledger.
LEMMA EntryIsLegal ==
    ASSUME NEW row \in Row, NEW amounts, SplitOf(row, amounts)
    PROVE  [amount |-> row.amount, splitType |-> row.splitType,
            payer |-> row.payer, status |-> row.status, shares |-> amounts]
              \in LedgerEntries
<1>1. PICK in \in Writes : /\ row.amount = Round2(in.amount, Sub)
                           /\ row.splitType = in.splitType
                           /\ amounts = SplitAmounts(in)
  BY DEF SplitOf
<1>2. row.payer \in Users /\ row.status \in {"active", "refunded"}
  BY DEF Row
<1> QED
  BY <1>1, <1>2 DEF LedgerEntries

\* What the tables show of each expense.
LEMMA ViewOf ==
    /\ DOMAIN LedgerView = Expenses
    /\ LedgerView = [e \in Expenses |-> LedgerView[e]]
    /\ \A e \in Expenses :
          /\ ~Stored(e) => LedgerView[e] = None
          /\ Stored(e) => LedgerView[e] =
                [amount |-> expense[e].amount, splitType |-> expense[e].splitType,
                 payer |-> expense[e].payer, status |-> expense[e].status,
                 shares |-> shares[e].amounts]
BY DEF LedgerView

\* The tables only hold legal entries.
LEMMA ViewIsLegal == IInv => Ledger!LedgerTypeOK
<1> SUFFICES ASSUME IInv, NEW e \in Expenses
             PROVE  LedgerView[e] \in LedgerEntries \cup {None}
  BY ViewOf DEF Ledger!LedgerTypeOK
<1>1. Stored(e) => expense[e] \in Row /\ SplitOf(expense[e], shares[e].amounts)
  BY DEF IInv, TypeOK, SharesMatchExpense, Stored
<1> QED
  BY <1>1, EntryIsLegal, ViewOf

\* Only a commit changes what the tables show, and it is a step of the ledger.
LEMMA CommitIsLedgerStep ==
    ASSUME NEW r \in Requests, IInv, Commit(r)
    PROVE  Ledger!Next
<1> DEFINE e   == Target(r)
           op  == tx[r].in.op
           row == tx[r].row
           am  == IF op = "delete" THEN shares[e].amounts ELSE tx[r].new
           x   == [amount |-> row.amount, splitType |-> row.splitType,
                   payer |-> row.payer, status |-> row.status, shares |-> am]
<1>1. /\ pc[r] = "commit" /\ expense' = [expense EXCEPT ![e] = row]
      /\ shares' = [shares EXCEPT ![e] =
                      IF op = "delete" THEN @ ELSE [batch |-> r, amounts |-> tx[r].new]]
  BY DEF Commit
<1>2. e \in Expenses /\ op \in {"create", "update", "delete"}
  BY <1>1, InFlightFacts DEF InFlight
<1>3. /\ expense'[e] = row /\ shares'[e].amounts = am
      /\ \A y \in Expenses \ {e} : expense'[y] = expense[y] /\ shares'[y] = shares[y]
  BY <1>1, <1>2 DEF IInv, TypeOK
<1>4. /\ row \in Row /\ row # None
      /\ op = "create" => ~Stored(e)
      /\ op # "create" => Stored(e) /\ row.payer = expense[e].payer
      /\ op # "delete" => row.status = "active" /\ SplitOf(row, tx[r].new)
      /\ op = "delete" => row = [expense[e] EXCEPT !.status = "refunded"]
  BY <1>1, CommitFacts
<1>5. Stored(e) => /\ expense[e] \in Row
                   /\ SplitOf(expense[e], shares[e].amounts)
                   /\ LedgerView[e] \in LedgerEntries /\ LedgerView[e] # None
  <2>1. Stored(e) => /\ expense[e] \in Row
                     /\ SplitOf(expense[e], shares[e].amounts)
    BY <1>2 DEF IInv, TypeOK, SharesMatchExpense, Stored
  <2> QED
    BY <1>2, <2>1, EntryIsLegal, ViewOf, NoEntryAssumption
<1>6. LedgerView' = [LedgerView EXCEPT ![e] = x]
  <2>1. \A y \in Expenses \ {e} : (LedgerView[y])' = LedgerView[y]
    BY <1>3 DEF LedgerView, Stored
  <2>2. (LedgerView')[e] = x
    BY <1>2, <1>3, <1>4 DEF LedgerView, Stored
  <2>3. /\ DOMAIN LedgerView' = Expenses
        /\ LedgerView' = [y \in Expenses |-> (LedgerView')[y]]
    BY DEF LedgerView
  <2> HIDE DEF x
  <2> QED
    BY <2>1, <2>2, <2>3, ViewOf
<1>7. CASE op = "create"
  <2>1. x \in LedgerEntries /\ x.status = "active"
    BY <1>4, <1>7, EntryIsLegal
  <2> HIDE DEF x
  <2> QED
    BY <1>2, <1>4, <1>6, <1>7, <2>1, ViewOf DEF Ledger!Next, Ledger!Add
<1>8. CASE op = "update"
  <2>1. x \in LedgerEntries /\ x.status = "active" /\ x.payer = row.payer
    BY <1>4, <1>8, EntryIsLegal
  <2>2. LedgerView[e].payer = row.payer /\ LedgerView[e] # None
    BY <1>2, <1>4, <1>5, <1>8, ViewOf
  <2> HIDE DEF x
  <2> QED
    BY <1>2, <1>6, <2>1, <2>2 DEF Ledger!Next, Ledger!Revise
<1>9. CASE op = "delete"
  <2>1. Stored(e) /\ LedgerView[e] # None /\ am = shares[e].amounts
    BY <1>4, <1>5, <1>9
  <2>2. x = [LedgerView[e] EXCEPT !.status = "refunded"]
    BY <1>2, <1>4, <1>5, <1>9, <2>1, ViewOf DEF Row
  <2> HIDE DEF x
  <2> QED
    BY <1>2, <1>6, <2>1, <2>2 DEF Ledger!Next, Ledger!Refund
<1> QED
  BY <1>2, <1>7, <1>8, <1>9

\* The expense tables implement the abstract ledger: an entry appears whole,
\* changes whole and keeps its payer, whatever requests run at once.
THEOREM ImplementsLedger == Spec => LedgerSpec
<1>1. Init => Ledger!Init
  BY InitIInv, ViewIsLegal DEF Ledger!Init
<1>2. IInv /\ [Next]_vars => [Ledger!Next]_LedgerView
  <2> SUFFICES ASSUME IInv, [Next]_vars, ~UNCHANGED LedgerView
               PROVE  Ledger!Next
    OBVIOUS
  <2>1. ~UNCHANGED << expense, shares >>
    BY DEF LedgerView, Stored
  <2>2. PICK r \in Requests : Commit(r)
    BY <2>1 DEF Next, vars, Receive, Step, Fail, GroupStep, Answer, Proceed,
       FindRow, FindShares, LockGroup, CheckCaller, CheckPayer, CalcShares,
       InsertExpense, Save, DeleteShares, InsertShares, RefundExpense, Audit,
       GetCreated, dbVars
  <2> QED
    BY <2>2, CommitIsLedgerStep
<1> QED
  BY <1>1, <1>2, Invariance, PTL DEF Spec, LedgerSpec, Ledger!Spec
-----------------------------------------------------------------------------
\* Where amounts are whole cents, an entry of the abstract ledger is what
\* SettlementService assumes in its EntriesAssumption and computes plans from:
\* a positive amount, shares that add up to it or to one cent more, and a
\* refund that changes the status alone.  CreateExpense and UpdateExpense
\* store nothing else (ImplementsLedger), so the assumption is met by their code.
THEOREM EntriesAsAssumed ==
    ASSUME Sub = 1
    PROVE  \A x \in LedgerEntries :
              /\ x.amount \in Nat \ {0} /\ x.payer \in Users
              /\ x.status \in {"active", "refunded"}
              /\ [x EXCEPT !.status = "refunded"] \in LedgerEntries
              /\ \A u \in Users : x.shares[u] \in Int \cup {None}
              /\ LET takers == {u \in Users : x.shares[u] # None}
                 IN  SumFunctionOnSet(x.shares, takers) - x.amount \in {0, 1}
<1> SUFFICES ASSUME NEW x \in LedgerEntries
             PROVE  /\ x.amount \in Nat \ {0} /\ x.payer \in Users
                    /\ x.status \in {"active", "refunded"}
                    /\ [x EXCEPT !.status = "refunded"] \in LedgerEntries
                    /\ \A u \in Users : x.shares[u] \in Int \cup {None}
                    /\ LET takers == {u \in Users : x.shares[u] # None}
                       IN  SumFunctionOnSet(x.shares, takers) - x.amount \in {0, 1}
  OBVIOUS
<1>1. PICK in \in Writes, p \in Users, s \in {"active", "refunded"} :
         x = [amount |-> Round2(in.amount, Sub), splitType |-> in.splitType,
              payer |-> p, status |-> s, shares |-> SplitAmounts(in)]
  BY DEF LedgerEntries
<1>2. PICK amounts : amounts = SplitAmounts(in)
  OBVIOUS
<1>3. PICK takers : takers = Participants(amounts)
  OBVIOUS
<1>4. /\ \A u \in takers : amounts[u] \in Int
      /\ in.amount \in Int /\ Round2(in.amount, Sub) = in.amount
      /\ SumFunctionOnSet(amounts, takers) \in {in.amount, in.amount + 1}
  BY <1>2, <1>3, RowsAddUp
<1>5. in.amount > 0
  <2>1. Split(in).err = "none"
    BY DEF Writes
  <2> QED
    BY <1>4, <2>1 DEF Split, CalculateShares, InvalidSplit
<1>6. /\ x.amount = in.amount /\ x.payer = p /\ x.status = s /\ x.shares = amounts
      /\ [x EXCEPT !.status = "refunded"] =
            [amount |-> Round2(in.amount, Sub), splitType |-> in.splitType,
             payer |-> p, status |-> "refunded", shares |-> SplitAmounts(in)]
  BY <1>1, <1>2, <1>4
<1>7. [x EXCEPT !.status = "refunded"] \in LedgerEntries
  BY <1>6 DEF LedgerEntries
<1>8. takers = {u \in Users : x.shares[u] # None}
  BY <1>3, <1>6 DEF Participants
<1>9. \A u \in Users : x.shares[u] \in Int \cup {None}
  BY <1>4, <1>6, <1>8
<1>10. SumFunctionOnSet(x.shares, takers) - x.amount \in {0, 1}
  BY <1>4, <1>6
<1> QED
  BY <1>4, <1>5, <1>6, <1>7, <1>8, <1>9, <1>10
=============================================================================
