---------------------- MODULE SettlementService_proofs ----------------------
(***************************************************************************)
(* For any members, ledgers and requests: no two Settles count one row,    *)
(* what a Settle counts is pending until it commits, and plans appear and  *)
(* disappear whole.  For these, of the transfers in a plan nothing is      *)
(* needed but that they are a list.                                        *)
(*                                                                         *)
(* What a plan pays to whom follows from LoopInv of Transfers_proofs, the  *)
(* invariant of the loop that makes the plan, and from what the sums over  *)
(* the ledger are: in exact splits they cancel.                            *)
(***************************************************************************)
EXTENDS SettlementService, Transfers_proofs, TLAPS

RowFields == {"id", "from", "to", "amount", "status"}
TxFields  == {"op", "caller", "ids", "todo", "members", "paid", "plan", "doomed",
              "batch", "hit"}

\* The Generates whose rows are in the table, or have been.
Published == {Origin} \cup {r \in Requests : pc[r] \in {"list", "audit", "done"}}

IsRow(s) == /\ DOMAIN s = RowFields
            /\ s.status \in {"pending", "settled"}

\* The rows a request counts, or will.
Claimed(r) == tx[r].hit \cup reply[r].rows

\* What a request knows at each of its statements.
Held(r) ==
    LET op == tx[r].op
    IN  /\ pc[r] \in {"insert", "list"} => op = "generate"
        /\ pc[r] \in {"lock", "members", "paid", "owed", "delete", "deleteRows"} =>
              op = "generate"
        /\ pc[r] \in {"find", "caller", "update"} => op = "settle"
        /\ pc[r] \in {"commit", "audit"} => op \in {"generate", "settle"}
        /\ pc[r] \notin {"commit", "audit"} \/ op = "generate" => tx[r].hit = {}
        /\ pc[r] # "done" => reply[r].rows = {}
        /\ pc[r] = "commit" /\ op = "generate" =>
              \A s \in tx[r].batch : IsRow(s) /\ s.id[1] = r
        /\ pc[r] = "commit" => tx[r].hit \subseteq PendingIds
        /\ pc[r] \in {"audit", "done"} => Claimed(r) \cap PendingIds = {}
        /\ \A id \in Claimed(r) \cup tx[r].doomed : id[1] \in Published

\* Two requests count different rows, and lock different ones.
Apart(q, r) == /\ Claimed(q) \cap Claimed(r) = {}
               /\ LockedBy(q) \cap LockedBy(r) \cap Stored = {}

Shaped == /\ pc \in [Requests -> PcLabels]
          /\ DOMAIN tx = Requests /\ DOMAIN reply = Requests
          /\ \A r \in Requests : DOMAIN tx[r] = TxFields

IInv == /\ Shaped
        /\ \A s \in settlements : IsRow(s) /\ s.id[1] \in Published
        /\ \A r \in Requests : Held(r)
        /\ \A q, r \in Requests : q # r => Apart(q, r)
-----------------------------------------------------------------------------
LEMMA PendingIsStored == PendingIds \subseteq Stored
BY DEF PendingIds, Stored

LEMMA NoTxFields == /\ DOMAIN NoTx = TxFields
                    /\ NoTx.op = "none" /\ NoTx.hit = {} /\ NoTx.doomed = {}
BY DEF NoTx, TxFields

LEMMA ItemsAreRows ==
    ASSUME NEW g, NEW plan
    PROVE  \A s \in Items(g, plan) : IsRow(s) /\ s.id[1] = g /\ s.status = "pending"
BY DEF Items, IsRow, RowFields

LEMMA Initially == Init => IInv
<1> SUFFICES ASSUME Init PROVE IInv OBVIOUS
<1>1. Shaped BY NoTxFields DEF Init, Shaped, PcLabels
<1>2. \A s \in settlements : IsRow(s) /\ s.id[1] = Origin
  BY ItemsAreRows DEF Init
<1>3. \A r \in Requests : pc[r] = "idle" /\ tx[r] = NoTx /\ reply[r].rows = {}
  BY DEF Init
<1>4. \A r \in Requests : Held(r) BY <1>3, NoTxFields DEF Held, Claimed
<1>5. \A q, r \in Requests : Apart(q, r)
  BY <1>3, NoTxFields DEF Apart, Claimed, LockedBy
<1> QED BY <1>1, <1>2, <1>4, <1>5 DEF IInv, Published

\* A step of one request that leaves the table alone.
LEMMA Alone ==
    ASSUME IInv, NEW r \in Requests,
           Shaped', settlements' = settlements,
           \A q \in Requests \ {r} : /\ pc'[q] = pc[q] /\ tx'[q] = tx[q]
                                     /\ reply'[q] = reply[q],
           r \in Published => pc'[r] \in {"list", "audit", "done"},
           Held(r)',
           \A q \in Requests \ {r} : /\ Claimed(q) \cap Claimed(r)' = {}
                                     /\ LockedBy(q) \cap LockedBy(r)' \cap Stored = {}
    PROVE  IInv'
<1>1. Stored' = Stored /\ PendingIds' = PendingIds BY DEF Stored, PendingIds
<1>2. \A id : id[1] \in Published => id[1] \in Published'
  <2> SUFFICES ASSUME NEW g \in Published PROVE g \in Published' OBVIOUS
  <2>1. CASE g = Origin BY <2>1 DEF Published
  <2>2. CASE g \in Requests /\ g = r BY <2>2 DEF Published
  <2>3. CASE g \in Requests /\ g # r BY <2>3, OriginAssumption DEF Published
  <2> QED BY <2>1, <2>2, <2>3 DEF Published
<1>3. \A q \in Requests \ {r} : /\ Claimed(q)' = Claimed(q)
                                /\ LockedBy(q)' = LockedBy(q)
  BY DEF Claimed, LockedBy
<1>4. \A q \in Requests \ {r} : Held(q)'
  <2> SUFFICES ASSUME NEW q \in Requests \ {r} PROVE Held(q)' OBVIOUS
  <2>1. Held(q) BY DEF IInv
  <2>2. \A s : IsRow(s)' <=> IsRow(s) BY DEF IsRow
  <2> QED BY <1>1, <1>2, <1>3, <2>1, <2>2 DEF Held
<1>5. \A p, q \in Requests : p # q => Apart(p, q)'
  <2> SUFFICES ASSUME NEW p \in Requests, NEW q \in Requests, p # q PROVE Apart(p, q)'
    OBVIOUS
  <2>1. Apart(p, q) BY DEF IInv
  <2>2. CASE p = r BY <1>1, <1>3, <2>2 DEF Apart
  <2>3. CASE q = r BY <1>1, <1>3, <2>3 DEF Apart
  <2>4. CASE p # r /\ q # r BY <1>1, <1>3, <2>1, <2>4 DEF Apart
  <2> QED BY <2>2, <2>3, <2>4
<1>6. \A s \in settlements' : IsRow(s)' /\ s.id[1] \in Published'
  BY <1>2 DEF IInv, IsRow
<1> QED BY <1>4, <1>5, <1>6 DEF IInv

\* Such a step of a request that claims and locks nothing new.
LEMMA Quiet ==
    ASSUME IInv, NEW r \in Requests,
           Shaped', settlements' = settlements,
           \A q \in Requests \ {r} : /\ pc'[q] = pc[q] /\ tx'[q] = tx[q]
                                     /\ reply'[q] = reply[q],
           r \in Published => pc'[r] \in {"list", "audit", "done"},
           Held(r)', Claimed(r)' \subseteq Claimed(r), LockedBy(r)' \subseteq LockedBy(r)
    PROVE  IInv'
<1>1. \A q \in Requests \ {r} : /\ Claimed(q) \cap Claimed(r)' = {}
                                /\ LockedBy(q) \cap LockedBy(r)' \cap Stored = {}
  BY DEF IInv, Apart
<1> QED BY <1>1, Alone
-----------------------------------------------------------------------------
LEMMA Answered ==
    ASSUME IInv, NEW r \in Requests, NEW code, NEW rows, Answer(r, code, rows),
           rows \subseteq Claimed(r), rows \cap PendingIds = {}
    PROVE  IInv'
<1>1. Shaped' BY NoTxFields DEF IInv, Shaped, Answer, PcLabels
<1>2. pc'[r] = "done" /\ tx'[r] = NoTx /\ reply'[r].rows = rows
  BY DEF IInv, Shaped, Answer
<1>3. settlements' = settlements /\ PendingIds' = PendingIds BY DEF Answer, PendingIds
<1>4. \A q \in Requests \ {r} : /\ pc'[q] = pc[q] /\ tx'[q] = tx[q]
                                /\ reply'[q] = reply[q]
  BY DEF IInv, Shaped, Answer
<1>5. Claimed(r)' = rows BY <1>2, NoTxFields DEF Claimed
<1>6. \A id \in rows : id[1] \in Published'
  <2> SUFFICES ASSUME NEW id \in rows PROVE id[1] \in Published' OBVIOUS
  <2>1. id[1] \in Published BY DEF IInv, Held
  <2>2. Published \subseteq Published' BY <1>2, <1>4 DEF Published
  <2> QED BY <2>1, <2>2
<1>7. Held(r)' BY <1>2, <1>3, <1>5, <1>6, NoTxFields DEF Held
<1>8. LockedBy(r)' = {} BY <1>2 DEF LockedBy
<1> QED BY <1>1, <1>2, <1>3, <1>4, <1>5, <1>7, <1>8, Quiet DEF Answer

\* A statement that writes nothing to the table and counts no row.
LEMMA Moved ==
    ASSUME IInv, NEW r \in Requests, NEW label, Goto(r, label),
           settlements' = settlements,
           DOMAIN tx' = Requests, DOMAIN tx'[r] = TxFields,
           \A q \in Requests \ {r} : tx'[q] = tx[q],
           label \in PcLabels \ {"idle", "audit", "done"},
           pc[r] \notin {"commit", "list", "audit", "done"},
           tx'[r].hit = {},
           \A id \in tx'[r].doomed : id[1] \in Published,
           LockedBy(r)' \subseteq LockedBy(r),
           Held(r)'
    PROVE  IInv'
<1>1. Shaped' BY DEF IInv, Shaped, Goto
<1>2. /\ reply' = reply
      /\ \A q \in Requests \ {r} : pc'[q] = pc[q]
  BY DEF IInv, Shaped, Goto
<1>3. r \notin Published BY OriginAssumption DEF Published
<1>4. Claimed(r)' \subseteq Claimed(r) BY <1>2 DEF Claimed
<1> QED BY <1>1, <1>2, <1>3, <1>4, Quiet

LEMMA ReceiveStep ==
    ASSUME IInv, NEW r \in Requests, ReceiveGenerate(r) \/ ReceiveSettle(r)
    PROVE  IInv'
<1>0. r \in DOMAIN tx /\ DOMAIN tx = Requests /\ DOMAIN tx[r] = TxFields
  BY DEF IInv, Shaped
<1>1. /\ pc[r] = "idle" /\ pc'[r] \in {"lock", "find"} /\ settlements' = settlements
      /\ reply' = reply
      /\ pc' \in [Requests -> PcLabels]
      /\ \A q \in Requests \ {r} : pc'[q] = pc[q]
  BY DEF IInv, Shaped, ReceiveGenerate, ReceiveSettle, Goto, PcLabels
<1>2. /\ DOMAIN tx' = Requests /\ DOMAIN tx'[r] = TxFields
      /\ tx'[r].hit = tx[r].hit /\ tx'[r].doomed = tx[r].doomed
      /\ tx'[r].op = IF pc'[r] = "lock" THEN "generate" ELSE "settle"
      /\ \A q \in Requests \ {r} : tx'[q] = tx[q]
  <2>1. CASE ReceiveGenerate(r)
    BY <1>0, <2>1 DEF IInv, Shaped, ReceiveGenerate, Goto, TxFields
  <2>2. CASE ReceiveSettle(r)
    <3>1. PICK caller, ids : tx' = [tx EXCEPT ![r].op = "settle", ![r].caller = caller,
                                              ![r].ids = ids, ![r].todo = ids]
      BY <2>2 DEF ReceiveSettle
    <3>2. pc'[r] = "find" BY <2>2 DEF ReceiveSettle, IInv, Shaped, Goto
    <3> QED BY <1>0, <3>1, <3>2 DEF TxFields
  <2> QED BY <2>1, <2>2
<1>3. Shaped' BY <1>1, <1>2 DEF IInv, Shaped
<1>4. /\ tx[r].hit = {} /\ reply[r].rows = {}
      /\ \A id \in tx[r].doomed : id[1] \in Published
  BY <1>1 DEF IInv, Held
<1>5. r \notin Published BY <1>1, OriginAssumption DEF Published
<1>6. Published \subseteq Published' BY <1>1, <1>5 DEF Published
<1>7. Held(r)' BY <1>1, <1>2, <1>4, <1>6 DEF Held, Claimed
<1>8. Claimed(r)' = {} /\ LockedBy(r)' = {}
  BY <1>1, <1>2, <1>4 DEF Claimed, LockedBy
<1> QED BY <1>1, <1>2, <1>3, <1>5, <1>7, <1>8, Quiet
-----------------------------------------------------------------------------
\* A request whose statement is refused.
LEMMA Refused ==
    ASSUME IInv, NEW r \in Requests, NEW code, Answer(r, code, {})
    PROVE  IInv'
BY Answered

\* What a request knows as long as it counts no row.
LEMMA Counting ==
    ASSUME IInv, NEW r \in Requests, pc[r] \notin {"commit", "audit", "done"}
    PROVE  /\ tx[r].hit = {} /\ reply[r].rows = {}
           /\ \A id \in tx[r].doomed : id[1] \in Published
BY DEF IInv, Held

\* A statement of Generate before its INSERT, or of Settle before its UPDATE,
\* that touches no row of the table.
LEMMA Prepared ==
    ASSUME IInv, NEW r \in Requests, NEW label, Goto(r, label),
           settlements' = settlements,
           DOMAIN tx' = Requests, DOMAIN tx'[r] = TxFields,
           \A q \in Requests \ {r} : tx'[q] = tx[q],
           tx'[r].op = tx[r].op, tx'[r].hit = {},
           \A id \in tx'[r].doomed : id[1] \in Published,
           \/ /\ pc[r] \in {"lock", "members", "paid", "owed", "delete"}
              /\ label \in {"members", "paid", "owed", "delete", "deleteRows"}
           \/ /\ pc[r] \in {"find", "caller"}
              /\ label \in {"find", "caller", "update"}
    PROVE  IInv'
<1>1. pc'[r] = label /\ reply' = reply /\ label \in PcLabels \ {"idle", "audit", "done"}
  BY DEF IInv, Shaped, Goto, PcLabels
<1>2. LockedBy(r)' = {} BY <1>1 DEF LockedBy
<1>3. reply[r].rows = {} BY Counting
<1>4. /\ r \notin Published
      /\ \A q \in Requests \ {r} : pc'[q] = pc[q]
  BY OriginAssumption DEF Published, Goto, IInv, Shaped
<1>5. Published \subseteq Published' BY <1>4 DEF Published
<1>6. Held(r)
  BY DEF IInv
<1>7. Held(r)' BY <1>1, <1>3, <1>5, <1>6 DEF Held, Claimed
<1> QED BY <1>1, <1>2, <1>7, Moved

LEMMA GenerateStep ==
    ASSUME IInv, NEW r \in Requests,
           \/ LockGroup(r) \/ ReadMembers(r) \/ ReadPaid(r) \/ PlanTransfers(r)
           \/ DeleteBegins(r)
    PROVE  IInv'
<1>0. /\ r \in DOMAIN tx /\ DOMAIN tx = Requests /\ DOMAIN tx[r] = TxFields
  BY DEF IInv, Shaped
<1>1. CASE LockGroup(r)
  <2>1. CASE Answer(r, "conflict", {}) BY <2>1, Refused
  <2>2. CASE pc[r] = "lock" /\ Goto(r, "members") /\ tx' = tx /\ settlements' = settlements
    BY <1>0, <2>2, Counting, Prepared
  <2> QED BY <1>1, <2>1, <2>2 DEF LockGroup
<1>2. CASE ReadMembers(r)
  <2>1. CASE Answer(r, "tooFew", {}) BY <2>1, Refused
  <2>2. CASE /\ pc[r] = "members" /\ Goto(r, "paid") /\ settlements' = settlements
             /\ \E members : tx' = [tx EXCEPT ![r].members = members]
    <3>1. PICK members : tx' = [tx EXCEPT ![r].members = members] BY <2>2
    <3>2. /\ DOMAIN tx' = Requests /\ DOMAIN tx'[r] = TxFields
          /\ tx'[r].op = tx[r].op /\ tx'[r].hit = tx[r].hit /\ tx'[r].doomed = tx[r].doomed
          /\ \A q \in Requests \ {r} : tx'[q] = tx[q]
      BY <1>0, <3>1 DEF TxFields
    <3> QED BY <2>2, <3>2, Counting, Prepared
  <2> QED BY <1>2, <2>1, <2>2 DEF ReadMembers
<1>3. CASE ReadPaid(r)
  <2>1. /\ pc[r] = "paid" /\ Goto(r, "owed") /\ settlements' = settlements
        /\ tx' = [tx EXCEPT ![r].paid = SumPaid]
    BY <1>3 DEF ReadPaid
  <2>2. /\ DOMAIN tx' = Requests /\ DOMAIN tx'[r] = TxFields
        /\ tx'[r].op = tx[r].op /\ tx'[r].hit = tx[r].hit /\ tx'[r].doomed = tx[r].doomed
        /\ \A q \in Requests \ {r} : tx'[q] = tx[q]
    BY <1>0, <2>1 DEF TxFields
  <2> QED BY <2>1, <2>2, Counting, Prepared
<1>4. CASE PlanTransfers(r)
  <2>1. /\ pc[r] = "owed" /\ Goto(r, "delete") /\ settlements' = settlements
        /\ \E plan : tx' = [tx EXCEPT ![r].plan = plan, ![r].members = {}, ![r].paid = None]
    BY <1>4 DEF PlanTransfers
  <2>2. PICK plan : tx' = [tx EXCEPT ![r].plan = plan, ![r].members = {}, ![r].paid = None]
    BY <2>1
  <2>3. /\ DOMAIN tx' = Requests /\ DOMAIN tx'[r] = TxFields
        /\ tx'[r].op = tx[r].op /\ tx'[r].hit = tx[r].hit /\ tx'[r].doomed = tx[r].doomed
        /\ \A q \in Requests \ {r} : tx'[q] = tx[q]
    BY <1>0, <2>2 DEF TxFields
  <2> QED BY <2>1, <2>3, Counting, Prepared
<1>5. CASE DeleteBegins(r)
  <2>1. /\ pc[r] = "delete" /\ Goto(r, "deleteRows") /\ settlements' = settlements
        /\ tx' = [tx EXCEPT ![r].doomed = Stored]
    BY <1>5 DEF DeleteBegins
  <2>2. /\ DOMAIN tx' = Requests /\ DOMAIN tx'[r] = TxFields
        /\ tx'[r].op = tx[r].op /\ tx'[r].hit = tx[r].hit /\ tx'[r].doomed = Stored
        /\ \A q \in Requests \ {r} : tx'[q] = tx[q]
    BY <1>0, <2>1 DEF TxFields
  <2>3. \A id \in Stored : id[1] \in Published BY DEF Stored, IInv
  <2> QED BY <2>1, <2>2, <2>3, Counting, Prepared
<1> QED BY <1>1, <1>2, <1>3, <1>4, <1>5

LEMMA SettleStep ==
    ASSUME IInv, NEW r \in Requests, FindItem(r) \/ CheckCaller(r)
    PROVE  IInv'
<1>0. /\ r \in DOMAIN tx /\ DOMAIN tx = Requests /\ DOMAIN tx[r] = TxFields
  BY DEF IInv, Shaped
<1>1. CASE FindItem(r)
  <2>1. CASE Answer(r, "notFound", {}) BY <2>1, Refused
  <2>2. CASE /\ pc[r] = "find" /\ Goto(r, "caller") /\ settlements' = settlements
             /\ \E id : tx' = [tx EXCEPT ![r].todo = @ \ {id}]
    <3>1. PICK id : tx' = [tx EXCEPT ![r].todo = @ \ {id}] BY <2>2
    <3>2. /\ DOMAIN tx' = Requests /\ DOMAIN tx'[r] = TxFields
          /\ tx'[r].op = tx[r].op /\ tx'[r].hit = tx[r].hit /\ tx'[r].doomed = tx[r].doomed
          /\ \A q \in Requests \ {r} : tx'[q] = tx[q]
      BY <1>0, <3>1 DEF TxFields
    <3> QED BY <2>2, <3>2, Counting, Prepared
  <2> QED BY <1>1, <2>1, <2>2 DEF FindItem
<1>2. CASE CheckCaller(r)
  <2>1. CASE Answer(r, "notMember", {}) BY <2>1, Refused
  <2>2. CASE /\ pc[r] = "caller" /\ tx' = tx /\ settlements' = settlements
             /\ Goto(r, IF tx[r].todo = {} THEN "update" ELSE "find")
    <3>1. PICK label \in {"update", "find"} : Goto(r, label) BY <2>2
    <3> QED BY <1>0, <2>2, <3>1, Counting, Prepared
  <2> QED BY <1>2, <2>1, <2>2 DEF CheckCaller
<1> QED BY <1>1, <1>2
-----------------------------------------------------------------------------
\* A DELETE waits for the rows that others have locked.
LEMMA DeleteRowsStep ==
    ASSUME IInv, NEW r \in Requests, DeleteRows(r)
    PROVE  IInv'
<1>1. /\ pc[r] = "deleteRows" /\ pc'[r] = "insert" /\ tx' = tx /\ reply' = reply
      /\ settlements' = settlements /\ Free(r, tx[r].doomed)
      /\ Shaped'
      /\ \A q \in Requests \ {r} : pc'[q] = pc[q]
  BY DEF IInv, Shaped, DeleteRows, Goto, PcLabels
<1>2. r \notin Published BY <1>1, OriginAssumption DEF Published
<1>3. Published \subseteq Published' BY <1>1, <1>2 DEF Published
<1>4. Held(r) /\ tx[r].op = "generate" BY <1>1 DEF IInv, Held
<1>5. Held(r)' BY <1>1, <1>3, <1>4 DEF Held, Claimed
<1>6. LockedBy(r)' = tx[r].doomed BY <1>1, <1>4 DEF LockedBy
<1>7. \A q \in Requests \ {r} : /\ Claimed(q) \cap Claimed(r)' = {}
                                /\ LockedBy(q) \cap LockedBy(r)' \cap Stored = {}
  <2> SUFFICES ASSUME NEW q \in Requests \ {r}
               PROVE  /\ Claimed(q) \cap Claimed(r)' = {}
                      /\ LockedBy(q) \cap LockedBy(r)' \cap Stored = {}
    OBVIOUS
  <2>1. Claimed(r)' = Claimed(r) BY <1>1 DEF Claimed
  <2>2. Claimed(q) \cap Claimed(r) = {} BY DEF IInv, Apart
  <2> QED BY <1>1, <1>6, <2>1, <2>2 DEF Free
<1> QED BY <1>1, <1>2, <1>5, <1>7, Alone

LEMMA InsertItemsStep ==
    ASSUME IInv, NEW r \in Requests, InsertItems(r)
    PROVE  IInv'
<1>0. /\ r \in DOMAIN tx /\ DOMAIN tx = Requests /\ DOMAIN tx[r] = TxFields
  BY DEF IInv, Shaped
<1> DEFINE items == Items(r, tx[r].plan)
<1>1. /\ pc[r] = "insert" /\ Goto(r, "commit") /\ settlements' = settlements
      /\ tx' = [tx EXCEPT ![r].batch = items, ![r].plan = << >>]
  BY DEF InsertItems
<1>2. \A s \in items : IsRow(s) /\ s.id[1] = r BY ItemsAreRows
<1> HIDE DEF items
<1>3. /\ DOMAIN tx' = Requests /\ DOMAIN tx'[r] = TxFields
      /\ tx'[r].op = tx[r].op /\ tx'[r].hit = tx[r].hit /\ tx'[r].doomed = tx[r].doomed
      /\ tx'[r].batch = items
      /\ \A q \in Requests \ {r} : tx'[q] = tx[q]
  BY <1>0, <1>1 DEF TxFields
<1>4. /\ pc'[r] = "commit" /\ reply' = reply
      /\ \A q \in Requests \ {r} : pc'[q] = pc[q]
  BY <1>1 DEF Goto, IInv, Shaped
<1>5. r \notin Published BY <1>1, OriginAssumption DEF Published
<1>6. Published \subseteq Published' BY <1>4, <1>5 DEF Published
<1>7. Held(r) /\ tx[r].op = "generate" /\ tx[r].hit = {} BY <1>1 DEF IInv, Held
<1>8. \A s \in items : IsRow(s)' /\ s.id[1] = r BY <1>2 DEF IsRow
<1>9. Held(r)' BY <1>1, <1>3, <1>4, <1>6, <1>7, <1>8 DEF Held, Claimed
<1>10. LockedBy(r)' \subseteq LockedBy(r) BY <1>1, <1>3, <1>4, <1>7 DEF LockedBy
<1> QED BY <1>1, <1>3, <1>7, <1>9, <1>10, Counting, Moved DEF PcLabels

\* Whoever counts a row that is pending has it locked.
LEMMA PendingIsLocked ==
    ASSUME IInv, NEW q \in Requests
    PROVE  Claimed(q) \cap PendingIds \subseteq LockedBy(q) \cap Stored
<1>1. Held(q) BY DEF IInv
<1>2. CASE pc[q] \in {"audit", "done"} BY <1>1, <1>2 DEF Held
<1>3. CASE pc[q] = "commit"
  <2>1. Claimed(q) = tx[q].hit BY <1>1, <1>3 DEF Held, Claimed
  <2>2. CASE tx[q].op = "generate" BY <1>1, <2>1, <2>2 DEF Held
  <2>3. CASE tx[q].op = "settle"
    BY <1>3, <2>1, <2>3, PendingIsStored DEF LockedBy
  <2> QED BY <1>1, <1>3, <2>2, <2>3 DEF Held
<1>4. CASE pc[q] \notin {"audit", "done", "commit"}
  BY <1>1, <1>4 DEF Held, Claimed
<1> QED BY <1>2, <1>3, <1>4

\* An UPDATE waits for them too, so it counts no row that another one counts.
LEMMA UpdateItemsStep ==
    ASSUME IInv, NEW r \in Requests, UpdateItems(r)
    PROVE  IInv'
<1>0. /\ r \in DOMAIN tx /\ DOMAIN tx = Requests /\ DOMAIN tx[r] = TxFields
  BY DEF IInv, Shaped
<1> DEFINE rows == tx[r].ids \cap PendingIds
<1>1. /\ pc[r] = "update" /\ Goto(r, "commit") /\ settlements' = settlements
      /\ tx' = [tx EXCEPT ![r].hit = rows] /\ Free(r, rows)
  BY DEF UpdateItems
<1>2. rows \subseteq PendingIds OBVIOUS
<1> HIDE DEF rows
<1>3. /\ DOMAIN tx' = Requests /\ DOMAIN tx'[r] = TxFields
      /\ tx'[r].op = tx[r].op /\ tx'[r].hit = rows /\ tx'[r].doomed = tx[r].doomed
      /\ \A q \in Requests \ {r} : tx'[q] = tx[q]
  BY <1>0, <1>1 DEF TxFields
<1>4. /\ pc'[r] = "commit" /\ reply' = reply /\ Shaped'
      /\ \A q \in Requests \ {r} : pc'[q] = pc[q]
  BY <1>1, <1>3 DEF Goto, IInv, Shaped, PcLabels
<1>5. r \notin Published BY <1>1, OriginAssumption DEF Published
<1>6. Published \subseteq Published' BY <1>4, <1>5 DEF Published
<1>7. /\ Held(r) /\ tx[r].op = "settle" /\ reply[r].rows = {}
      /\ \A id \in tx[r].doomed : id[1] \in Published
  BY <1>1 DEF IInv, Held
<1>8. PendingIds' = PendingIds BY <1>1 DEF PendingIds
<1>9. \A id \in PendingIds : id[1] \in Published BY DEF IInv, PendingIds
<1>10. Held(r)' BY <1>2, <1>3, <1>4, <1>6, <1>7, <1>8, <1>9 DEF Held, Claimed
<1>11. Claimed(r)' = rows /\ LockedBy(r)' = rows
  BY <1>3, <1>4, <1>7 DEF Claimed, LockedBy
<1>12. \A q \in Requests \ {r} : /\ Claimed(q) \cap Claimed(r)' = {}
                                 /\ LockedBy(q) \cap LockedBy(r)' \cap Stored = {}
  <2> SUFFICES ASSUME NEW q \in Requests \ {r}
               PROVE  /\ Claimed(q) \cap Claimed(r)' = {}
                      /\ LockedBy(q) \cap LockedBy(r)' \cap Stored = {}
    OBVIOUS
  <2>1. LockedBy(q) \cap rows \cap Stored = {} BY <1>1 DEF Free
  <2>2. Claimed(q) \cap PendingIds \subseteq LockedBy(q) \cap Stored BY PendingIsLocked
  <2> QED BY <1>2, <1>11, <2>1, <2>2
<1> QED BY <1>1, <1>3, <1>4, <1>5, <1>10, <1>12, Alone
-----------------------------------------------------------------------------
\* What a commit does to its request and leaves of the others.
LEMMA Committed ==
    ASSUME IInv, NEW r \in Requests, Commit(r)
    PROVE  /\ Shaped' /\ reply' = reply
           /\ tx'[r].op = tx[r].op /\ tx'[r].hit = tx[r].hit /\ tx'[r].doomed = {}
           /\ tx[r].op = "generate" => pc'[r] = "list"
           /\ tx[r].op = "settle" => pc'[r] = "audit"
           /\ \A q \in Requests \ {r} : /\ pc'[q] = pc[q] /\ tx'[q] = tx[q]
                                        /\ Claimed(q)' = Claimed(q)
                                        /\ LockedBy(q)' = LockedBy(q)
           /\ LockedBy(r)' = {} /\ Claimed(r)' = Claimed(r)
           /\ r \notin Published /\ Published' = Published \cup {r}
           /\ tx[r].op \in {"generate", "settle"}
<1>0. /\ r \in DOMAIN tx /\ DOMAIN tx = Requests /\ DOMAIN tx[r] = TxFields
  BY DEF IInv, Shaped
<1>1. tx[r].op \in {"generate", "settle"} BY DEF IInv, Held, Commit
<1>2. /\ reply' = reply /\ pc' \in [Requests -> PcLabels]
      /\ tx[r].op = "generate" => pc'[r] = "list"
      /\ tx[r].op = "settle" => pc'[r] = "audit"
      /\ \A q \in Requests \ {r} : pc'[q] = pc[q]
  BY DEF IInv, Shaped, Commit, Goto, PcLabels
<1>3. /\ DOMAIN tx' = Requests /\ DOMAIN tx'[r] = TxFields
      /\ tx'[r] = [NoTx EXCEPT !.op = tx[r].op, !.hit = tx[r].hit]
      /\ \A q \in Requests \ {r} : tx'[q] = tx[q]
  BY <1>0, NoTxFields DEF Commit
<1>4. tx'[r].op = tx[r].op /\ tx'[r].hit = tx[r].hit /\ tx'[r].doomed = {}
  BY <1>3, NoTxFields DEF TxFields
<1>5. Shaped' BY <1>2, <1>3 DEF IInv, Shaped
<1>6. \A q \in Requests \ {r} : /\ Claimed(q)' = Claimed(q)
                                /\ LockedBy(q)' = LockedBy(q)
  BY <1>2, <1>3 DEF Claimed, LockedBy
<1>7. LockedBy(r)' = {} /\ Claimed(r)' = Claimed(r)
  BY <1>1, <1>2, <1>4 DEF LockedBy, Claimed
<1>8. r \notin Published BY OriginAssumption DEF Published, Commit
<1>9. Published' = Published \cup {r} BY <1>1, <1>2, <1>8 DEF Published
<1> QED BY <1>1, <1>2, <1>3, <1>4, <1>5, <1>6, <1>7, <1>8, <1>9

\* What a request has locked was in the table once.
LEMMA LockedIsPublished ==
    ASSUME IInv, NEW q \in Requests
    PROVE  \A id \in LockedBy(q) : id[1] \in Published
<1>1. LockedBy(q) \subseteq tx[q].doomed \cup tx[q].hit BY DEF LockedBy
<1> QED BY <1>1 DEF IInv, Held, Claimed

\* From the commit of others a request learns nothing but what happens to the
\* rows it counts.
LEMMA OthersCommitted ==
    ASSUME IInv, NEW r \in Requests, Commit(r), NEW q \in Requests \ {r},
           pc[q] = "commit" => tx[q].hit \subseteq PendingIds',
           pc[q] \in {"audit", "done"} => Claimed(q) \cap PendingIds' = {}
    PROVE  Held(q)'
<1>1. Held(q) BY DEF IInv
<1>2. \A s : IsRow(s)' <=> IsRow(s) BY DEF IsRow
<1> QED BY <1>1, <1>2, Committed DEF Held

LEMMA PlanCommitted ==
    ASSUME IInv, NEW r \in Requests, Commit(r), tx[r].op = "generate"
    PROVE  IInv'
<1>1. /\ settlements' = {s \in settlements : s.id \notin tx[r].doomed} \cup tx[r].batch
      /\ pc[r] = "commit"
  BY DEF Commit
<1>2. \A s \in tx[r].batch : IsRow(s) /\ s.id[1] = r BY <1>1 DEF IInv, Held
<1>3. \A id \in PendingIds' : id \in PendingIds \ tx[r].doomed \/ id[1] = r
  BY <1>1, <1>2 DEF PendingIds
<1>4. PendingIds \ tx[r].doomed \subseteq PendingIds' BY <1>1 DEF PendingIds
<1>5. \A id \in Stored' : id \in Stored \/ id[1] = r BY <1>1, <1>2 DEF Stored
<1>6. \A s \in settlements' : IsRow(s)' /\ s.id[1] \in Published'
  BY <1>1, <1>2, Committed DEF IInv, IsRow
<1>7. \A q \in Requests \ {r} : Held(q)'
  <2> SUFFICES ASSUME NEW q \in Requests \ {r} PROVE Held(q)' OBVIOUS
  <2>1. Held(q) /\ Apart(q, r) BY DEF IInv
  <2>2. ASSUME pc[q] = "commit" PROVE tx[q].hit \subseteq PendingIds'
    <3>1. CASE tx[q].op = "generate" BY <2>1, <3>1 DEF Held
    <3>2. CASE tx[q].op = "settle"
      <4>1. LockedBy(q) = tx[q].hit /\ LockedBy(r) = tx[r].doomed
        BY <1>1, <2>2, <3>2 DEF LockedBy
      <4>2. tx[q].hit \subseteq PendingIds BY <2>1, <2>2 DEF Held
      <4>3. tx[q].hit \cap tx[r].doomed = {}
        BY <2>1, <4>1, <4>2, PendingIsStored DEF Apart
      <4> QED BY <1>4, <4>2, <4>3
    <3> QED BY <2>1, <2>2, <3>1, <3>2 DEF Held
  <2>3. ASSUME pc[q] \in {"audit", "done"} PROVE Claimed(q) \cap PendingIds' = {}
    <3>1. Claimed(q) \cap PendingIds = {} BY <2>1, <2>3 DEF Held
    <3>2. \A id \in Claimed(q) : id[1] # r BY <2>1, Committed DEF Held
    <3> QED BY <1>3, <3>1, <3>2
  <2> QED BY <2>2, <2>3, OthersCommitted
<1>8. Held(r)'
  <2>1. Held(r) BY DEF IInv
  <2>2. Claimed(r) = {} BY <1>1, <2>1 DEF Held, Claimed
  <2>3. tx[r].hit = {} /\ reply[r].rows = {} BY <2>2 DEF Claimed
  <2> QED BY <2>2, <2>3, Committed DEF Held
<1>9. \A p, q \in Requests : p # q => Apart(p, q)'
  <2> SUFFICES ASSUME NEW p \in Requests, NEW q \in Requests, p # q PROVE Apart(p, q)'
    OBVIOUS
  <2>1. Apart(p, q) BY DEF IInv
  <2>2. Claimed(p)' = Claimed(p) /\ Claimed(q)' = Claimed(q) BY Committed
  <2>3. CASE p = r \/ q = r BY <2>1, <2>2, <2>3, Committed DEF Apart
  <2>4. CASE p # r /\ q # r
    <3>1. LockedBy(p)' = LockedBy(p) /\ LockedBy(q)' = LockedBy(q) BY <2>4, Committed
    <3>2. \A id \in LockedBy(p) : id[1] # r BY LockedIsPublished, Committed
    <3> QED BY <1>5, <2>1, <2>2, <3>1, <3>2 DEF Apart
  <2> QED BY <2>3, <2>4
<1> QED BY <1>6, <1>7, <1>8, <1>9, Committed DEF IInv

LEMMA SettleCommitted ==
    ASSUME IInv, NEW r \in Requests, Commit(r), tx[r].op = "settle"
    PROVE  IInv'
<1> DEFINE after(s) == IF s.id \in tx[r].hit THEN [s EXCEPT !.status = "settled"] ELSE s
<1>1. settlements' = {after(s) : s \in settlements} /\ pc[r] = "commit"
  BY DEF Commit
<1>2. \A s \in settlements : /\ IsRow(after(s)) /\ after(s).id = s.id
                             /\ after(s).status = "pending" <=>
                                   s.status = "pending" /\ s.id \notin tx[r].hit
  BY DEF IInv, IsRow, RowFields
<1> HIDE DEF after
<1>3. Stored' = Stored BY <1>1, <1>2 DEF Stored
<1>4. \A id : id \in PendingIds' <=> \E s \in settlements : /\ after(s).status = "pending"
                                                            /\ id = s.id
  BY <1>1, <1>2 DEF PendingIds
<1>5. PendingIds' = PendingIds \ tx[r].hit BY <1>2, <1>4 DEF PendingIds
<1>6. \A s \in settlements' : IsRow(s)' /\ s.id[1] \in Published'
  BY <1>1, <1>2, Committed DEF IInv, IsRow
<1>7. \A q \in Requests \ {r} : Held(q)'
  <2> SUFFICES ASSUME NEW q \in Requests \ {r} PROVE Held(q)' OBVIOUS
  <2>1. Held(q) /\ Apart(q, r) BY DEF IInv
  <2>2. tx[q].hit \cap tx[r].hit = {} BY <2>1 DEF Apart, Claimed
  <2> QED BY <1>5, <2>1, <2>2, OthersCommitted DEF Held
<1>8. Held(r)'
  <2>1. Held(r) BY DEF IInv
  <2>2. Claimed(r) = tx[r].hit /\ reply[r].rows = {} BY <1>1, <2>1 DEF Held, Claimed
  <2>3. Claimed(r) \cap PendingIds' = {} BY <1>5, <2>2
  <2>4. \A id \in Claimed(r) : id[1] \in Published' BY <2>1, Committed DEF Held
  <2> QED BY <2>2, <2>3, <2>4, Committed DEF Held
<1>9. \A p, q \in Requests : p # q => Apart(p, q)'
  <2> SUFFICES ASSUME NEW p \in Requests, NEW q \in Requests, p # q PROVE Apart(p, q)'
    OBVIOUS
  <2>1. Apart(p, q) BY DEF IInv
  <2>2. Claimed(p)' = Claimed(p) /\ Claimed(q)' = Claimed(q) BY Committed
  <2>3. CASE p = r \/ q = r BY <2>1, <2>2, <2>3, Committed DEF Apart
  <2>4. CASE p # r /\ q # r BY <1>3, <2>1, <2>2, <2>4, Committed DEF Apart
  <2> QED BY <2>3, <2>4
<1> QED BY <1>6, <1>7, <1>8, <1>9, Committed DEF IInv
-----------------------------------------------------------------------------
LEMMA ListItemsStep ==
    ASSUME IInv, NEW r \in Requests, ListItems(r)
    PROVE  IInv'
<1>1. /\ pc[r] = "list" /\ pc'[r] = "audit" /\ tx' = tx /\ reply' = reply
      /\ settlements' = settlements /\ Shaped'
      /\ \A q \in Requests \ {r} : pc'[q] = pc[q]
  BY DEF IInv, Shaped, ListItems, Goto, PcLabels
<1>2. Published' = Published BY <1>1 DEF Published
<1>3. Held(r) /\ tx[r].op = "generate" BY <1>1 DEF IInv, Held
<1>4. Claimed(r)' = Claimed(r) /\ Claimed(r) = {} BY <1>1, <1>3 DEF Held, Claimed
<1>5. LockedBy(r)' = {} BY <1>1 DEF LockedBy
<1>6. Held(r)' BY <1>1, <1>2, <1>3, <1>4 DEF Held
<1> QED BY <1>1, <1>4, <1>5, <1>6, Quiet

LEMMA AuditStep ==
    ASSUME IInv, NEW r \in Requests, Audit(r)
    PROVE  IInv'
<1>1. tx[r].hit \subseteq Claimed(r) /\ tx[r].hit \cap PendingIds = {}
  BY DEF IInv, Held, Claimed, Audit
<1>2. PICK code : Answer(r, code, tx[r].hit) BY DEF Audit
<1> QED BY <1>1, <1>2, Answered

LEMMA Unchanged ==
    ASSUME IInv, UNCHANGED << settlements, pc, tx, reply >>
    PROVE  IInv'
<1>1. /\ Stored' = Stored /\ PendingIds' = PendingIds /\ Published' = Published
      /\ Shaped' = Shaped
      /\ \A r \in Requests : Claimed(r)' = Claimed(r) /\ LockedBy(r)' = LockedBy(r)
  BY DEF Stored, PendingIds, Published, Shaped, Claimed, LockedBy
<1>2. \A s : IsRow(s)' = IsRow(s) BY DEF IsRow
<1>3. \A r \in Requests : Held(r)'
  <2> SUFFICES ASSUME NEW r \in Requests PROVE Held(r)' OBVIOUS
  <2>1. Held(r) BY DEF IInv
  <2> QED BY <1>1, <1>2, <2>1 DEF Held
<1>4. \A q, r \in Requests : q # r => Apart(q, r)' BY <1>1 DEF IInv, Apart
<1>5. \A s \in settlements' : IsRow(s)' /\ s.id[1] \in Published'
  BY <1>1, <1>2 DEF IInv
<1> QED BY <1>1, <1>3, <1>4, <1>5 DEF IInv

LEMMA Inductive == IInv /\ [Next]_vars => IInv'
<1> SUFFICES ASSUME IInv, [Next]_vars PROVE IInv' OBVIOUS
<1>1. CASE UNCHANGED vars BY <1>1, Unchanged DEF vars
<1>2. CASE GroupStep \/ LedgerStep BY <1>2, Unchanged DEF GroupStep, LedgerStep
<1>3. ASSUME NEW r \in Requests,
             ReceiveGenerate(r) \/ ReceiveSettle(r) \/ Step(r) \/ Fail(r)
      PROVE  IInv'
  <2>1. CASE ReceiveGenerate(r) \/ ReceiveSettle(r) BY <2>1, ReceiveStep
  <2>2. CASE LockGroup(r) \/ ReadMembers(r) \/ ReadPaid(r) \/ PlanTransfers(r)
             \/ DeleteBegins(r)
    BY <2>2, GenerateStep
  <2>3. CASE DeleteRows(r) BY <2>3, DeleteRowsStep
  <2>4. CASE InsertItems(r) BY <2>4, InsertItemsStep
  <2>5. CASE FindItem(r) \/ CheckCaller(r) BY <2>5, SettleStep
  <2>6. CASE UpdateItems(r) BY <2>6, UpdateItemsStep
  <2>7. CASE Commit(r) BY <2>7, PlanCommitted, SettleCommitted, Committed
  <2>8. CASE ListItems(r) BY <2>8, ListItemsStep
  <2>9. CASE Audit(r) BY <2>9, AuditStep
  <2>10. CASE Fail(r) BY <2>10, Refused DEF Fail
  <2> QED BY <1>3, <2>1, <2>2, <2>3, <2>4, <2>5, <2>6, <2>7, <2>8, <2>9, <2>10 DEF Step
<1> QED BY <1>1, <1>2, <1>3 DEF Next
-----------------------------------------------------------------------------
\* The inductive invariant: requests in flight count and lock different rows.
THEOREM Invariance == Spec => []IInv
<1> QED BY Initially, Inductive, PTL DEF Spec

\* Settle: whatever the UPDATEs overlap with, no row is counted by two of them.
THEOREM RowsSettledOnce == Spec => []SettledOnce
<1>1. IInv => SettledOnce BY DEF IInv, Apart, Claimed, SettledOnce
<1> QED BY <1>1, Invariance, PTL

\* Settle: what its UPDATE has counted is there and pending until it commits.
THEOREM CountsAreTrue == Spec => CountIsTrue
<1> DEFINE Counts == \A r \in Requests :
                        pc[r] = "commit" /\ pc'[r] = "audit" => tx[r].hit \subseteq PendingIds
<1>1. IInv => Counts BY DEF IInv, Held
<1>2. IInv /\ [Next]_vars => [Counts]_vars BY <1>1
<1> HIDE DEF Counts
<1>3. Spec => [][Counts]_vars BY <1>2, Invariance, PTL DEF Spec
<1> QED BY <1>3 DEF CountIsTrue, Counts
-----------------------------------------------------------------------------
\* A sequence of anything.
IsSeq(p) == \E X : p \in Seq(X)

\* The types, without the uniqueness of ids; a request that will compute a plan has
\* read what was paid.
Types == /\ Group!LifecycleTypeOK /\ Ledger!LedgerTypeOK
         /\ settlements \subseteq Settlement
         /\ pc \in [Requests -> PcLabels]
         /\ tx \in [Requests -> TxType]
         /\ reply \in [Requests -> [code : Codes, rows : SUBSET Ids]]
         /\ \A r \in Requests : pc[r] = "owed" => tx[r].paid \in [Users -> Nat]

\* What an entry of the ledger is, as far as the sums need it.
LEMMA EntryFacts ==
    ASSUME Ledger!LedgerTypeOK, NEW e \in Expenses, ledger[e] # None
    PROVE  /\ ledger[e].amount \in Nat \ {0} /\ ledger[e].payer \in Users
           /\ ledger[e].status \in {"active", "refunded"}
           /\ \A u \in Users : ledger[e].shares[u] \in Int \cup {None}
<1>1. ledger[e] \in Entries BY DEF Ledger!LedgerTypeOK
<1> QED BY <1>1, EntriesAssumption

\* The sums of the two queries.
LEMMA SumsAreAmounts ==
    ASSUME Ledger!LedgerTypeOK
    PROVE  SumPaid \in [Users -> Nat] /\ SumOwed \in [Users -> Int]
<1> SUFFICES ASSUME NEW u \in Users PROVE SumPaid[u] \in Nat /\ SumOwed[u] \in Int
  BY DEF SumPaid, SumOwed
<1> DEFINE P == {x \in Expenses : /\ ledger[x] # None
                                  /\ ledger[x].status = "active"
                                  /\ ledger[x].payer = u}
           O == {x \in Expenses : /\ ledger[x] # None
                                  /\ ledger[x].status = "active"
                                  /\ ledger[x].shares[u] # None}
           p == [e \in P |-> ledger[e].amount]
           o == [e \in O |-> ledger[e].shares[u]]
<1>1. SumPaid[u] = SumFunctionOnSet(p, P) /\ SumOwed[u] = SumFunctionOnSet(o, O)
  BY DEF SumPaid, SumOwed, SumFunction
<1>2. IsFiniteSet(P) /\ IsFiniteSet(O)
  <2>1. P \in SUBSET Expenses /\ O \in SUBSET Expenses OBVIOUS
  <2> HIDE DEF P, O
  <2> QED BY <2>1, UsersAssumption, FS_Subset
<1>3. (\A e \in P : p[e] \in Nat) /\ \A e \in O : o[e] \in Int
  BY EntryFacts
<1> HIDE DEF P, O, p, o
<1>4. SumFunctionOnSet(p, P) \in Nat BY <1>2, <1>3, SetSumNat
<1>5. SumFunctionOnSet(o, O) \in Int BY <1>2, <1>3, SetSumType
<1> QED BY <1>1, <1>4, <1>5

\* What OptimizeTransfers returns is a list of transfers among the members.
LEMMA PlanIsTyped ==
    ASSUME NEW b, DOMAIN b \in SUBSET Users, \A u \in DOMAIN b : b[u] \in Int,
           NEW plan \in Plans(b)
    PROVE  plan \in Seq(Transfer) /\ IsSeq(plan)
<1>1. WholeBalances(b) BY UsersAssumption, FS_Subset DEF WholeBalances
<1>2. PICK m : LoopInv(b, m) /\ plan = m.transfers BY <1>1, PlansAreFinished
<1>3. plan \in Seq(Payments(DOMAIN b)) BY <1>2 DEF LoopInv, LoopState
<1>4. Payments(DOMAIN b) \subseteq Transfer BY DEF Payments, Transfer
<1>5. \A A, B : A \subseteq B => Seq(A) \subseteq Seq(B) OBVIOUS
<1> QED BY <1>3, <1>4, <1>5 DEF IsSeq

LEMMA ItemsAreSettlements ==
    ASSUME NEW g \in Generations, NEW plan \in Seq(Transfer)
    PROVE  Items(g, plan) \in SUBSET Settlement
<1>1. \A k \in 1..Len(plan) : << g, k >> \in Ids /\ plan[k] \in Transfer
  <2>1. \A k \in 1..Len(plan) : k \in Nat \ {0} OBVIOUS
  <2>2. \A k \in 1..Len(plan) : plan[k] \in Transfer OBVIOUS
  <2> QED BY <2>1, <2>2 DEF Ids
<1>2. \A t \in Transfer : t.from \in Users /\ t.to \in Users /\ t.amount \in Nat \ {0}
  BY DEF Transfer
<1>3. \A k \in 1..Len(plan) :
        [id |-> << g, k >>, from |-> plan[k].from, to |-> plan[k].to,
         amount |-> plan[k].amount, status |-> "pending"] \in Settlement
  BY <1>1, <1>2 DEF Settlement
<1> QED BY <1>3 DEF Items

LEMMA StoredAreIds ==
    ASSUME settlements \subseteq Settlement
    PROVE  Stored \subseteq Ids /\ PendingIds \subseteq Ids
BY DEF Stored, PendingIds, Settlement

LEMMA NoTxTyped == NoTx \in TxType
<1>1. << >> \in Seq(Transfer) OBVIOUS
<1> QED BY <1>1 DEF NoTx, TxType

LEMMA InitTypes == Init => Types
<1> SUFFICES ASSUME Init PROVE Types OBVIOUS
<1>1. Group!LifecycleTypeOK
  BY DEF Init, Group!Init, Group!LifecycleTypeOK, Group!GroupStatus, Group!MemberStatus
<1>2. Ledger!LedgerTypeOK BY DEF Init, Ledger!Init
<1>3. settlements \subseteq Settlement
  <2> DEFINE b == [u \in Founders |-> SumPaid[u] - SumOwed[u]]
  <2>1. PICK plan \in {<< >>} \cup Plans(b) : settlements = Items(Origin, plan)
    BY DEF Init
  <2>2. plan \in Seq(Transfer)
    <3>1. DOMAIN b \in SUBSET Users /\ \A u \in DOMAIN b : b[u] \in Int
      BY <1>2, SumsAreAmounts, GroupAssumption
    <3>2. << >> \in Seq(Transfer) OBVIOUS
    <3> HIDE DEF b
    <3> QED BY <2>1, <3>1, <3>2, PlanIsTyped
  <2>3. Origin \in Generations BY DEF Generations
  <2> QED BY <2>1, <2>2, <2>3, ItemsAreSettlements
<1>4. /\ pc \in [Requests -> PcLabels] /\ tx \in [Requests -> TxType]
      /\ reply \in [Requests -> [code : Codes, rows : SUBSET Ids]]
  BY NoTxTyped DEF Init, PcLabels, Codes
<1>5. \A r \in Requests : pc[r] # "owed" BY DEF Init
<1> QED BY <1>1, <1>2, <1>3, <1>4, <1>5 DEF Types

\* The group and the ledger keep their types.
LEMMA EnvironmentTypes ==
    /\ Group!LifecycleTypeOK /\ Group!Next => Group!LifecycleTypeOK'
    /\ Ledger!LedgerTypeOK /\ Ledger!Next => Ledger!LedgerTypeOK'
<1>1. ASSUME Group!LifecycleTypeOK, Group!Next PROVE Group!LifecycleTypeOK'
  BY <1>1 DEF Group!LifecycleTypeOK, Group!Next, Group!Join, Group!Leave, Group!Close,
              Group!Reopen, Group!GroupStatus, Group!MemberStatus
<1>2. ASSUME Ledger!LedgerTypeOK, Ledger!Next PROVE Ledger!LedgerTypeOK'
  <2>1. PICK e \in Expenses : Ledger!Add(e) \/ Ledger!Revise(e) \/ Ledger!Refund(e)
    BY <1>2 DEF Ledger!Next
  <2>2. PICK x \in Entries : ledger' = [ledger EXCEPT ![e] = x]
    <3>1. CASE Ledger!Add(e) BY <3>1 DEF Ledger!Add
    <3>2. CASE Ledger!Revise(e) BY <3>2 DEF Ledger!Revise
    <3>3. CASE Ledger!Refund(e)
      <4>1. ledger[e] \in Entries BY <1>2, <3>3 DEF Ledger!LedgerTypeOK, Ledger!Refund
      <4>2. [ledger[e] EXCEPT !.status = "refunded"] \in Entries BY <4>1, EntriesAssumption
      <4>3. ledger' = [ledger EXCEPT ![e] = [ledger[e] EXCEPT !.status = "refunded"]]
        BY <1>2, <3>3 DEF Ledger!LedgerTypeOK, Ledger!Refund
      <4> QED BY <4>2, <4>3
    <3> QED BY <2>1, <3>1, <3>2, <3>3
  <2> QED BY <1>2, <2>2 DEF Ledger!LedgerTypeOK
<1> QED BY <1>1, <1>2

LEMMA AnswerTypes ==
    ASSUME Types, NEW r \in Requests, NEW code \in Codes, NEW rows \in SUBSET Ids,
           Answer(r, code, rows)
    PROVE  Types'
<1>1. /\ pc' \in [Requests -> PcLabels] /\ pc'[r] = "done"
      /\ tx' \in [Requests -> TxType]
      /\ reply' \in [Requests -> [code : Codes, rows : SUBSET Ids]]
  BY NoTxTyped DEF Types, Answer, PcLabels
<1>2. /\ Group!LifecycleTypeOK' /\ Ledger!LedgerTypeOK' /\ settlements' \subseteq Settlement
  BY DEF Types, Answer, envVars, Group!LifecycleTypeOK, Ledger!LedgerTypeOK
<1>3. \A q \in Requests : pc'[q] = "owed" => tx'[q] = tx[q] /\ pc[q] = "owed"
  BY DEF Types, Answer
<1> QED BY <1>1, <1>2, <1>3 DEF Types

\* A statement after which a request goes on.
LEMMA GotoTypes ==
    ASSUME Types, NEW r \in Requests, NEW label \in PcLabels, Goto(r, label),
           UNCHANGED << envVars, settlements >>,
           NEW x \in TxType, tx' = [tx EXCEPT ![r] = x],
           label = "owed" => x.paid \in [Users -> Nat]
    PROVE  Types'
<1>1. /\ pc' \in [Requests -> PcLabels] /\ pc'[r] = label /\ tx'[r] = x
      /\ tx' \in [Requests -> TxType] /\ reply' = reply
  BY DEF Types, Goto
<1>2. /\ Group!LifecycleTypeOK' /\ Ledger!LedgerTypeOK' /\ settlements' \subseteq Settlement
  BY DEF Types, envVars, Group!LifecycleTypeOK, Ledger!LedgerTypeOK
<1>3. \A q \in Requests \ {r} : pc'[q] = pc[q] /\ tx'[q] = tx[q]
  BY DEF Types, Goto
<1>4. \A q \in Requests : pc'[q] = "owed" => tx'[q].paid \in [Users -> Nat]
  BY <1>1, <1>3 DEF Types
<1> QED BY <1>1, <1>2, <1>4 DEF Types

LEMMA StepTypes ==
    ASSUME Types, NEW r \in Requests,
           ReceiveGenerate(r) \/ ReceiveSettle(r) \/ Step(r) \/ Fail(r)
    PROVE  Types'
<1>0. /\ tx \in [Requests -> TxType] /\ tx[r] \in TxType
      /\ settlements \subseteq Settlement
      /\ Stored \subseteq Ids /\ PendingIds \subseteq Ids
  BY StoredAreIds DEF Types
<1>1. ASSUME NEW code \in Codes, Answer(r, code, {}) PROVE Types'
  <2>1. {} \in SUBSET Ids OBVIOUS
  <2> QED BY <1>1, <2>1, AnswerTypes
<1>2. ASSUME NEW label \in PcLabels \ {"owed"}, Goto(r, label),
             UNCHANGED << tx, envVars, settlements >>
      PROVE  Types'
  <2>1. tx' = [tx EXCEPT ![r] = tx[r]] BY <1>0, <1>2
  <2>2. UNCHANGED << envVars, settlements >> BY <1>2
  <2> QED BY <1>0, <1>2, <2>1, <2>2, GotoTypes
<1>3. ASSUME NEW label \in PcLabels, Goto(r, label), UNCHANGED << envVars, settlements >>,
             NEW x \in TxType, tx' = [tx EXCEPT ![r] = x],
             label = "owed" => x.paid \in [Users -> Nat]
      PROVE  Types'
  BY <1>3, GotoTypes
<1>4. CASE ReceiveGenerate(r)
  <2>1. PICK x : x = [tx[r] EXCEPT !.op = "generate"] OBVIOUS
  <2>2. x \in TxType BY <1>0, <2>1 DEF TxType
  <2>3. tx' = [tx EXCEPT ![r] = x] BY <1>0, <1>4, <2>1 DEF ReceiveGenerate
  <2>4. Goto(r, "lock") /\ UNCHANGED << envVars, settlements >> BY <1>4 DEF ReceiveGenerate
  <2> QED BY <1>3, <2>2, <2>3, <2>4 DEF PcLabels
<1>5. CASE ReceiveSettle(r)
  <2>1. PICK caller \in Users, ids \in SUBSET Stored \ {{}} :
          tx' = [tx EXCEPT ![r].op = "settle", ![r].caller = caller,
                           ![r].ids = ids, ![r].todo = ids]
    BY <1>5 DEF ReceiveSettle
  <2>2. PICK x : x = [tx[r] EXCEPT !.op = "settle", !.caller = caller, !.ids = ids,
                                   !.todo = ids]
    OBVIOUS
  <2>3. ids \in SUBSET Ids BY <1>0
  <2>4. x \in TxType BY <1>0, <2>2, <2>3 DEF TxType
  <2>5. tx' = [tx EXCEPT ![r] = x] BY <1>0, <2>1, <2>2
  <2>6. Goto(r, "find") /\ UNCHANGED << envVars, settlements >> BY <1>5 DEF ReceiveSettle
  <2> QED BY <1>3, <2>4, <2>5, <2>6 DEF PcLabels
<1>6. CASE LockGroup(r)
  BY <1>1, <1>2, <1>6 DEF LockGroup, Codes, PcLabels
<1>7. CASE ReadMembers(r)
  <2>1. CASE Answer(r, "tooFew", {}) BY <1>1, <2>1 DEF Codes
  <2>2. CASE /\ tx' = [tx EXCEPT ![r].members = {u \in Users : member[u] = "active"}]
             /\ Goto(r, "paid") /\ UNCHANGED << envVars, settlements >>
    <3>1. PICK x : x = [tx[r] EXCEPT !.members = {u \in Users : member[u] = "active"}]
      OBVIOUS
    <3>2. x \in TxType BY <1>0, <3>1 DEF TxType
    <3>3. tx' = [tx EXCEPT ![r] = x] BY <1>0, <2>2, <3>1
    <3> QED BY <1>3, <2>2, <3>2, <3>3 DEF PcLabels
  <2> QED BY <1>7, <2>1, <2>2 DEF ReadMembers
<1>8. CASE ReadPaid(r)
  <2>1. PICK x : x = [tx[r] EXCEPT !.paid = SumPaid] OBVIOUS
  <2>2. SumPaid \in [Users -> Nat] BY SumsAreAmounts DEF Types
  <2>3. x \in TxType /\ x.paid \in [Users -> Nat] BY <1>0, <2>1, <2>2 DEF TxType
  <2>4. tx' = [tx EXCEPT ![r] = x] BY <1>0, <1>8, <2>1 DEF ReadPaid
  <2>5. Goto(r, "owed") /\ UNCHANGED << envVars, settlements >> BY <1>8 DEF ReadPaid
  <2> QED BY <1>3, <2>3, <2>4, <2>5 DEF PcLabels
<1>9. CASE PlanTransfers(r)
  <2> DEFINE b == [u \in tx[r].members |-> tx[r].paid[u] - SumOwed[u]]
  <2>1. PICK plan \in Plans(b) :
          tx' = [tx EXCEPT ![r].plan = plan, ![r].members = {}, ![r].paid = None]
    BY <1>9 DEF PlanTransfers
  <2>2. plan \in Seq(Transfer)
    <3>1. tx[r].members \in SUBSET Users BY <1>0 DEF TxType
    <3>2. tx[r].paid \in [Users -> Nat] BY <1>9 DEF Types, PlanTransfers
    <3>3. SumOwed \in [Users -> Int] BY SumsAreAmounts DEF Types
    <3>4. DOMAIN b \in SUBSET Users /\ \A u \in DOMAIN b : b[u] \in Int
      BY <3>1, <3>2, <3>3
    <3> HIDE DEF b
    <3> QED BY <2>1, <3>4, PlanIsTyped
  <2>3. PICK x : x = [tx[r] EXCEPT !.plan = plan, !.members = {}, !.paid = None] OBVIOUS
  <2>4. x \in TxType BY <1>0, <2>2, <2>3 DEF TxType
  <2>5. tx' = [tx EXCEPT ![r] = x] BY <1>0, <2>1, <2>3
  <2>6. Goto(r, "delete") /\ UNCHANGED << envVars, settlements >>
    BY <1>9 DEF PlanTransfers
  <2> QED BY <1>3, <2>4, <2>5, <2>6 DEF PcLabels
<1>10. CASE DeleteBegins(r)
  <2>1. PICK x : x = [tx[r] EXCEPT !.doomed = Stored] OBVIOUS
  <2>2. x \in TxType BY <1>0, <2>1 DEF TxType
  <2>3. tx' = [tx EXCEPT ![r] = x] BY <1>0, <1>10, <2>1 DEF DeleteBegins
  <2>4. Goto(r, "deleteRows") /\ UNCHANGED << envVars, settlements >>
    BY <1>10 DEF DeleteBegins
  <2> QED BY <1>3, <2>2, <2>3, <2>4 DEF PcLabels
<1>11. CASE DeleteRows(r)
  BY <1>2, <1>11 DEF DeleteRows, PcLabels
<1>12. CASE InsertItems(r)
  <2>1. PICK x : x = [tx[r] EXCEPT !.batch = Items(r, tx[r].plan), !.plan = << >>] OBVIOUS
  <2>2. Items(r, tx[r].plan) \in SUBSET Settlement
    <3>1. r \in Generations /\ tx[r].plan \in Seq(Transfer)
      BY <1>0 DEF TxType, Generations
    <3> QED BY <3>1, ItemsAreSettlements
  <2>3. << >> \in Seq(Transfer) OBVIOUS
  <2>4. x \in TxType BY <1>0, <2>1, <2>2, <2>3 DEF TxType
  <2>5. tx' = [tx EXCEPT ![r] = x] BY <1>0, <1>12, <2>1 DEF InsertItems
  <2>6. Goto(r, "commit") /\ UNCHANGED << envVars, settlements >>
    BY <1>12 DEF InsertItems
  <2> QED BY <1>3, <2>4, <2>5, <2>6 DEF PcLabels
<1>13. CASE FindItem(r)
  <2>1. CASE Answer(r, "notFound", {}) BY <1>1, <2>1 DEF Codes
  <2>2. CASE /\ \E id : tx' = [tx EXCEPT ![r].todo = @ \ {id}]
             /\ Goto(r, "caller") /\ UNCHANGED << envVars, settlements >>
    <3>1. PICK id : tx' = [tx EXCEPT ![r].todo = @ \ {id}] BY <2>2
    <3>2. PICK x : x = [tx[r] EXCEPT !.todo = tx[r].todo \ {id}] OBVIOUS
    <3>3. x \in TxType BY <1>0, <3>2 DEF TxType
    <3>4. tx' = [tx EXCEPT ![r] = x] BY <1>0, <3>1, <3>2 DEF TxType
    <3> QED BY <1>3, <2>2, <3>3, <3>4 DEF PcLabels
  <2> QED BY <1>13, <2>1, <2>2 DEF FindItem
<1>14. CASE CheckCaller(r)
  <2>1. CASE Answer(r, "notMember", {}) BY <1>1, <2>1 DEF Codes
  <2>2. CASE /\ Goto(r, IF tx[r].todo = {} THEN "update" ELSE "find")
             /\ UNCHANGED << tx, envVars, settlements >>
    <3>1. PICK label \in {"update", "find"} : Goto(r, label) BY <2>2
    <3> QED BY <1>2, <2>2, <3>1 DEF PcLabels
  <2> QED BY <1>14, <2>1, <2>2 DEF CheckCaller
<1>15. CASE UpdateItems(r)
  <2>1. PICK x : x = [tx[r] EXCEPT !.hit = tx[r].ids \cap PendingIds] OBVIOUS
  <2>2. tx[r].ids \cap PendingIds \in SUBSET Ids BY <1>0
  <2>3. x \in TxType BY <1>0, <2>1, <2>2 DEF TxType
  <2>4. tx' = [tx EXCEPT ![r] = x] BY <1>0, <1>15, <2>1 DEF UpdateItems
  <2>5. Goto(r, "commit") /\ UNCHANGED << envVars, settlements >>
    BY <1>15 DEF UpdateItems
  <2> QED BY <1>3, <2>3, <2>4, <2>5 DEF PcLabels
<1>16. CASE Commit(r)
  <2>1. settlements' \subseteq Settlement
    <3>1. tx[r].batch \subseteq Settlement BY <1>0 DEF TxType
    <3>2. \A s \in Settlement : [s EXCEPT !.status = "settled"] \in Settlement
      BY DEF Settlement
    <3> QED BY <1>0, <1>16, <3>1, <3>2 DEF Commit
  <2>2. PICK x : x = [NoTx EXCEPT !.op = tx[r].op, !.hit = tx[r].hit] OBVIOUS
  <2>3. x \in TxType BY <1>0, <2>2, NoTxTyped DEF TxType
  <2>4. tx' \in [Requests -> TxType] /\ \A q \in Requests \ {r} : tx'[q] = tx[q]
    <3>1. tx' = [tx EXCEPT ![r] = x] BY <1>16, <2>2 DEF Commit
    <3> QED BY <1>0, <2>3, <3>1
  <2>5. /\ pc' \in [Requests -> PcLabels] /\ pc'[r] # "owed" /\ reply' = reply
        /\ \A q \in Requests \ {r} : pc'[q] = pc[q]
    BY <1>16 DEF Commit, Goto, Types, PcLabels
  <2>6. Group!LifecycleTypeOK' /\ Ledger!LedgerTypeOK'
    BY <1>16 DEF Commit, Types, envVars, Group!LifecycleTypeOK, Ledger!LedgerTypeOK
  <2> QED BY <2>1, <2>4, <2>5, <2>6 DEF Types
<1>17. CASE ListItems(r)
  BY <1>2, <1>17 DEF ListItems, PcLabels
<1>18. CASE Audit(r)
  <2>1. PICK code \in Codes : Answer(r, code, tx[r].hit) BY <1>18 DEF Audit, Codes
  <2>2. tx[r].hit \in SUBSET Ids BY <1>0 DEF TxType
  <2> QED BY <2>1, <2>2, AnswerTypes
<1>19. CASE Fail(r) BY <1>1, <1>19 DEF Fail, Codes
<1> QED
  BY <1>4, <1>5, <1>6, <1>7, <1>8, <1>9, <1>10, <1>11, <1>12, <1>13, <1>14, <1>15,
     <1>16, <1>17, <1>18, <1>19 DEF Step

LEMMA NextTypes == Types /\ [Next]_vars => Types'
<1> SUFFICES ASSUME Types, [Next]_vars PROVE Types' OBVIOUS
<1>1. ASSUME NEW r \in Requests,
             ReceiveGenerate(r) \/ ReceiveSettle(r) \/ Step(r) \/ Fail(r)
      PROVE  Types'
  BY <1>1, StepTypes
<1>2. ASSUME Group!LifecycleTypeOK', Ledger!LedgerTypeOK',
             UNCHANGED << settlements, pc, tx, reply >>
      PROVE  Types'
  BY <1>2 DEF Types
<1>3. CASE GroupStep
  <2>1. Group!LifecycleTypeOK' BY <1>3, EnvironmentTypes DEF GroupStep, Types
  <2>2. Ledger!LedgerTypeOK' BY <1>3 DEF GroupStep, Types, Ledger!LedgerTypeOK
  <2> QED BY <1>2, <1>3, <2>1, <2>2 DEF GroupStep
<1>4. CASE LedgerStep
  <2>1. Ledger!LedgerTypeOK' BY <1>4, EnvironmentTypes DEF LedgerStep, Types
  <2>2. Group!LifecycleTypeOK'
    BY <1>4 DEF LedgerStep, Types, Group!LifecycleTypeOK, groupVars
  <2> QED BY <1>2, <1>4, <2>1, <2>2 DEF LedgerStep
<1>5. CASE UNCHANGED vars
  <2>1. Group!LifecycleTypeOK' /\ Ledger!LedgerTypeOK'
    BY <1>5 DEF vars, Types, Group!LifecycleTypeOK, Ledger!LedgerTypeOK
  <2> QED BY <1>2, <1>5, <2>1 DEF vars
<1> QED BY <1>1, <1>3, <1>4, <1>5 DEF Next
-----------------------------------------------------------------------------
\* The transfers of a plan become rows with the positions 1, 2 ... without gaps.
LEMMA ItemsAreNumbered ==
    ASSUME NEW g, NEW plan, IsSeq(plan)
    PROVE  /\ \A s \in Items(g, plan) : s.id = << g, s.id[2] >> /\ s.id[1] = g
           /\ \A s, t \in Items(g, plan) : s.id = t.id => s = t
           /\ {s.id[2] : s \in Items(g, plan)} = 1..Len(plan)
           /\ Len(plan) \in Nat
<1>1. Len(plan) \in Nat BY DEF IsSeq
<1> DEFINE row(k) == [id |-> << g, k >>, from |-> plan[k].from, to |-> plan[k].to,
                      amount |-> plan[k].amount, status |-> "pending"]
           n == Len(plan)
<1>2. Items(g, plan) = {row(k) : k \in 1..n} BY DEF Items
<1>3. \A k : row(k).id = << g, k >> OBVIOUS
<1>4. \A k : row(k).id[1] = g /\ row(k).id[2] = k BY <1>3
<1> HIDE DEF row, n
<1> QED BY <1>1, <1>2, <1>3, <1>4 DEF n

RowsOf(table, g) == {s \in table : s.id[1] = g}
Positions(rows)  == {s.id[2] : s \in rows}

\* An id names one row, and the rows of each Generate are numbered without gaps.
Numbered(table) == /\ \A s \in table : s.id = << s.id[1], s.id[2] >>
                   /\ \A s, t \in table : s.id = t.id => s = t
                   /\ \A g \in Generations :
                         \E n \in Nat : Positions(RowsOf(table, g)) = 1..n

\* Of each plan in the table, all rows are among these or none.
WholePlans(ids) ==
    \A s, t \in settlements : s.id[1] = t.id[1] => (s.id \in ids <=> t.id \in ids)

\* What a Generate is about to write is a plan, and what it deletes are plans.
Ready(r) == /\ pc[r] \in {"paid", "owed"} => tx[r].members \subseteq Users
            /\ pc[r] \in {"delete", "deleteRows", "insert"} => IsSeq(tx[r].plan)
            /\ pc[r] = "commit" /\ tx[r].op = "generate" =>
                  \E plan : IsSeq(plan) /\ tx[r].batch = Items(r, plan)
            /\ WholePlans(tx[r].doomed)

BookInv == /\ Numbered(settlements)
           /\ \A r \in Requests : Ready(r)

LEMMA BookInit == Init => BookInv
<1> SUFFICES ASSUME Init PROVE BookInv OBVIOUS
<1>0. Types BY InitTypes
<1>1. PICK plan : IsSeq(plan) /\ settlements = Items(Origin, plan)
  <2> DEFINE b == [u \in Founders |-> SumPaid[u] - SumOwed[u]]
  <2>1. PICK plan \in {<< >>} \cup Plans(b) : settlements = Items(Origin, plan)
    BY DEF Init
  <2>2. DOMAIN b \in SUBSET Users /\ \A u \in DOMAIN b : b[u] \in Int
    BY <1>0, SumsAreAmounts, GroupAssumption DEF Types
  <2>3. << >> \in Seq({}) OBVIOUS
  <2> HIDE DEF b
  <2> QED BY <2>1, <2>2, <2>3, PlanIsTyped DEF IsSeq
<1>2. Numbered(settlements)
  <2>1. /\ \A s \in settlements : s.id = << Origin, s.id[2] >> /\ s.id[1] = Origin
        /\ \A s, t \in settlements : s.id = t.id => s = t
        /\ Positions(settlements) = 1..Len(plan)
        /\ Len(plan) \in Nat
    BY <1>1, ItemsAreNumbered DEF Positions
  <2>2. ASSUME NEW g \in Generations
        PROVE  \E n \in Nat : Positions(RowsOf(settlements, g)) = 1..n
    <3>1. CASE g = Origin
      <4>1. RowsOf(settlements, g) = settlements BY <2>1, <3>1 DEF RowsOf
      <4> QED BY <2>1, <4>1
    <3>2. CASE g # Origin
      <4>1. RowsOf(settlements, g) = {} BY <2>1, <3>2 DEF RowsOf
      <4>2. Positions({}) = 1..0 BY DEF Positions
      <4> QED BY <4>1, <4>2
    <3> QED BY <3>1, <3>2
  <2> QED BY <2>1, <2>2 DEF Numbered
<1>3. \A r \in Requests : pc[r] = "idle" /\ tx[r] = NoTx BY DEF Init
<1>4. \A r \in Requests : Ready(r) BY <1>3, NoTxFields DEF Ready, WholePlans
<1> QED BY <1>2, <1>4 DEF BookInv

\* A step of one request that writes nothing to the table.
LEMMA BookAlone ==
    ASSUME BookInv, NEW r \in Requests, settlements' = settlements, Ready(r)',
           \A q \in Requests \ {r} : pc'[q] = pc[q] /\ tx'[q] = tx[q]
    PROVE  BookInv'
<1>1. Numbered(settlements)' BY DEF BookInv, Numbered, Positions, RowsOf
<1>2. ASSUME NEW q \in Requests \ {r} PROVE Ready(q)'
  <2>1. Ready(q) BY DEF BookInv
  <2> QED BY <2>1 DEF Ready, WholePlans
<1> QED BY <1>1, <1>2 DEF BookInv

\* Before the commit, a request computes a plan, chooses all plans to delete and
\* prepares the rows.
LEMMA BookStep ==
    ASSUME IInv, Types, BookInv, NEW r \in Requests,
           \/ ReceiveGenerate(r) \/ ReceiveSettle(r) \/ Fail(r)
           \/ Step(r) /\ ~Commit(r)
    PROVE  BookInv'
<1>0. /\ r \in DOMAIN tx /\ DOMAIN tx = Requests /\ DOMAIN tx[r] = TxFields
      /\ r \in DOMAIN pc /\ DOMAIN pc = Requests
  BY DEF IInv, Shaped
<1>1. Ready(r) /\ Held(r) BY DEF IInv, BookInv
<1>2. ASSUME NEW code, NEW rows, Answer(r, code, rows) PROVE BookInv'
  <2>1. /\ pc'[r] = "done" /\ tx'[r] = NoTx /\ settlements' = settlements
        /\ \A q \in Requests \ {r} : pc'[q] = pc[q] /\ tx'[q] = tx[q]
    BY <1>0, <1>2 DEF Answer
  <2>2. Ready(r)' BY <2>1, NoTxFields DEF Ready, WholePlans
  <2> QED BY <2>1, <2>2, BookAlone
<1>3. ASSUME NEW label, Goto(r, label), tx' = tx, settlements' = settlements,
             label \in {"members", "update", "find", "audit"} \/
             (pc[r] = "deleteRows" /\ label = "insert")
      PROVE  BookInv'
  <2>1. /\ pc'[r] = label
        /\ \A q \in Requests \ {r} : pc'[q] = pc[q]
    BY <1>0, <1>3 DEF Goto
  <2>2. Ready(r)' BY <1>1, <1>3, <2>1 DEF Ready, WholePlans
  <2> QED BY <1>3, <2>1, <2>2, BookAlone
<1>4. ASSUME NEW label, Goto(r, label), settlements' = settlements,
             DOMAIN tx' = Requests, \A q \in Requests \ {r} : tx'[q] = tx[q],
             WholePlans(tx'[r].doomed),
             \/ label \in {"lock", "find", "caller"}
             \/ label \in {"paid", "owed"} /\ tx'[r].members \subseteq Users
             \/ label \in {"delete", "deleteRows"} /\ IsSeq(tx'[r].plan)
             \/ label = "commit" /\ tx'[r].op # "generate"
             \/ /\ label = "commit"
                /\ \E plan : IsSeq(plan) /\ tx'[r].batch = Items(r, plan)
      PROVE  BookInv'
  <2>1. /\ pc'[r] = label
        /\ \A q \in Requests \ {r} : pc'[q] = pc[q]
    BY <1>0, <1>4 DEF Goto
  <2>2. WholePlans(tx[r].doomed)' BY <1>4 DEF WholePlans
  <2>3. ASSUME NEW plan, IsSeq(plan), tx'[r].batch = Items(r, plan)
        PROVE  \E p : IsSeq(p) /\ tx'[r].batch = Items(r, p)
    BY <2>3
  <2>4. Ready(r)' BY <1>4, <2>1, <2>2 DEF Ready
  <2> QED BY <1>4, <2>1, <2>4, BookAlone
<1>5. WholePlans(tx[r].doomed) BY <1>1 DEF Ready
<1>6. CASE ReceiveGenerate(r)
  <2>1. Goto(r, "lock") /\ settlements' = settlements
        /\ tx' = [tx EXCEPT ![r].op = "generate"]
    BY <1>6 DEF ReceiveGenerate
  <2>2. /\ DOMAIN tx' = Requests /\ \A q \in Requests \ {r} : tx'[q] = tx[q]
        /\ tx'[r].doomed = tx[r].doomed
    BY <1>0, <2>1 DEF TxFields
  <2> QED BY <1>4, <1>5, <2>1, <2>2
<1>7. CASE ReceiveSettle(r)
  <2>1. PICK caller, ids : tx' = [tx EXCEPT ![r].op = "settle", ![r].caller = caller,
                                            ![r].ids = ids, ![r].todo = ids]
    BY <1>7 DEF ReceiveSettle
  <2>2. Goto(r, "find") /\ settlements' = settlements BY <1>7 DEF ReceiveSettle
  <2>3. /\ DOMAIN tx' = Requests /\ \A q \in Requests \ {r} : tx'[q] = tx[q]
        /\ tx'[r].doomed = tx[r].doomed
    BY <1>0, <2>1 DEF TxFields
  <2> QED BY <1>4, <1>5, <2>2, <2>3
<1>8. CASE LockGroup(r)
  BY <1>2, <1>3, <1>8 DEF LockGroup
<1>9. CASE ReadMembers(r)
  <2>1. CASE Answer(r, "tooFew", {}) BY <1>2, <2>1
  <2>2. CASE /\ Goto(r, "paid") /\ settlements' = settlements
             /\ tx' = [tx EXCEPT ![r].members = {u \in Users : member[u] = "active"}]
    <3>1. /\ DOMAIN tx' = Requests /\ \A q \in Requests \ {r} : tx'[q] = tx[q]
          /\ tx'[r].doomed = tx[r].doomed
          /\ tx'[r].members \subseteq Users
      BY <1>0, <2>2 DEF TxFields
    <3> QED BY <1>4, <1>5, <2>2, <3>1
  <2> QED BY <1>9, <2>1, <2>2 DEF ReadMembers
<1>10. CASE ReadPaid(r)
  <2>1. /\ pc[r] = "paid" /\ Goto(r, "owed") /\ settlements' = settlements
        /\ tx' = [tx EXCEPT ![r].paid = SumPaid]
    BY <1>10 DEF ReadPaid
  <2>2. /\ DOMAIN tx' = Requests /\ \A q \in Requests \ {r} : tx'[q] = tx[q]
        /\ tx'[r].doomed = tx[r].doomed /\ tx'[r].members = tx[r].members
    BY <1>0, <2>1 DEF TxFields
  <2>3. tx'[r].members \subseteq Users BY <1>1, <2>1, <2>2 DEF Ready
  <2> QED BY <1>4, <1>5, <2>1, <2>2, <2>3
<1>11. CASE PlanTransfers(r)
  <2> DEFINE balance == [u \in tx[r].members |-> tx[r].paid[u] - SumOwed[u]]
  <2>1. /\ pc[r] = "owed" /\ Goto(r, "delete") /\ settlements' = settlements
        /\ \E plan \in Plans(balance) :
              tx' = [tx EXCEPT ![r].plan = plan, ![r].members = {}, ![r].paid = None]
    BY <1>11 DEF PlanTransfers
  <2>2. PICK plan \in Plans(balance) :
          tx' = [tx EXCEPT ![r].plan = plan, ![r].members = {}, ![r].paid = None]
    BY <2>1
  <2>3. DOMAIN balance \in SUBSET Users /\ \A u \in DOMAIN balance : balance[u] \in Int
    <3>1. SumOwed \in [Users -> Int] BY SumsAreAmounts DEF Types
    <3>2. tx[r].paid \in [Users -> Nat] BY <2>1 DEF Types
    <3>3. tx[r].members \subseteq Users BY <1>1, <2>1 DEF Ready
    <3> QED BY <3>1, <3>2, <3>3
  <2> HIDE DEF balance
  <2>4. IsSeq(plan) BY <2>3, PlanIsTyped
  <2>5. /\ DOMAIN tx' = Requests /\ \A q \in Requests \ {r} : tx'[q] = tx[q]
        /\ tx'[r].doomed = tx[r].doomed /\ tx'[r].plan = plan
    BY <1>0, <2>2 DEF TxFields
  <2> QED BY <1>4, <1>5, <2>1, <2>4, <2>5
<1>12. CASE DeleteBegins(r)
  <2>1. /\ pc[r] = "delete" /\ Goto(r, "deleteRows") /\ settlements' = settlements
        /\ tx' = [tx EXCEPT ![r].doomed = Stored]
    BY <1>12 DEF DeleteBegins
  <2>2. /\ DOMAIN tx' = Requests /\ \A q \in Requests \ {r} : tx'[q] = tx[q]
        /\ tx'[r].doomed = Stored /\ tx'[r].plan = tx[r].plan
    BY <1>0, <2>1 DEF TxFields
  <2>3. WholePlans(Stored) BY DEF WholePlans, Stored
  <2>4. IsSeq(tx[r].plan) BY <1>1, <2>1 DEF Ready
  <2> QED BY <1>4, <2>1, <2>2, <2>3, <2>4
<1>13. CASE DeleteRows(r)
  BY <1>3, <1>13 DEF DeleteRows
<1>14. CASE InsertItems(r)
  <2>1. /\ pc[r] = "insert" /\ Goto(r, "commit") /\ settlements' = settlements
        /\ tx' = [tx EXCEPT ![r].batch = Items(r, tx[r].plan), ![r].plan = << >>]
    BY <1>14 DEF InsertItems
  <2>2. /\ DOMAIN tx' = Requests /\ \A q \in Requests \ {r} : tx'[q] = tx[q]
        /\ tx'[r].doomed = tx[r].doomed /\ tx'[r].batch = Items(r, tx[r].plan)
    BY <1>0, <2>1 DEF TxFields
  <2>3. IsSeq(tx[r].plan) BY <1>1, <2>1 DEF Ready
  <2>4. \E plan : IsSeq(plan) /\ tx'[r].batch = Items(r, plan) BY <2>2, <2>3
  <2> QED BY <1>4, <1>5, <2>1, <2>2, <2>4
<1>15. CASE FindItem(r)
  <2>1. CASE Answer(r, "notFound", {}) BY <1>2, <2>1
  <2>2. CASE /\ Goto(r, "caller") /\ settlements' = settlements
             /\ \E id : tx' = [tx EXCEPT ![r].todo = @ \ {id}]
    <3>1. PICK id : tx' = [tx EXCEPT ![r].todo = @ \ {id}] BY <2>2
    <3>2. /\ DOMAIN tx' = Requests /\ \A q \in Requests \ {r} : tx'[q] = tx[q]
          /\ tx'[r].doomed = tx[r].doomed
      BY <1>0, <3>1 DEF TxFields
    <3> QED BY <1>4, <1>5, <2>2, <3>2
  <2> QED BY <1>15, <2>1, <2>2 DEF FindItem
<1>16. CASE CheckCaller(r)
  <2>1. CASE Answer(r, "notMember", {}) BY <1>2, <2>1
  <2>2. CASE /\ tx' = tx /\ settlements' = settlements
             /\ Goto(r, IF tx[r].todo = {} THEN "update" ELSE "find")
    <3>1. PICK label \in {"update", "find"} : Goto(r, label) BY <2>2
    <3> QED BY <1>3, <2>2, <3>1
  <2> QED BY <1>16, <2>1, <2>2 DEF CheckCaller
<1>17. CASE UpdateItems(r)
  <2>1. /\ pc[r] = "update" /\ Goto(r, "commit") /\ settlements' = settlements
        /\ tx' = [tx EXCEPT ![r].hit = tx[r].ids \cap PendingIds]
    BY <1>17 DEF UpdateItems
  <2>2. /\ DOMAIN tx' = Requests /\ \A q \in Requests \ {r} : tx'[q] = tx[q]
        /\ tx'[r].doomed = tx[r].doomed /\ tx'[r].op = tx[r].op
    BY <1>0, <2>1 DEF TxFields
  <2>3. tx[r].op = "settle" BY <1>1, <2>1 DEF Held
  <2> QED BY <1>4, <1>5, <2>1, <2>2, <2>3
<1>18. CASE ListItems(r)
  BY <1>3, <1>18 DEF ListItems
<1>19. CASE Audit(r)
  <2>1. PICK code : Answer(r, code, tx[r].hit) BY <1>19 DEF Audit
  <2> QED BY <1>2, <2>1
<1>20. CASE Fail(r) BY <1>2, <1>20 DEF Fail
<1> QED
  BY <1>6, <1>7, <1>8, <1>9, <1>10, <1>11, <1>12, <1>13, <1>14, <1>15, <1>16, <1>17,
     <1>18, <1>19, <1>20 DEF Step
-----------------------------------------------------------------------------
\* What a committed Generate does: its rows are new, others' plans go or stay.
LEMMA PlanReplaces ==
    ASSUME IInv, BookInv, NEW r \in Requests, Commit(r), tx[r].op = "generate"
    PROVE  /\ RowsOf(settlements, r) = {}
           /\ \E plan : /\ IsSeq(plan)
                        /\ RowsOf(settlements', r) = Items(r, plan)
                        /\ \A s \in settlements' : s \in settlements \/ s \in Items(r, plan)
           /\ \A g \in Generations \ {r} :
                 RowsOf(settlements', g) \in {RowsOf(settlements, g), {}}
<1>1. /\ settlements' = {s \in settlements : s.id \notin tx[r].doomed} \cup tx[r].batch
      /\ pc[r] = "commit"
  BY DEF Commit
<1>2. PICK plan : IsSeq(plan) /\ tx[r].batch = Items(r, plan)
  BY <1>1 DEF BookInv, Ready
<1>3. \A s \in Items(r, plan) : s.id[1] = r BY <1>2, ItemsAreNumbered
<1>4. \A s \in settlements : s.id[1] # r
  BY <1>1, OriginAssumption DEF IInv, Published
<1>5. RowsOf(settlements, r) = {} BY <1>4 DEF RowsOf
<1>6. RowsOf(settlements', r) = Items(r, plan) BY <1>1, <1>2, <1>3, <1>4 DEF RowsOf
<1>7. ASSUME NEW g \in Generations \ {r}
      PROVE  RowsOf(settlements', g) \in {RowsOf(settlements, g), {}}
  <2>1. RowsOf(settlements', g) = {s \in RowsOf(settlements, g) : s.id \notin tx[r].doomed}
    BY <1>1, <1>2, <1>3 DEF RowsOf
  <2>2. \A s, t \in RowsOf(settlements, g) :
          s.id \in tx[r].doomed <=> t.id \in tx[r].doomed
    BY DEF BookInv, Ready, WholePlans, RowsOf
  <2> QED BY <2>1, <2>2
<1> QED BY <1>1, <1>2, <1>5, <1>6, <1>7

\* What a committed Settle does: rows go to settled where they are.
LEMMA SettleChanges ==
    ASSUME IInv, BookInv, NEW r \in Requests, Commit(r), tx[r].op = "settle"
    PROVE  \E after : /\ settlements' = {after[s] : s \in settlements}
                      /\ \A s \in settlements :
                            /\ after[s].id = s.id
                            /\ after[s] \in {s, [s EXCEPT !.status = "settled"]}
<1>1. PICK after :
        after = [s \in settlements |->
                   IF s.id \in tx[r].hit THEN [s EXCEPT !.status = "settled"] ELSE s]
  OBVIOUS
<1>2. settlements' = {after[s] : s \in settlements} BY <1>1 DEF Commit
<1>3. ASSUME NEW s \in settlements
      PROVE  after[s].id = s.id /\ after[s] \in {s, [s EXCEPT !.status = "settled"]}
  BY <1>1 DEF IInv, IsRow, RowFields
<1> QED BY <1>2, <1>3

LEMMA BookCommit ==
    ASSUME IInv, BookInv, NEW r \in Requests, Commit(r)
    PROVE  BookInv'
<1>1. /\ pc'[r] \in {"list", "audit"} /\ tx'[r].doomed = {}
      /\ \A q \in Requests \ {r} : pc'[q] = pc[q] /\ tx'[q] = tx[q]
      /\ tx[r].op \in {"generate", "settle"} /\ r \notin Published
  BY Committed
<1>2. Ready(r)' BY <1>1 DEF Ready, WholePlans
<1>3. CASE tx[r].op = "generate"
  <2>1. PICK plan : /\ IsSeq(plan)
                    /\ RowsOf(settlements', r) = Items(r, plan)
                    /\ \A s \in settlements' : s \in settlements \/ s \in Items(r, plan)
    BY <1>3, PlanReplaces
  <2>2. \A g \in Generations \ {r} : RowsOf(settlements', g) \in {RowsOf(settlements, g), {}}
    BY <1>3, PlanReplaces
  <2>3. /\ \A s \in Items(r, plan) : s.id = << r, s.id[2] >> /\ s.id[1] = r
        /\ \A s, t \in Items(r, plan) : s.id = t.id => s = t
        /\ Positions(Items(r, plan)) = 1..Len(plan)
        /\ Len(plan) \in Nat
    BY <2>1, ItemsAreNumbered DEF Positions
  <2>4. \A s \in settlements : s.id[1] # r BY <1>1 DEF IInv
  <2>5. Numbered(settlements')
    <3>1. Numbered(settlements) BY DEF BookInv
    <3>2. \A s \in settlements' : s.id = << s.id[1], s.id[2] >>
      BY <2>1, <2>3, <3>1 DEF Numbered
    <3>3. \A s, t \in settlements' : s.id = t.id => s = t
      BY <2>1, <2>3, <2>4, <3>1 DEF Numbered
    <3>4. ASSUME NEW g \in Generations
          PROVE  \E n \in Nat : Positions(RowsOf(settlements', g)) = 1..n
      <4>1. CASE g = r BY <2>1, <2>3, <4>1
      <4>2. CASE g # r
        <5>1. Positions({}) = 1..0 BY DEF Positions
        <5>2. \E n \in Nat : Positions(RowsOf(settlements, g)) = 1..n BY <3>1 DEF Numbered
        <5>3. CASE RowsOf(settlements', g) = {} BY <5>1, <5>3
        <5>4. CASE RowsOf(settlements', g) = RowsOf(settlements, g) BY <5>2, <5>4
        <5> QED BY <2>2, <4>2, <5>3, <5>4
      <4> QED BY <4>1, <4>2
    <3> QED BY <3>2, <3>3, <3>4 DEF Numbered
  <2>6. ASSUME NEW q \in Requests \ {r} PROVE Ready(q)'
    <3>1. Ready(q) /\ Held(q) BY DEF IInv, BookInv
    <3>2. \A id \in tx[q].doomed : id[1] # r BY <1>1, <3>1 DEF Held
    <3>3. WholePlans(tx[q].doomed)'
      <4> SUFFICES ASSUME NEW s \in settlements', NEW t \in settlements', s.id[1] = t.id[1]
                   PROVE  s.id \in tx[q].doomed <=> t.id \in tx[q].doomed
        BY <1>1 DEF WholePlans
      <4>1. CASE s.id[1] = r BY <3>2, <4>1
      <4>2. CASE s.id[1] # r
        <5>1. s \in settlements /\ t \in settlements BY <2>1, <2>3, <4>2
        <5> QED BY <3>1, <5>1 DEF Ready, WholePlans
      <4> QED BY <4>1, <4>2
    <3> QED BY <1>1, <3>1, <3>3 DEF Ready
  <2> QED BY <1>2, <2>5, <2>6 DEF BookInv
<1>4. CASE tx[r].op = "settle"
  <2>1. PICK after : /\ settlements' = {after[s] : s \in settlements}
                     /\ \A s \in settlements : after[s].id = s.id
    BY <1>4, SettleChanges
  <2>2. Numbered(settlements')
    <3>1. Numbered(settlements) BY DEF BookInv
    <3>2. ASSUME NEW g \in Generations
          PROVE  Positions(RowsOf(settlements', g)) = Positions(RowsOf(settlements, g))
      BY <2>1 DEF Positions, RowsOf
    <3>3. /\ \A s \in settlements' : s.id = << s.id[1], s.id[2] >>
          /\ \A s, t \in settlements' : s.id = t.id => s = t
      BY <2>1, <3>1 DEF Numbered
    <3> QED BY <3>1, <3>2, <3>3 DEF Numbered
  <2>3. ASSUME NEW q \in Requests \ {r} PROVE Ready(q)'
    <3>1. Ready(q) BY DEF BookInv
    <3>2. WholePlans(tx[q].doomed)' BY <1>1, <2>1, <3>1 DEF Ready, WholePlans
    <3> QED BY <1>1, <3>1, <3>2 DEF Ready
  <2> QED BY <1>2, <2>2, <2>3 DEF BookInv
<1> QED BY <1>1, <1>3, <1>4

LEMMA BookInductive == IInv /\ Types /\ BookInv /\ [Next]_vars => BookInv'
<1> SUFFICES ASSUME IInv, Types, BookInv, [Next]_vars PROVE BookInv' OBVIOUS
<1>1. CASE UNCHANGED << settlements, pc, tx >>
  BY <1>1 DEF BookInv, Numbered, Positions, RowsOf, Ready, WholePlans
<1>2. ASSUME NEW r \in Requests,
             ReceiveGenerate(r) \/ ReceiveSettle(r) \/ Step(r) \/ Fail(r)
      PROVE  BookInv'
  BY <1>2, BookStep, BookCommit
<1> QED BY <1>1, <1>2 DEF Next, vars, GroupStep, LedgerStep

\* The types and the bookkeeping of the plans hold in every reachable state.
THEOREM BookInvariance == Spec => [](Types /\ BookInv)
<1>1. Init => Types /\ BookInv BY InitTypes, BookInit
<1>2. IInv /\ Types /\ BookInv /\ [Next]_vars => (Types /\ BookInv)'
  BY NextTypes, BookInductive
<1> QED BY <1>1, <1>2, Invariance, PTL DEF Spec

\* Type correctness: requests and rows have their types at every statement, the plan
\* that OptimizeTransfers returns moves money between users, and an id names at most
\* one row.
THEOREM TypeCorrect == Spec => []TypeOK
<1>1. Types /\ BookInv => TypeOK BY DEF Types, BookInv, Numbered, TypeOK
<1> QED BY <1>1, BookInvariance, PTL
-----------------------------------------------------------------------------
\* The net amount of a user in one entry, and the entries that count.
PartIn(e, u) == (IF ledger[e].payer = u THEN ledger[e].amount ELSE 0)
                - (IF ledger[e].shares[u] = None THEN 0 ELSE ledger[e].shares[u])
Live == {e \in Expenses : ledger[e] # None /\ ledger[e].status # "refunded"}

LEMMA LiveEntries ==
    ASSUME Ledger!LedgerTypeOK
    PROVE  /\ IsFiniteSet(Live)
           /\ \A e \in Live : \A u \in Users :
                 /\ ledger[e].amount \in Nat \ {0} /\ ledger[e].payer \in Users
                 /\ ledger[e].status = "active"
                 /\ ledger[e].shares[u] \in Int \cup {None}
                 /\ PartIn(e, u) \in Int
<1>1. IsFiniteSet(Live)
  <2>1. Live \in SUBSET Expenses BY DEF Live
  <2> QED BY <2>1, UsersAssumption, FS_Subset
<1>2. ASSUME NEW e \in Live, NEW u \in Users
      PROVE  /\ ledger[e].amount \in Nat \ {0} /\ ledger[e].payer \in Users
             /\ ledger[e].status = "active"
             /\ ledger[e].shares[u] \in Int \cup {None}
             /\ PartIn(e, u) \in Int
  <2>1. e \in Expenses /\ ledger[e] # None /\ ledger[e].status # "refunded" BY DEF Live
  <2>2. /\ ledger[e].amount \in Nat \ {0} /\ ledger[e].payer \in Users
        /\ ledger[e].status \in {"active", "refunded"}
        /\ ledger[e].shares[u] \in Int \cup {None}
    BY <2>1, EntryFacts
  <2> QED BY <2>1, <2>2 DEF PartIn
<1> QED BY <1>1, <1>2

\* A user's net amount is the sum of his parts, and what the two queries give.
LEMMA NetIs ==
    ASSUME Ledger!LedgerTypeOK, NEW u \in Users
    PROVE  /\ NetOf(u) = SumFunctionOnSet([e \in Live |-> PartIn(e, u)], Live)
           /\ NetOf(u) \in Int
           /\ NetOf(u) = SumPaid[u] - SumOwed[u]
<1> DEFINE P == {x \in Expenses : /\ ledger[x] # None
                                  /\ ledger[x].status = "active"
                                  /\ ledger[x].payer = u}
           O == {x \in Expenses : /\ ledger[x] # None
                                  /\ ledger[x].status = "active"
                                  /\ ledger[x].shares[u] # None}
           p == [e \in P |-> ledger[e].amount]
           o == [e \in O |-> ledger[e].shares[u]]
           part  == [e \in Live |-> PartIn(e, u)]
           spent == [e \in Live |-> IF ledger[e].payer = u THEN ledger[e].amount ELSE 0]
           owed  == [e \in Live |-> IF ledger[e].shares[u] = None THEN 0
                                    ELSE ledger[e].shares[u]]
<1>1. NetOf(u) = SumFunctionOnSet(part, Live) BY DEF NetOf, SumFunction, PartIn, Live
<1>2. SumPaid[u] = SumFunctionOnSet(p, P) /\ SumOwed[u] = SumFunctionOnSet(o, O)
  BY DEF SumPaid, SumOwed, SumFunction
<1>3. /\ P \in SUBSET Live /\ O \in SUBSET Live
      /\ \A e \in Live : e \in P <=> ledger[e].payer = u
      /\ \A e \in Live : e \in O <=> ledger[e].shares[u] # None
  BY LiveEntries DEF Live
<1> HIDE DEF P, O
<1>4. /\ \A e \in P : p[e] \in Int
      /\ \A e \in O : o[e] \in Int
      /\ \A e \in Live : spent[e] = IF e \in P THEN p[e] ELSE 0
      /\ \A e \in Live : owed[e] = IF e \in O THEN o[e] ELSE 0
  BY <1>3, LiveEntries
<1>5. \A e \in Live : spent[e] \in Int /\ owed[e] \in Int /\ part[e] = spent[e] - owed[e]
  BY LiveEntries DEF PartIn
<1>6. IsFiniteSet(Live) BY LiveEntries
<1> HIDE DEF p, o, part, spent, owed
<1>7. SumFunctionOnSet(p, P) = SumFunctionOnSet(spent, Live) BY <1>3, <1>4, <1>6, SetSumFilter
<1>8. SumFunctionOnSet(o, O) = SumFunctionOnSet(owed, Live) BY <1>3, <1>4, <1>6, SetSumFilter
<1>9. SumFunctionOnSet(part, Live) =
        SumFunctionOnSet(spent, Live) - SumFunctionOnSet(owed, Live)
  BY <1>5, <1>6, SetSumMinus
<1>10. SumFunctionOnSet(part, Live) \in Int
  <2>1. \A e \in Live : part[e] \in Int BY <1>5
  <2> QED BY <1>6, <2>1, SetSumType
<1> QED BY <1>1, <1>2, <1>7, <1>8, <1>9, <1>10 DEF part

\* The parts of all users in one entry: what CalculateShares gives out too much.
LEMMA EntryNets ==
    ASSUME Ledger!LedgerTypeOK, NEW e \in Live
    PROVE  SumFunctionOnSet([u \in Users |-> PartIn(e, u)], Users) \in {0, -1}
<1>1. PICK x : x = ledger[e] OBVIOUS
<1>2. x \in Entries BY <1>1 DEF Ledger!LedgerTypeOK, Live
<1> DEFINE takers == {u \in Users : x.shares[u] # None}
           parts == [u \in Users |-> PartIn(e, u)]
           spent == [u \in Users |-> IF x.payer = u THEN x.amount ELSE 0]
           owed  == [u \in Users |-> IF x.shares[u] = None THEN 0 ELSE x.shares[u]]
<1>3. /\ x.amount \in Nat \ {0} /\ x.payer \in Users
      /\ \A u \in Users : x.shares[u] \in Int \cup {None}
      /\ SumFunctionOnSet(x.shares, takers) - x.amount \in {0, 1}
  BY <1>2, EntriesAssumption
<1>4. PICK shares : shares = x.shares OBVIOUS
<1>5. takers \in SUBSET Users /\ \A u \in Users : u \in takers <=> shares[u] # None
  BY <1>4
<1>6. \A u \in takers : shares[u] \in Int
  BY <1>3, <1>4
<1>7. \A u \in Users : /\ owed[u] = IF u \in takers THEN shares[u] ELSE 0
                       /\ spent[u] \in Int /\ owed[u] \in Int
                       /\ parts[u] = spent[u] - owed[u]
  BY <1>1, <1>3, <1>4, <1>5 DEF PartIn
<1>8. spent[x.payer] = x.amount /\ \A u \in Users \ {x.payer} : spent[u] = 0
  BY <1>3
<1>9. IsFiniteSet(Users) /\ IsFiniteSet(takers) BY <1>5, UsersAssumption, FS_Subset
<1> HIDE DEF takers, parts, spent, owed
<1>10. SumFunctionOnSet(owed, Users) = SumFunctionOnSet(shares, takers)
  <2>1. \A u \in Users : owed[u] = IF u \in takers THEN shares[u] ELSE 0 BY <1>7
  <2> QED BY <1>5, <1>6, <1>9, <2>1, SetSumFilter
<1>11. SumFunctionOnSet(spent, Users) = x.amount
  <2>1. PICK y : y = x.payer OBVIOUS
  <2>2. spent[y] \in Int /\ spent[y] = x.amount BY <1>3, <1>8, <2>1
  <2>3. SumFunctionOnSet(spent, {y}) = spent[y] BY <2>2, SetSumOne
  <2>4. {y} \in SUBSET Users /\ \A u \in {y} : spent[u] \in Int
    BY <1>3, <2>1, <2>2
  <2>5. \A u \in Users \ {y} : spent[u] = 0 BY <1>8, <2>1
  <2>6. SumFunctionOnSet(spent, Users) = SumFunctionOnSet(spent, {y})
    BY <1>9, <2>4, <2>5, SetSumWithin
  <2> QED BY <2>2, <2>3, <2>6
<1>12. SumFunctionOnSet(parts, Users) =
         SumFunctionOnSet(spent, Users) - SumFunctionOnSet(owed, Users)
  BY <1>7, <1>9, SetSumMinus
<1>13. SumFunctionOnSet(shares, takers) \in Int BY <1>6, <1>9, SetSumType
<1>14. SumFunctionOnSet(parts, Users) \in {0, -1}
  <2> DEFINE s == SumFunctionOnSet(shares, takers)
  <2>1. s \in Int /\ x.amount \in Nat /\ s - x.amount \in {0, 1} BY <1>3, <1>4, <1>13
  <2>2. SumFunctionOnSet(parts, Users) = x.amount - s BY <1>10, <1>11, <1>12
  <2> HIDE DEF s
  <2> QED BY <2>1, <2>2
<1> QED BY <1>14 DEF parts

\* All users together have paid at most what they owe.
LEMMA NobodyIsOwedMore ==
    ASSUME Ledger!LedgerTypeOK
    PROVE  /\ SumFunctionOnSet([u \in Users |-> NetOf(u)], Users) \in Int
           /\ SumFunctionOnSet([u \in Users |-> NetOf(u)], Users) <= 0
<1> DEFINE row    == [e \in Live |-> [u \in Users |-> PartIn(e, u)]]
           column == [u \in Users |-> [e \in Live |-> PartIn(e, u)]]
           perEntry == [e \in Live |-> SumFunctionOnSet(row[e], Users)]
           nets     == [u \in Users |-> NetOf(u)]
           none     == [e \in Live |-> 0]
<1>1. IsFiniteSet(Live) /\ IsFiniteSet(Users) BY LiveEntries, UsersAssumption
<1>2. \A u \in Users : nets[u] = SumFunctionOnSet(column[u], Live) /\ nets[u] \in Int
  BY NetIs
<1>3. \A e \in Live : perEntry[e] = SumFunctionOnSet(row[e], Users) OBVIOUS
<1>4. \A e \in Live : perEntry[e] \in Int /\ none[e] \in Int /\ perEntry[e] <= none[e]
  <2> SUFFICES ASSUME NEW e \in Live
               PROVE  perEntry[e] \in Int /\ none[e] \in Int /\ perEntry[e] <= none[e]
    OBVIOUS
  <2>1. perEntry[e] \in {0, -1} BY EntryNets
  <2>2. none[e] = 0 OBVIOUS
  <2> HIDE DEF perEntry, none
  <2> QED BY <2>1, <2>2
<1>5. Transposed(row, column, Live, Users)
  <2> HIDE DEF perEntry, nets
  <2>1. \A e \in Live : \A u \in Users : PartIn(e, u) \in Int BY LiveEntries
  <2>2. \A e \in Live : \A u \in Users : row[e][u] = PartIn(e, u) /\ column[u][e] = row[e][u]
    OBVIOUS
  <2> HIDE DEF row, column
  <2> QED BY <2>1, <2>2 DEF Transposed
<1>6. SumFunctionOnSet(none, Live) = 0 BY <1>1, SetSumZero
<1> HIDE DEF row, column, perEntry, nets, none
<1>7. \A u \in Users : nets[u] = SumFunctionOnSet(column[u], Live) BY <1>2
<1>8. SumFunctionOnSet(perEntry, Live) = SumFunctionOnSet(nets, Users)
  BY <1>1, <1>3, <1>5, <1>7, SetSumSwap
<1>9. SumFunctionOnSet(perEntry, Live) <= SumFunctionOnSet(none, Live)
  BY <1>1, <1>4, SetSumMonotone
<1>10. SumFunctionOnSet(nets, Users) \in Int
  <2>1. \A u \in Users : nets[u] \in Int BY <1>2
  <2> QED BY <1>1, <2>1, SetSumType
<1> QED BY <1>6, <1>8, <1>9, <1>10 DEF nets

\* A list of everybody in S with what f gives him, by position in the order e.
Numbers(s, e, n, S, f) ==
    /\ DOMAIN s = 1..n
    /\ \A k \in 1..n : e[k] \in S /\ f[e[k]] \in Int /\ s[k] = f[e[k]]
    /\ \A k, l \in 1..n : e[k] = e[l] => k = l
    /\ \A u \in S : \E k \in 1..n : e[k] = u

LEMMA NumbersAddUp ==
    ASSUME NEW n \in Nat, NEW s, NEW e, NEW S, NEW f, Numbers(s, e, n, S, f)
    PROVE  SumOf(s) = SumFunctionOnSet(f, S)
<1>1. DOMAIN s = 1..n BY DEF Numbers
<1>2. \A k \in 1..n : f[e[k]] \in Int /\ s[k] = f[e[k]] BY DEF Numbers
<1>3. \A k, l \in 1..n : e[k] = e[l] => k = l BY DEF Numbers
<1>4. {e[k] : k \in 1..n} = S BY DEF Numbers
<1>5. SumOf(s) = SumFunctionOnSet(f, {e[k] : k \in 1..n})
  BY <1>1, <1>2, <1>3, SetSumInOrder
<1> QED BY <1>4, <1>5

\* What a plan pays when its balances are those of everybody who has one.
LEMMA PlanPays ==
    ASSUME NEW d, \A u \in Users : d[u] \in Int, SumFunctionOnSet(d, Users) <= 0,
           NEW S \in SUBSET Users, \A u \in Users \ S : d[u] = 0,
           NEW b, b = [u \in S |-> d[u]], NEW plan \in Plans(b)
    PROVE  /\ \A u \in Users : d[u] > 0 => Net(plan, u) \in 0..d[u]
           /\ \A u \in Users : d[u] <= 0 => Net(plan, u) \in d[u]..0
           /\ SumFunctionOnSet([u \in {w \in Users : d[w] > 0} |-> d[u] - Net(plan, u)],
                               {w \in Users : d[w] > 0})
                <= Cardinality({u \in Users : d[u] = -1})
<1> DEFINE due   == {w \in Users : d[w] > 0}
           cents == {u \in Users : d[u] = -1}
<1>0. IsFiniteSet(Users) /\ IsFiniteSet(S) BY UsersAssumption, FS_Subset
<1>1. DOMAIN b = S /\ (\A u \in S : b[u] = d[u]) /\ WholeBalances(b)
  <2>1. DOMAIN b = S /\ \A u \in S : b[u] = d[u] OBVIOUS
  <2>2. \A u \in S : b[u] \in Int BY <2>1
  <2> QED BY <1>0, <2>1, <2>2 DEF WholeBalances
<1>2. PICK m : LoopInv(b, m) /\ ~More(m) /\ plan = m.transfers BY <1>1, PlansAreFinished
<1>3. PICK C, n : C = m.creditors /\ n = Len(C) OBVIOUS
<1>4. C \in Seq(Listing(S)) /\ plan \in Seq(Payments(S)) /\ n \in Nat
  <2>1. C \in Seq(Listing(S)) /\ plan \in Seq(Payments(S))
    BY <1>1, <1>2, <1>3 DEF LoopInv, LoopState
  <2> QED BY <1>3, <2>1
<1>5. ASSUME NEW u \in S
      PROVE  Net(plan, u) = ReceivedBy(plan, u) - SentBy(plan, u)
  <2>1. PICK net : net = [k \in 1..Len(plan) |-> IF plan[k].to = u THEN plan[k].amount
                                                 ELSE IF plan[k].from = u THEN -plan[k].amount
                                                 ELSE 0]
    OBVIOUS
  <2>2. Net(plan, u) = SumOf(net) BY <2>1 DEF Net
  <2> QED BY <1>1, <1>2, <2>1, <2>2, NetIsDifference
<1>6. ASSUME NEW u \in Users \ S PROVE Net(plan, u) = 0
  <2>1. PICK net, l : /\ net = [k \in 1..l |->
                                  IF plan[k].to = u THEN plan[k].amount
                                  ELSE IF plan[k].from = u THEN -plan[k].amount
                                  ELSE 0]
                      /\ l = Len(plan)
    OBVIOUS
  <2>2. Net(plan, u) = SumOf(net) BY <2>1 DEF Net
  <2>3. l \in Nat /\ \A k \in 1..l : plan[k] \in Payments(S) BY <1>4, <2>1
  <2>4. \A x \in Payments(S) : x.from # u /\ x.to # u BY <1>6 DEF Payments
  <2>5. DOMAIN net = 1..l /\ \A k \in 1..l : net[k] = 0 BY <2>1, <2>3, <2>4
  <2>6. SumOf(net) = 0 BY <2>3, <2>5, SumZero
  <2> QED BY <2>2, <2>6
<1>7. \A u \in S : /\ d[u] > 0 => /\ SentBy(plan, u) = 0
                                 /\ ReceivedBy(plan, u) \in 0..d[u]
                   /\ d[u] <= 0 => /\ ReceivedBy(plan, u) = 0
                                  /\ SentBy(plan, u) \in 0..(-d[u])
  BY <1>1, <1>2, LoopPays
<1>8. ASSUME NEW u \in Users, d[u] > 0 PROVE Net(plan, u) \in 0..d[u] /\ u \in S
  BY <1>5, <1>7, <1>8
<1>9. ASSUME NEW u \in Users, d[u] <= 0 PROVE Net(plan, u) \in d[u]..0
  <2>1. CASE u \in S
    <3>1. /\ Net(plan, u) = ReceivedBy(plan, u) - SentBy(plan, u)
          /\ ReceivedBy(plan, u) = 0 /\ SentBy(plan, u) \in 0..(-d[u])
      BY <1>5, <1>7, <1>9, <2>1
    <3>2. d[u] \in Int OBVIOUS
    <3> QED BY <3>1, <3>2
  <2>2. CASE u \notin S
    <3>1. d[u] = 0 /\ Net(plan, u) = 0 BY <1>6, <2>2
    <3> QED BY <3>1
  <2> QED BY <2>1, <2>2
<1>10. PICK f : f = [u \in due |-> d[u] - Net(plan, u)] OBVIOUS
<1>11. /\ \A k \in 1..n : /\ C[k].user \in due /\ C[k].amount \in Nat
                          /\ C[k].amount = f[C[k].user]
       /\ \A k, l \in 1..n : C[k].user = C[l].user => k = l
       /\ \A u \in due : \E k \in 1..n : C[k].user = u
  <2>1. \A k \in 1..n : C[k] \in Listing(S) BY <1>3, <1>4
  <2>2. \A x \in Listing(S) : x.user \in S /\ x.amount \in Nat BY DEF Listing
  <2>3. \A k \in 1..n : LET u == C[k].user
                        IN  b[u] > 0 /\ ReceivedBy(plan, u) + C[k].amount = b[u]
    BY <1>2, <1>3 DEF LoopInv, Books
  <2>4. \A k, l \in 1..n : C[k].user = C[l].user => k = l
    BY <1>2, <1>3 DEF LoopInv, Books
  <2>5. \A u \in S : b[u] > 0 => \E k \in 1..n : C[k].user = u
    BY <1>1, <1>2, <1>3 DEF LoopInv, Books
  <2>6. ASSUME NEW k \in 1..n
        PROVE  C[k].user \in due /\ C[k].amount \in Nat /\ C[k].amount = f[C[k].user]
    <3>1. PICK u, a : u = C[k].user /\ a = C[k].amount OBVIOUS
    <3>2. u \in S /\ a \in Nat BY <2>1, <2>2, <3>1
    <3>3. b[u] > 0 /\ ReceivedBy(plan, u) + a = b[u] BY <2>3, <3>1
    <3>4. b[u] = d[u] /\ d[u] \in Int /\ d[u] > 0 /\ u \in due BY <1>1, <3>2, <3>3
    <3>5. f[u] = d[u] - Net(plan, u) BY <1>10, <3>4
    <3>6. /\ Net(plan, u) = ReceivedBy(plan, u) - SentBy(plan, u)
          /\ SentBy(plan, u) = 0 /\ ReceivedBy(plan, u) \in 0..d[u]
      BY <1>5, <1>7, <3>2, <3>4
    <3>7. a = f[u] BY <3>2, <3>3, <3>4, <3>5, <3>6
    <3> QED BY <3>1, <3>2, <3>4, <3>7
  <2>7. \A u \in due : u \in S /\ b[u] > 0 BY <1>1, <1>8
  <2> QED BY <2>4, <2>5, <2>6, <2>7
<1>12. SumFunctionOnSet(f, due) = OpenIn(C)
  <2> HIDE DEF due
  <2>1. PICK s, e : s = [k \in 1..n |-> C[k].amount] /\ e = [k \in 1..n |-> C[k].user]
    OBVIOUS
  <2>2. OpenIn(C) = SumOf(s) BY <1>3, <2>1 DEF OpenIn
  <2>3. DOMAIN s = 1..n BY <2>1
  <2>4. \A k \in 1..n : e[k] \in due /\ f[e[k]] \in Int /\ s[k] = f[e[k]]
    BY <1>11, <2>1
  <2>5. \A k, l \in 1..n : e[k] = e[l] => k = l BY <1>11, <2>1
  <2>6. \A u \in due : \E k \in 1..n : e[k] = u BY <1>11, <2>1
  <2>7. Numbers(s, e, n, due, f) BY <2>3, <2>4, <2>5, <2>6 DEF Numbers
  <2>8. SumOf(s) = SumFunctionOnSet(f, due) BY <1>4, <2>7, NumbersAddUp
  <2> QED BY <2>2, <2>8
<1>13. SumFunctionOnSet(b, S) = SumFunctionOnSet(d, Users)
  <2>1. SumFunctionOnSet(d, Users) = SumFunctionOnSet(d, S)
    <3>1. \A u \in S : d[u] \in Int OBVIOUS
    <3> QED BY <1>0, <3>1, SetSumWithin
  <2>2. SumFunctionOnSet(b, S) = SumFunctionOnSet(d, S)
    <3>1. \A u \in S : b[u] \in Int /\ b[u] = d[u] BY <1>1
    <3> QED BY <1>0, <3>1, SetSumSame
  <2> QED BY <2>1, <2>2
<1>14. OneCentDebtors(b) = cents
  <2>1. \A u \in cents : u \in S /\ b[u] = -1 BY <1>1
  <2> QED BY <1>1, <2>1 DEF OneCentDebtors
<1>15. OpenIn(C) <= Cardinality(cents)
  <2> DEFINE c == OpenIn(C)
             o == OpenIn(m.debtors)
             k == Cardinality(cents)
             z == SumFunctionOnSet(d, Users)
  <2>1. c \in Nat /\ o \in Nat /\ (o = 0 \/ c = 0) /\ c - o = z + k
    BY <1>1, <1>2, <1>3, <1>13, <1>14, LoopEnds
  <2>2. k \in Nat
    <3>1. cents \in SUBSET Users OBVIOUS
    <3> HIDE DEF cents
    <3> QED BY <1>0, <3>1, FS_Subset, FS_CardinalityType
  <2>3. z \in Int /\ z <= 0 BY <1>0, SetSumType
  <2> HIDE DEF c, o, k, z
  <2>4. c <= k BY <2>1, <2>2, <2>3
  <2> QED BY <2>4 DEF c, k
<1>16. SumFunctionOnSet(f, due) <= Cardinality(cents) BY <1>12, <1>15
<1> QED BY <1>8, <1>9, <1>10, <1>16

\* Only the request itself goes from "owed" to "delete", when it makes its plan.
LEMMA OnlyPlanning ==
    ASSUME Types, [Next]_vars, NEW r \in Requests, pc[r] = "owed", pc'[r] = "delete"
    PROVE  PlanTransfers(r)
<1>1. pc \in [Requests -> PcLabels] BY DEF Types
<1>2. ~UNCHANGED pc OBVIOUS
<1>3. PICK q \in Requests : ReceiveGenerate(q) \/ ReceiveSettle(q) \/ Step(q) \/ Fail(q)
  BY <1>2 DEF Next, vars, GroupStep, LedgerStep
<1>4. \E label : pc' = [pc EXCEPT ![q] = label]
  BY <1>3 DEF ReceiveGenerate, ReceiveSettle, Step, Fail, Goto, Answer, LockGroup,
     ReadMembers, ReadPaid, PlanTransfers, DeleteBegins, DeleteRows, InsertItems,
     FindItem, CheckCaller, UpdateItems, Commit, ListItems, Audit
<1>5. q = r BY <1>1, <1>4
<1>6. ~Fail(r)
  <2> SUFFICES ASSUME Fail(r) PROVE FALSE OBVIOUS
  <2>1. pc' = [pc EXCEPT ![r] = "done"] BY DEF Fail, Answer
  <2> QED BY <1>1, <2>1
<1> QED
  BY <1>3, <1>5, <1>6 DEF ReceiveGenerate, ReceiveSettle, Step, LockGroup,
     ReadMembers, ReadPaid, DeleteBegins, DeleteRows, InsertItems,
     FindItem, CheckCaller, UpdateItems, Commit, ListItems, Audit

LEMMA PlanningPays ==
    ASSUME Types, [Next]_vars, NEW r \in Requests, PlansForAll(r)
    PROVE  PaysCreditors(tx'[r].plan)
<1>1. Ledger!LedgerTypeOK /\ tx \in [Requests -> TxType] BY DEF Types
<1>0. /\ pc[r] = "owed" /\ pc'[r] = "delete" /\ tx[r].paid = SumPaid
      /\ \A u \in Users \ tx[r].members : NetOf(u) = 0
  BY DEF PlansForAll
<1>2. PICK S, d : S = tx[r].members /\ d = [u \in Users |-> NetOf(u)] OBVIOUS
<1>3. S \in SUBSET Users
  <2>1. tx[r] \in TxType BY <1>1
  <2> QED BY <1>2, <2>1 DEF TxType
<1>4. \A u \in Users : d[u] = NetOf(u) /\ d[u] \in Int /\ d[u] = SumPaid[u] - SumOwed[u]
  BY <1>1, <1>2, NetIs
<1>5. SumFunctionOnSet(d, Users) <= 0 BY <1>1, <1>2, NobodyIsOwedMore
<1>6. PICK plan \in Plans([u \in tx[r].members |-> tx[r].paid[u] - SumOwed[u]]) :
        tx' = [tx EXCEPT ![r].plan = plan, ![r].members = {}, ![r].paid = None]
  <2>1. PlanTransfers(r) BY <1>0, OnlyPlanning
  <2> QED BY <2>1 DEF PlanTransfers
<1>7. tx'[r].plan = plan
  <2>1. tx[r] \in TxType /\ r \in DOMAIN tx BY <1>1
  <2> QED BY <1>6, <2>1 DEF TxType
<1>8. PICK b : b = [u \in S |-> d[u]] OBVIOUS
<1>9. plan \in Plans(b)
  <2>1. \A u \in S : d[u] = tx[r].paid[u] - SumOwed[u] BY <1>0, <1>2, <1>3, <1>4
  <2>2. b = [u \in tx[r].members |-> tx[r].paid[u] - SumOwed[u]] BY <1>2, <1>8, <2>1
  <2> QED BY <1>6, <2>2
<1>10. \A u \in Users \ S : d[u] = 0 BY <1>0, <1>2, <1>4
<1>11. \A u \in Users : d[u] \in Int BY <1>4
<1>12. /\ \A u \in Users : d[u] > 0 => Net(plan, u) \in 0..d[u]
       /\ \A u \in Users : d[u] <= 0 => Net(plan, u) \in d[u]..0
       /\ SumFunctionOnSet([u \in {w \in Users : d[w] > 0} |-> d[u] - Net(plan, u)],
                           {w \in Users : d[w] > 0})
            <= Cardinality({u \in Users : d[u] = -1})
  BY <1>3, <1>5, <1>8, <1>9, <1>10, <1>11, PlanPays
<1> DEFINE due == {u \in Users : NetOf(u) > 0}
<1>13. /\ {w \in Users : d[w] > 0} = due
       /\ {u \in Users : d[u] = -1} = {u \in Users : NetOf(u) = -1}
       /\ [u \in due |-> d[u] - Net(plan, u)] = [u \in due |-> NetOf(u) - Net(plan, u)]
  BY <1>4
<1>14. \A u \in due : Net(plan, u) \in 0..NetOf(u) BY <1>4, <1>12
<1>15. \A u \in Users \ due : Net(plan, u) \in NetOf(u)..0
  <2> SUFFICES ASSUME NEW u \in Users \ due PROVE Net(plan, u) \in NetOf(u)..0 OBVIOUS
  <2>1. d[u] = NetOf(u) /\ d[u] \in Int BY <1>4
  <2>2. d[u] <= 0 BY <2>1
  <2> QED BY <1>12, <2>1, <2>2
<1>16. SumFunction([u \in due |-> NetOf(u) - Net(plan, u)])
         <= Cardinality({u \in Users : NetOf(u) = -1})
  <2>1. SumFunction([u \in due |-> NetOf(u) - Net(plan, u)]) =
          SumFunctionOnSet([u \in due |-> NetOf(u) - Net(plan, u)], due)
    BY DEF SumFunction
  <2> QED BY <1>12, <1>13, <2>1
<1> QED BY <1>7, <1>14, <1>15, <1>16 DEF PaysCreditors

\* Generate: a plan made from one state of the ledger, when nobody but the members has
\* a balance, takes from nobody more than he owes, gives nobody more than he is due,
\* and leaves open of what is due at most the cents of those who owe one cent.
THEOREM PlansPayCreditors == Spec => PlanPaysCreditors
<1> DEFINE Pays == \A r \in Requests : PlansForAll(r) => PaysCreditors(tx'[r].plan)
<1>1. Types /\ [Next]_vars => [Pays]_vars BY PlanningPays
<1> HIDE DEF Pays
<1>2. Spec => [][Pays]_vars BY <1>1, BookInvariance, PTL DEF Spec
<1> QED BY <1>2 DEF PlanPaysCreditors, Pays
-----------------------------------------------------------------------------
\* The plan that rows make, by position.
PlanOf(rows) == [k \in Positions(rows) |-> CHOOSE s \in rows : s.id[2] = k]

LEMMA NoRows == PlanOf({}) = Book!NoPlan
BY DEF PlanOf, Positions, Book!NoPlan

LEMMA RowAt ==
    ASSUME NEW table, Numbered(table), NEW g, NEW s \in RowsOf(table, g)
    PROVE  /\ s.id[2] \in Positions(RowsOf(table, g))
           /\ PlanOf(RowsOf(table, g))[s.id[2]] = s
<1> DEFINE rows == RowsOf(table, g)
<1>1. s.id[2] \in Positions(rows) BY DEF Positions
<1>2. \A t \in rows : t.id[2] = s.id[2] => t = s
  <2> SUFFICES ASSUME NEW t \in rows, t.id[2] = s.id[2] PROVE t = s OBVIOUS
  <2>1. /\ t \in table /\ s \in table /\ t.id[1] = g /\ s.id[1] = g
    BY DEF RowsOf
  <2>2. t.id = << t.id[1], t.id[2] >> /\ s.id = << s.id[1], s.id[2] >> BY <2>1 DEF Numbered
  <2>3. t.id = s.id BY <2>1, <2>2
  <2> QED BY <2>1, <2>3 DEF Numbered
<1>3. (CHOOSE t \in rows : t.id[2] = s.id[2]) = s
  <2> HIDE DEF rows
  <2> QED BY <1>2
<1> QED BY <1>1, <1>3 DEF PlanOf

\* Rows of one Generate that are pending are a fresh plan.
LEMMA FreshPlan ==
    ASSUME NEW table, Numbered(table), NEW g \in Generations,
           \A s \in RowsOf(table, g) : s.status = "pending"
    PROVE  Book!Fresh(PlanOf(RowsOf(table, g)))
<1> DEFINE rows == RowsOf(table, g)
           plan == PlanOf(rows)
<1>1. DOMAIN plan = Positions(rows) BY DEF PlanOf
<1>2. PICK n \in Nat : Positions(rows) = 1..n BY DEF Numbered
<1>3. Book!Cardinality(1..n) = n
  <2>1. Book!Cardinality(1..n) = Cardinality(1..n) BY DEF Book!Cardinality, Cardinality
  <2> QED BY <2>1, FS_Interval
<1>4. ASSUME NEW k \in Positions(rows) PROVE plan[k].status = "pending"
  <2>1. PICK s \in rows : k = s.id[2] BY DEF Positions
  <2>2. plan[k] = s BY <2>1, RowAt
  <2> QED BY <2>1, <2>2
<1> HIDE DEF plan, rows
<1>5. Book!Fresh(plan) BY <1>1, <1>2, <1>3, <1>4 DEF Book!Fresh
<1> QED BY <1>5 DEF plan, rows

LEMMA InitIsBook == Init => Book!Init
<1> SUFFICES ASSUME Init PROVE Book!Init OBVIOUS
<1>1. Numbered(settlements) BY BookInit DEF BookInv
<1>2. \A s \in settlements : s.id[1] = Origin /\ s.status = "pending"
  BY ItemsAreRows DEF Init
<1>3. \A g \in Generations : BookView[g] = PlanOf(RowsOf(settlements, g))
  BY DEF BookView, PlanOf, Positions, RowsOf
<1>4. \A g \in Generations : Book!Fresh(BookView[g])
  BY <1>1, <1>2, <1>3, FreshPlan DEF RowsOf
<1>5. \A g \in Generations : g # Origin => BookView[g] = Book!NoPlan
  <2> SUFFICES ASSUME NEW g \in Generations, g # Origin PROVE BookView[g] = Book!NoPlan
    OBVIOUS
  <2>1. RowsOf(settlements, g) = {} BY <1>2 DEF RowsOf
  <2> QED BY <1>3, <2>1, NoRows
<1> QED BY <1>4, <1>5 DEF Book!Init

LEMMA GenerateIsPublish ==
    ASSUME IInv, BookInv, BookInv', NEW r \in Requests, Commit(r), tx[r].op = "generate"
    PROVE  Book!Publish(r)
<1>1. /\ \A g \in Generations : BookView[g] = PlanOf(RowsOf(settlements, g))
      /\ \A g \in Generations : BookView'[g] = PlanOf(RowsOf(settlements', g))
      /\ r \in Generations
  BY DEF BookView, PlanOf, Positions, RowsOf, Generations
<1>2. BookView[r] = Book!NoPlan BY <1>1, PlanReplaces, NoRows
<1>3. Book!Fresh(BookView'[r])
  <2>1. \A s \in RowsOf(settlements', r) : s.status = "pending" BY PlanReplaces, ItemsAreRows
  <2>2. Numbered(settlements') BY DEF BookInv
  <2> QED BY <1>1, <2>1, <2>2, FreshPlan
<1>4. \A h \in Generations \ {r} : BookView'[h] \in {BookView[h], Book!NoPlan}
  <2> SUFFICES ASSUME NEW h \in Generations \ {r}
               PROVE  BookView'[h] \in {BookView[h], Book!NoPlan}
    OBVIOUS
  <2>1. RowsOf(settlements', h) \in {RowsOf(settlements, h), {}} BY PlanReplaces
  <2> QED BY <1>1, <2>1, NoRows
<1> QED BY <1>2, <1>3, <1>4 DEF Book!Publish

LEMMA SettleIsSettle ==
    ASSUME IInv, BookInv, BookInv', NEW r \in Requests, Commit(r), tx[r].op = "settle"
    PROVE  Book!Settle
<1>1. /\ \A g \in Generations : BookView[g] = PlanOf(RowsOf(settlements, g))
      /\ \A g \in Generations : BookView'[g] = PlanOf(RowsOf(settlements', g))
  BY DEF BookView, PlanOf, Positions, RowsOf
<1>2. Numbered(settlements) /\ Numbered(settlements') BY DEF BookInv
<1>3. PICK after : /\ settlements' = {after[s] : s \in settlements}
                   /\ \A s \in settlements :
                         /\ after[s].id = s.id
                         /\ after[s] \in {s, [s EXCEPT !.status = "settled"]}
  BY SettleChanges
<1>4. ASSUME NEW g \in Generations
      PROVE  /\ DOMAIN BookView'[g] = DOMAIN BookView[g]
             /\ \A k \in DOMAIN BookView[g] :
                   BookView'[g][k] \in {BookView[g][k],
                                        [BookView[g][k] EXCEPT !.status = "settled"]}
  <2>1. Positions(RowsOf(settlements', g)) = Positions(RowsOf(settlements, g))
    BY <1>3 DEF Positions, RowsOf
  <2>2. /\ DOMAIN BookView'[g] = Positions(RowsOf(settlements', g))
        /\ DOMAIN BookView[g] = Positions(RowsOf(settlements, g))
    BY <1>1 DEF PlanOf
  <2>3. ASSUME NEW k \in Positions(RowsOf(settlements, g))
        PROVE  BookView'[g][k] \in {BookView[g][k],
                                    [BookView[g][k] EXCEPT !.status = "settled"]}
    <3>1. PICK s \in RowsOf(settlements, g) : k = s.id[2] BY DEF Positions
    <3>2. BookView[g][k] = s BY <1>1, <1>2, <3>1, RowAt
    <3>3. after[s] \in RowsOf(settlements', g) /\ after[s].id[2] = k
      BY <1>3, <3>1 DEF RowsOf
    <3>4. BookView'[g][k] = after[s] BY <1>1, <1>2, <3>3, RowAt
    <3> QED BY <1>3, <3>1, <3>2, <3>4 DEF RowsOf
  <2> QED BY <2>1, <2>2, <2>3
<1> QED BY <1>4 DEF Book!Settle

\* The settlements table implements the book: whatever requests run at once,
\* plans appear whole, disappear whole and only go from pending to settled.
THEOREM ImplementsBook == Spec => BookSpec
<1>1. Init => Book!Init BY InitIsBook
<1>3. IInv /\ BookInv /\ BookInv' /\ [Next]_vars => [Book!Next]_BookView
  <2> SUFFICES ASSUME IInv, BookInv, BookInv', [Next]_vars, ~UNCHANGED BookView
               PROVE  Book!Next
    OBVIOUS
  <2>1. ~UNCHANGED settlements BY DEF BookView
  <2>2. PICK r \in Requests : Commit(r)
    BY <2>1 DEF Next, vars, ReceiveGenerate, ReceiveSettle, Step, Fail, GroupStep,
       LedgerStep, Answer, LockGroup, ReadMembers, ReadPaid, PlanTransfers,
       DeleteBegins, DeleteRows, InsertItems, FindItem, CheckCaller, UpdateItems,
       ListItems, Audit
  <2>3. CASE tx[r].op = "generate"
    BY <2>2, <2>3, GenerateIsPublish DEF Book!Next, Generations
  <2>4. CASE tx[r].op = "settle" BY <2>2, <2>4, SettleIsSettle DEF Book!Next
  <2> QED BY <2>2, <2>3, <2>4, Committed
<1> QED BY <1>1, <1>3, Invariance, BookInvariance, PTL DEF Spec, BookSpec, Book!Spec
=============================================================================
