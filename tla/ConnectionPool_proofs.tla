------------------------ MODULE ConnectionPool_proofs ------------------------
(***************************************************************************)
(* For any pool and any requests: who has rows locked never waits for a    *)
(* connection, and handlers stop each other only as transactions that hold *)
(* every connection and wait for one more.                                 *)
(***************************************************************************)
EXTENDS ConnectionPool, FiniteSetTheorems, TLAPS

\* Who holds a connection is being handled, and has not committed.
Owned(r) == /\ holds[r] = 1 => /\ InFlight(r)
                               /\ \A k \in 1..step[r] : script[r][k] # "commit"
            /\ step[r] <= Len(script[r])
            /\ state[r] \in {"waiting", "running"} => step[r] < Len(script[r])

\* A row is kept locked by one transaction at a time.
RowsApart == \A q, r \in Requests :
                Locking(q) /\ Locking(r) /\ row[q] = row[r] => q = r

IInv == /\ TypeOK
        /\ InUse <= size
        /\ \A r \in Requests : Owned(r)
        /\ LockersNeedNoConnection
        /\ RowsApart
-----------------------------------------------------------------------------
\* A script begins at most once, at its start, and after a write needs no
\* connection before it commits.
LEMMA Scripts ==
    ASSUME NEW h \in Handlers
    PROVE  /\ h \in Seq(Kinds)
           /\ Len(h) \in Nat \ {0}
           /\ \A k \in 1..Len(h) : h[k] \in Kinds /\ (h[k] = "begin" => k = 1)
           /\ \A j, k \in 1..Len(h) :
                 h[j] = "write" /\ j < k /\ h[k] \in {"db", "lock"} =>
                    \E i \in j..k : h[i] = "commit"
<1>1. CASE h = ExpenseCreate BY <1>1 DEF ExpenseCreate, Kinds
<1>2. CASE h = ExpenseUpdate BY <1>2 DEF ExpenseUpdate, Kinds
<1>3. CASE h = ExpenseDelete BY <1>3 DEF ExpenseDelete, Kinds
<1>4. CASE h = Generate BY <1>4 DEF Generate, Kinds
<1>5. CASE h = Settle BY <1>5 DEF Settle, Kinds
<1>6. CASE h = GroupCreate BY <1>6 DEF GroupCreate, Kinds
<1>7. CASE h = GroupArchive BY <1>7 DEF GroupArchive, Kinds
<1>8. CASE h = GroupStats BY <1>8 DEF GroupStats, Kinds
<1> QED BY <1>1, <1>2, <1>3, <1>4, <1>5, <1>6, <1>7, <1>8 DEF Handlers

\* The pool's use does not grow when nobody is added.
LEMMA NobodyAdded ==
    ASSUME Holders' \subseteq Holders, Singles' \subseteq Singles, InUse <= size,
           size \in Sizes, UNCHANGED size
    PROVE  InUse' <= size'
<1>1. Holders \subseteq Requests /\ Singles \subseteq Requests BY DEF Holders, Singles
<1>2. IsFiniteSet(Holders) /\ IsFiniteSet(Singles) BY <1>1, SizeAssumption, FS_Subset
<1>3. Cardinality(Holders') <= Cardinality(Holders) BY <1>2, FS_Subset
<1>4. Cardinality(Singles') <= Cardinality(Singles) BY <1>2, FS_Subset
<1>5. /\ Cardinality(Holders) \in Nat /\ Cardinality(Singles) \in Nat
      /\ Cardinality(Holders') \in Nat /\ Cardinality(Singles') \in Nat
  BY <1>2, FS_Subset, FS_CardinalityType
<1> QED BY <1>3, <1>4, <1>5, SizeAssumption DEF InUse

\* What an action of one request leaves to the others.
LEMMA Alone ==
    ASSUME IInv, NEW r \in Requests,
           UNCHANGED << script, row >>,
           \A q \in Requests \ {r} : /\ state'[q] = state[q]
                                     /\ holds'[q] = holds[q]
                                     /\ step'[q] = step[q],
           Owned(r)', Locking(r)' => state'[r] # "waiting",
           Locking(r)' => Locking(r) \/ RowFree(r)
    PROVE  (\A q \in Requests : Owned(q))' /\ LockersNeedNoConnection' /\ RowsApart'
<1>1. ASSUME NEW q \in Requests \ {r} PROVE Owned(q)' /\ (Locking(q)' => state'[q] # "waiting")
  <2>1. Owned(q) /\ (Locking(q) => state[q] # "waiting")
    BY DEF IInv, LockersNeedNoConnection
  <2> QED BY <2>1 DEF Owned, InFlight, Locking
<1>2. \A q \in Requests \ {r} : Locking(q)' = Locking(q) BY DEF Locking
<1>3. RowsApart' BY <1>2 DEF IInv, RowsApart, RowFree
<1> QED BY <1>1, <1>3 DEF LockersNeedNoConnection

LEMMA OneMore ==
    ASSUME NEW S, IsFiniteSet(S), NEW x
    PROVE  IsFiniteSet(S \cup {x}) /\ Cardinality(S \cup {x}) <= Cardinality(S) + 1
<1>1. Cardinality(S) \in Nat BY FS_CardinalityType
<1>2. Cardinality(S \cup {x}) = Cardinality(S) \/ Cardinality(S \cup {x}) = Cardinality(S) + 1
  BY FS_AddElement
<1> QED BY <1>1, <1>2, FS_AddElement

LEMMA Initially == Init => IInv
<1> SUFFICES ASSUME Init PROVE IInv OBVIOUS
<1>1. Holders = {} /\ Singles = {} BY DEF Init, Holders, Singles
<1>2. InUse <= size BY <1>1, FS_EmptySet, SizeAssumption DEF InUse, Init
<1>3. \A r \in Requests : Owned(r) BY Scripts DEF Init, Owned
<1>4. LockersNeedNoConnection /\ RowsApart
  BY DEF Init, LockersNeedNoConnection, RowsApart, Locking
<1> QED BY <1>2, <1>3, <1>4 DEF IInv, Init, TypeOK

LEMMA AcceptKeeps == ASSUME IInv, NEW r \in Requests, Accept(r) PROVE IInv'
<1>1. TypeOK' BY DEF IInv, TypeOK, Accept, Become
<1>2. Holders' = Holders /\ Singles' \subseteq Singles
  BY DEF Accept, Become, Holders, Singles, Stmt, IInv, TypeOK
<1>3. (InUse <= size)' BY <1>2, NobodyAdded DEF IInv, TypeOK, Accept
<1>4. Owned(r)' /\ state'[r] = "ready" /\ Locking(r)' = Locking(r)
  BY DEF IInv, TypeOK, Accept, Become, Owned, InFlight, Locking
<1>5. (\A q \in Requests : Owned(q))' /\ LockersNeedNoConnection' /\ RowsApart'
  BY <1>4, Alone DEF IInv, TypeOK, Accept, Become
<1> QED BY <1>1, <1>3, <1>5 DEF IInv

LEMMA AskKeeps == ASSUME IInv, NEW r \in Requests, Ask(r) PROVE IInv'
<1>1. TypeOK' BY DEF IInv, TypeOK, Ask, Become
<1>2. Holders' = Holders BY DEF Ask, Holders
<1>3. Singles' \subseteq Singles
  BY DEF Ask, Become, Holders, Singles, Stmt, IInv, TypeOK
<1>4. (InUse <= size)' BY <1>2, <1>3, NobodyAdded DEF IInv, TypeOK, Ask
<1>5. Owned(r) /\ script[r] \in Handlers /\ step[r] \in Nat BY DEF IInv, TypeOK
<1>6. Len(script[r]) \in Nat /\ step[r] < Len(script[r])
  BY <1>5, Scripts DEF Ask, Finished, Owned
<1>7. Owned(r)' /\ UNCHANGED << script, step, holds, row >>
  BY <1>5, <1>6 DEF IInv, TypeOK, Ask, Become, Owned, InFlight
<1>8. /\ Locking(r)' => state'[r] # "waiting"
      /\ Locking(r)' = Locking(r)
  <2>1. SUFFICES ASSUME Locking(r), Stmt(r) \in {"begin", "db", "lock"} PROVE FALSE
    BY <1>7 DEF IInv, TypeOK, Ask, Become, Locking
  <2>2. PICK j \in 1..step[r] : script[r][j] = "write" BY <2>1 DEF Locking
  <2>3. Stmt(r) # "begin" BY <1>5, <1>6, <2>2, Scripts DEF Stmt
  <2>4. \E i \in j..(step[r] + 1) : script[r][i] = "commit"
    <3> DEFINE n == step[r] + 1
               h == script[r]
    <3>1. /\ n \in 1..Len(h) /\ j \in 1..Len(h) /\ j < n
          /\ h[n] \in {"db", "lock"} /\ h[j] = "write" /\ h \in Handlers
      BY <1>5, <1>6, <2>1, <2>2, <2>3 DEF Stmt
    <3> HIDE DEF n, h
    <3>2. \E i \in j..n : h[i] = "commit" BY <3>1, Scripts
    <3> QED BY <3>2 DEF n, h
  <2>5. PICK i \in 1..step[r] : script[r][i] = "commit"
    BY <1>5, <2>1, <2>2, <2>3, <2>4 DEF Stmt
  <2> QED BY <1>5, <2>1, <2>5 DEF Owned, Locking
<1>9. (\A q \in Requests : Owned(q))' /\ LockersNeedNoConnection' /\ RowsApart'
  BY <1>7, <1>8, Alone DEF IInv, TypeOK, Ask, Become
<1> QED BY <1>1, <1>4, <1>9 DEF IInv

LEMMA ConnectKeeps == ASSUME IInv, NEW r \in Requests, Connect(r) PROVE IInv'
<1>1. TypeOK' BY DEF IInv, TypeOK, Connect, Become
<1>2. Owned(r) /\ script[r] \in Handlers /\ step[r] \in Nat BY DEF IInv, TypeOK
<1>3. /\ step[r] < Len(script[r]) /\ Len(script[r]) \in Nat
      /\ UNCHANGED << script, step, row >>
  BY <1>2, Scripts DEF Connect, Owned
<1>4. /\ state' = [state EXCEPT ![r] = "running"]
      /\ holds' = [holds EXCEPT ![r] = IF Stmt(r) = "begin" THEN 1 ELSE @]
  BY DEF Connect, Become
<1>5. Stmt(r) = "begin" => step[r] = 0 BY <1>2, <1>3, Scripts DEF Stmt
<1>6. Owned(r)' /\ state'[r] # "waiting" /\ (Locking(r)' => Locking(r))
  BY <1>2, <1>3, <1>4, <1>5 DEF IInv, TypeOK, Owned, InFlight, Locking
<1>7. (\A q \in Requests : Owned(q))' /\ LockersNeedNoConnection' /\ RowsApart'
  BY <1>3, <1>4, <1>6, Alone DEF IInv, TypeOK
<1>8. \/ Holders' \subseteq Holders \cup {r} /\ Singles' \subseteq Singles
      \/ Holders' \subseteq Holders /\ Singles' \subseteq Singles \cup {r}
  <2>1. CASE Stmt(r) = "begin"
    BY <1>3, <1>4, <2>1 DEF IInv, TypeOK, Holders, Singles, Stmt
  <2>2. CASE Stmt(r) # "begin"
    BY <1>3, <1>4, <2>2 DEF IInv, TypeOK, Holders, Singles, Stmt
  <2> QED BY <2>1, <2>2
<1>9. (InUse <= size)'
  <2>1. InUse < size /\ size' = size /\ size \in Nat
    BY SizeAssumption DEF Connect, IInv, TypeOK
  <2>2. Holders \subseteq Requests /\ Singles \subseteq Requests
    BY DEF Holders, Singles
  <2>3. IsFiniteSet(Holders) /\ IsFiniteSet(Singles) BY <2>2, SizeAssumption, FS_Subset
  <2>4. /\ IsFiniteSet(Holders \cup {r}) /\ IsFiniteSet(Singles \cup {r})
        /\ Cardinality(Holders \cup {r}) <= Cardinality(Holders) + 1
        /\ Cardinality(Singles \cup {r}) <= Cardinality(Singles) + 1
    BY <2>3, OneMore
  <2>5. /\ Cardinality(Holders) \in Nat /\ Cardinality(Singles) \in Nat
        /\ Cardinality(Holders') \in Nat /\ Cardinality(Singles') \in Nat
    BY <1>8, <2>3, <2>4, FS_Subset, FS_CardinalityType
  <2>6. \/ /\ Cardinality(Holders') <= Cardinality(Holders \cup {r})
           /\ Cardinality(Singles') <= Cardinality(Singles)
        \/ /\ Cardinality(Holders') <= Cardinality(Holders)
           /\ Cardinality(Singles') <= Cardinality(Singles \cup {r})
    BY <1>8, <2>3, <2>4, FS_Subset
  <2>7. Cardinality(Holders \cup {r}) \in Nat /\ Cardinality(Singles \cup {r}) \in Nat
    BY <2>4, FS_CardinalityType
  <2> QED BY <2>1, <2>4, <2>5, <2>6, <2>7 DEF InUse
<1> QED BY <1>1, <1>7, <1>9 DEF IInv

LEMMA ExecuteKeeps == ASSUME IInv, NEW r \in Requests, Execute(r) PROVE IInv'
<1>1. TypeOK' BY DEF IInv, TypeOK, Execute, Become
<1>2. Owned(r) /\ script[r] \in Handlers /\ step[r] \in Nat BY DEF IInv, TypeOK
<1>3. /\ step[r] < Len(script[r]) /\ Len(script[r]) \in Nat
      /\ UNCHANGED << script, row >>
  BY <1>2, Scripts DEF Execute, Owned
<1>4. /\ state' = [state EXCEPT ![r] = "ready"]
      /\ step' = [step EXCEPT ![r] = @ + 1]
      /\ holds' = [holds EXCEPT ![r] = IF Stmt(r) = "commit" THEN 0 ELSE @]
  BY DEF Execute, Become
<1>5. Owned(r)' /\ state'[r] # "waiting"
  <2>1. state'[r] = "ready" /\ step'[r] = step[r] + 1 BY <1>4 DEF IInv, TypeOK
  <2>2. ASSUME holds'[r] = 1 PROVE \A k \in 1..step'[r] : script'[r][k] # "commit"
    <3>1. Stmt(r) # "commit" /\ holds[r] = 1 BY <1>4, <2>2 DEF IInv, TypeOK
    <3> QED BY <1>2, <1>3, <2>1, <3>1 DEF Owned, Stmt
  <2> QED BY <1>2, <1>3, <2>1, <2>2 DEF Owned, InFlight
<1>10. Locking(r)' => Locking(r) \/ RowFree(r)
  <2>1. SUFFICES ASSUME Locking(r)', ~RowFree(r) PROVE Locking(r) OBVIOUS
  <2>2. Stmt(r) # "write" BY <2>1 DEF Execute
  <2>3. step'[r] = step[r] + 1 /\ holds[r] = 1 /\ holds'[r] = 1
    BY <1>4, <2>1 DEF IInv, TypeOK, Locking
  <2>4. PICK k \in 1..(step[r] + 1) : script[r][k] = "write" BY <1>3, <2>1, <2>3 DEF Locking
  <2>5. k \in 1..step[r] BY <1>2, <2>2, <2>4 DEF Stmt
  <2> QED BY <2>3, <2>4, <2>5 DEF Locking
<1>6. (\A q \in Requests : Owned(q))' /\ LockersNeedNoConnection' /\ RowsApart'
  BY <1>3, <1>4, <1>5, <1>10, Alone DEF IInv, TypeOK
<1>7. Holders' \subseteq Holders BY <1>4 DEF IInv, TypeOK, Holders
<1>8. Singles' \subseteq Singles BY <1>3, <1>4 DEF IInv, TypeOK, Singles, Stmt
<1>9. (InUse <= size)' BY <1>7, <1>8, NobodyAdded DEF IInv, TypeOK, Execute
<1> QED BY <1>1, <1>6, <1>9 DEF IInv

LEMMA ReplyKeeps == ASSUME IInv, NEW r \in Requests, Reply(r) PROVE IInv'
<1>1. TypeOK' BY DEF IInv, TypeOK, Reply, Become
<1>2. Owned(r) BY DEF IInv
<1>3. /\ state' = [state EXCEPT ![r] = "done"]
      /\ holds' = [holds EXCEPT ![r] = 0]
      /\ UNCHANGED << script, step, row >>
  BY DEF Reply, Become
<1>4. Owned(r)' /\ state'[r] # "waiting" /\ ~Locking(r)'
  BY <1>2, <1>3 DEF IInv, TypeOK, Owned, Locking
<1>5. (\A q \in Requests : Owned(q))' /\ LockersNeedNoConnection' /\ RowsApart'
  BY <1>3, <1>4, Alone DEF IInv, TypeOK
<1>6. Holders' \subseteq Holders /\ Singles' \subseteq Singles
  BY <1>3 DEF IInv, TypeOK, Holders, Singles, Stmt
<1>7. (InUse <= size)' BY <1>6, NobodyAdded DEF IInv, TypeOK, Reply
<1> QED BY <1>1, <1>5, <1>7 DEF IInv

LEMMA ProcessKeeps ==
    ASSUME IInv, UNCHANGED << size, script, row, step, state, holds >>,
           phase' \in {"serving", "draining", "exited"}
    PROVE  IInv'
<1>1. TypeOK' BY DEF IInv, TypeOK
<1>2. \A q \in Requests : Owned(q)' BY DEF IInv, Owned, InFlight
<1>3. LockersNeedNoConnection' /\ RowsApart'
  BY DEF IInv, LockersNeedNoConnection, RowsApart, Locking
<1>4. Holders' = Holders /\ Singles' = Singles BY DEF Holders, Singles, Stmt
<1>5. (InUse <= size)' BY <1>4, NobodyAdded DEF IInv, TypeOK
<1> QED BY <1>1, <1>2, <1>3, <1>5 DEF IInv

\* The inductive invariant of the handlers and the pool.
THEOREM Invariance == Spec => []IInv
<1>1. IInv /\ [Next]_vars => IInv'
  <2> SUFFICES ASSUME IInv, [Next]_vars PROVE IInv' OBVIOUS
  <2>1. ASSUME NEW r \in Requests, Accept(r) \/ Proceed(r) PROVE IInv'
    BY <2>1, AcceptKeeps, AskKeeps, ConnectKeeps, ExecuteKeeps, ReplyKeeps DEF Proceed
  <2>2. CASE Signal BY <2>2, ProcessKeeps DEF Signal
  <2>3. CASE Exit BY <2>3, ProcessKeeps DEF Exit
  <2>4. CASE UNCHANGED vars BY <2>4, ProcessKeeps DEF vars, IInv, TypeOK
  <2> QED BY <2>1, <2>2, <2>3, <2>4 DEF Next
<1> QED BY <1>1, Initially, PTL DEF Spec

\* Every variable keeps its type, for any pool and any requests.
THEOREM TypeCorrect == Spec => []TypeOK
BY Invariance, PTL DEF IInv

\* No handler waits for a connection while its transaction keeps rows locked.
THEOREM LockersGoOn == Spec => []LockersNeedNoConnection
BY Invariance, PTL DEF IInv

\* However many requests and connections there are, handlers can only block each
\* other as transactions that hold all connections and wait for one more.
THEOREM OnlyTheCircle == Spec => []StuckOnlyByCircle
<1> DEFINE Waits(r) == /\ state[r] = "running" /\ Stmt(r) \in {"write", "lock"}
                       /\ ~RowFree(r)
<1>1. ASSUME IInv, NEW w \in Requests, state[w] = "waiting",
             \A r \in Requests : InFlight(r) => Blocked(r) \/ Waits(r)
      PROVE  CircularWait
  <2>1. \A q \in Requests : Locking(q) => InFlight(q) /\ state[q] # "waiting"
    BY <1>1 DEF IInv, Owned, LockersNeedNoConnection, Locking
  <2>2. \A q \in Requests : Locking(q) => RowFree(q)
    BY <1>1 DEF IInv, RowsApart, RowFree
  <2>3. \A q \in Requests : ~Locking(q) BY <1>1, <2>1, <2>2 DEF Blocked
  <2>4. \A r \in Requests : RowFree(r) BY <2>3 DEF RowFree
  <2>5. \A r \in Requests : InFlight(r) => Blocked(r) BY <1>1, <2>4
  <2>6. Singles = {} BY <2>5 DEF Singles, InFlight, Blocked
  <2>7. \A r \in Holders : state[r] = "waiting"
    BY <1>1, <2>5 DEF IInv, Owned, Holders, Blocked
  <2>8. InUse >= size BY <1>1, <2>5 DEF InFlight, Blocked
  <2>9. Cardinality(Holders) \in Nat
    <3>1. Holders \subseteq Requests BY DEF Holders
    <3> QED BY <3>1, SizeAssumption, FS_Subset, FS_CardinalityType
  <2>10. InUse = Cardinality(Holders) BY <2>6, <2>9, FS_EmptySet DEF InUse
  <2> QED BY <1>1, <2>7, <2>8, <2>9, <2>10, SizeAssumption DEF IInv, TypeOK, CircularWait
<1>2. IInv => StuckOnlyByCircle BY <1>1 DEF StuckOnlyByCircle
<1> QED BY <1>2, Invariance, PTL
=============================================================================
