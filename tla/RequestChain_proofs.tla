------------------------- MODULE RequestChain_proofs -------------------------
(***************************************************************************)
(* For any limit, window and number of requests: a window's key outlives   *)
(* the requests that are still to be counted in it, so Redis never lets    *)
(* more than the limit pass in a window; what is confirmed is accounted    *)
(* for; and whatever part of a minute is counted by Redis and whatever     *)
(* part by the memory of the process, fewer than four times the limit pass *)
(* in any minute.  For the sums of what has passed the lemmas of           *)
(* Transfers_proofs are used; what else that module is about plays no role.*)
(***************************************************************************)
EXTENDS RequestChain, Transfers_proofs, TLAPS

\* When the key of window w may be gone, at the earliest.
Gone(w) == (w + 2) * Minute

\* A request is counted less than a minute after it has read the clock.
Timely(s) == pc[s] = "redis" => /\ at[s] \in Ticks
                                /\ at[s] <= now /\ now < at[s] + Minute

Counted(w) ==
    /\ granted[w] <= Limit
    /\ expires[w] = NoKey => count[w] = 0 /\ (granted[w] = 0 \/ Gone(w) <= now)
    /\ expires[w] # NoKey => granted[w] <= count[w]
    /\ expires[w] >= 0 => Gone(w) <= expires[w]

\* What has been done and noted for an outcome t at place l.
Noted(t, l) ==
    /\ t.done => t.kind \in Writes
    /\ t.service # "no" => t.done \/ t.kind = "export"
    /\ l = "record" => Recorded(t) /\ (t.done \/ t.kind = "export")
    /\ l \in {"trace", "idle"} /\ t.done /\ t.ok /\ t.kind = "ledger" => t.service # "no"
    /\ l = "idle" /\ t.done /\ t.ok => t.generic # "no"

Told(s) == /\ pc[s] \in {"redis", "memory", "handle"} => tx[s] = Nothing
           /\ Noted(tx[s], pc[s])

IInv == /\ TypeOK
        /\ \A s \in Slots : Timely(s) /\ Told(s)
        /\ \A w \in Windows : Counted(w)
-----------------------------------------------------------------------------
LEMMA Division ==
    ASSUME NEW t \in Nat
    PROVE  /\ t \div Minute \in 0..t
           /\ Gone(t \div Minute) <= t + 2 * Minute
           /\ t + Minute < Gone(t \div Minute)
<1> DEFINE w == t \div Minute
<1>1. w \in Nat /\ w * Minute <= t /\ t < w * Minute + Minute
  BY LimitAssumption, Z3
<1>2. w <= w * Minute BY <1>1, LimitAssumption, Z3
<1>3. (w + 2) * Minute = w * Minute + 2 * Minute BY <1>1, LimitAssumption, Z3
<1> HIDE DEF w
<1>4. w * Minute \in Nat BY <1>1, LimitAssumption, Z3
<1>5. w \in 0..t /\ Gone(w) <= t + 2 * Minute /\ t + Minute < Gone(w)
  BY <1>1, <1>2, <1>3, <1>4, LimitAssumption DEF Gone
<1> QED BY <1>5 DEF w

LEMMA GoneIsNat == \A w \in Windows : Gone(w) \in Nat
BY LimitAssumption, BoundAssumption, Z3 DEF Gone, Windows, Ticks

\* The window a request is counted in has a key, or nothing was granted there.
LEMMA WindowOfRequest ==
    ASSUME IInv, NEW s \in Slots, pc[s] = "redis", NEW w, w = at[s] \div Minute
    PROVE  /\ w \in Windows /\ at[s] \in Ticks /\ at[s] \in Nat
           /\ now < Gone(w) /\ Gone(w) <= now + 2 * Minute
           /\ granted[w] <= count[w]
<1>1. at[s] \in Nat /\ at[s] \in Ticks /\ at[s] <= now /\ now < at[s] + Minute
  BY BoundAssumption DEF IInv, Timely, Ticks
<1>2. now \in Nat /\ MaxTime \in Nat /\ at[s] <= MaxTime
  BY <1>1, BoundAssumption DEF IInv, TypeOK, Ticks
<1>3. /\ w \in 0..at[s]
      /\ Gone(w) <= at[s] + 2 * Minute
      /\ at[s] + Minute < Gone(w)
  BY <1>1, Division
<1>4. w \in Windows BY <1>1, <1>2, <1>3 DEF Windows, Ticks
<1>5. Gone(w) \in Nat BY <1>4, GoneIsNat
<1>6. now < Gone(w) /\ Gone(w) <= now + 2 * Minute
  BY <1>1, <1>2, <1>3, <1>5, LimitAssumption
<1>7. Counted(w) /\ granted[w] \in Nat /\ count[w] \in Nat BY <1>4 DEF IInv, TypeOK
<1>8. granted[w] <= count[w] BY <1>2, <1>5, <1>6, <1>7 DEF Counted
<1> QED BY <1>1, <1>4, <1>6, <1>8

LEMMA Initially == Init => IInv
<1> SUFFICES ASSUME Init PROVE IInv OBVIOUS
<1>1. TypeOK BY BoundAssumption DEF Init, TypeOK, Ticks, Windows, None, NoKey, Outcome, Kinds,
                                    Nothing
<1>2. \A s \in Slots : Timely(s) /\ Told(s) BY DEF Init, Timely, Told, Noted, Nothing
<1>3. \A w \in Windows : Counted(w) BY LimitAssumption DEF Init, Counted, NoKey
<1> QED BY <1>1, <1>2, <1>3 DEF IInv

\* What a step of one request leaves to the others.
LEMMA Alone ==
    ASSUME IInv, NEW s \in Slots, UNCHANGED now,
           \A q \in Slots \ {s} : pc'[q] = pc[q] /\ at'[q] = at[q] /\ tx'[q] = tx[q],
           Timely(s)', Told(s)'
    PROVE  \A q \in Slots : Timely(q)' /\ Told(q)'
<1>1. \A q \in Slots \ {s} : Timely(q) /\ Told(q) BY DEF IInv
<1> QED BY <1>1 DEF Timely, Told

LEMMA SameKeys ==
    ASSUME IInv, UNCHANGED << now, count, expires, granted >>
    PROVE  \A w \in Windows : Counted(w)'
BY DEF IInv, Counted

LEMMA ArriveKeeps == ASSUME IInv, NEW s \in Slots, Arrive(s) PROVE IInv'
<1>1. TypeOK'
  BY BoundAssumption DEF IInv, TypeOK, Arrive, Go, Nothing, Outcome, Kinds
<1>2. Timely(s)' /\ Told(s)'
  <2>1. /\ tx'[s] = Nothing
        /\ pc'[s] = IF client THEN "redis" ELSE "idle"
        /\ at'[s] = IF client THEN now ELSE None
        /\ now' = now
    BY DEF IInv, TypeOK, Arrive, Go
  <2>2. now \in Ticks /\ now \in Nat BY BoundAssumption DEF IInv, TypeOK, Ticks
  <2> QED BY <2>1, <2>2, LimitAssumption DEF Timely, Told, Noted, Nothing
<1>3. \A q \in Slots : Timely(q)' /\ Told(q)' BY <1>2, Alone DEF IInv, TypeOK, Arrive, Go
<1>4. \A w \in Windows : Counted(w)' BY SameKeys DEF Arrive
<1> QED BY <1>1, <1>3, <1>4 DEF IInv

LEMMA CountRedisKeeps == ASSUME IInv, NEW s \in Slots, CountRedis(s) PROVE IInv'
<1> DEFINE w == at[s] \div Minute
<1>1. pc[s] = "redis" BY DEF CountRedis
<1>2. /\ w \in Windows /\ at[s] \in Ticks
      /\ now < Gone(w) /\ Gone(w) <= now + 2 * Minute
      /\ granted[w] <= count[w]
  BY <1>1, WindowOfRequest
<1>3. /\ count' = [count EXCEPT ![w] = @ + 1]
      /\ expires' = [expires EXCEPT ![w] = now + 2 * Minute]
      /\ granted' = [granted EXCEPT ![w] = IF count[w] < Limit THEN @ + 1 ELSE @]
      /\ at' = [at EXCEPT ![s] = None]
      /\ Admit(s, count[w] < Limit, at[s])
      /\ UNCHANGED << client, now, bucket, tx, arrivals >>
  BY DEF CountRedis
<1> HIDE DEF w
<1>4. /\ now \in Nat /\ count[w] \in Nat /\ granted[w] \in Nat /\ Limit \in Nat
      /\ Minute \in Nat
  BY <1>2, BoundAssumption, LimitAssumption DEF IInv, TypeOK, Ticks
<1>5. now + 2 * Minute \in Nat BY <1>4
<1>6. /\ pc'[s] \in {"handle", "idle"}
      /\ pc' = [pc EXCEPT ![s] = pc'[s]]
      /\ passed' \in [Ticks -> Nat]
  BY <1>2, <1>3 DEF IInv, TypeOK, Admit, Pass, Go
<1>7. TypeOK' BY <1>2, <1>3, <1>4, <1>5, <1>6 DEF IInv, TypeOK
<1>8. Timely(s)' /\ Told(s)'
  BY <1>1, <1>3, <1>6 DEF IInv, Timely, Told, Noted, Nothing
<1>9. \A q \in Slots : Timely(q)' /\ Told(q)' BY <1>3, <1>6, <1>8, Alone DEF IInv, TypeOK
<1>10. ASSUME NEW v \in Windows PROVE Counted(v)'
  <2>1. CASE v = w
    <3>1. /\ count'[w] = count[w] + 1
          /\ expires'[w] = now + 2 * Minute
          /\ granted'[w] = IF count[w] < Limit THEN granted[w] + 1 ELSE granted[w]
      BY <1>2, <1>3 DEF IInv, TypeOK
    <3>2. granted[w] <= Limit BY <1>2 DEF IInv, Counted
    <3>3. expires'[w] # NoKey BY <1>4, <3>1 DEF NoKey
    <3>4. granted'[w] <= Limit /\ granted'[w] <= count'[w] BY <1>2, <1>4, <3>1, <3>2
    <3> QED BY <1>2, <2>1, <3>1, <3>3, <3>4 DEF Counted
  <2>2. CASE v # w
    <3>1. /\ count'[v] = count[v] /\ expires'[v] = expires[v]
          /\ granted'[v] = granted[v] /\ now' = now
      BY <1>3, <2>2 DEF IInv, TypeOK
    <3> QED BY <3>1 DEF IInv, Counted
  <2> QED BY <2>1, <2>2
<1> QED BY <1>7, <1>9, <1>10 DEF IInv

LEMMA FailRedisKeeps == ASSUME IInv, NEW s \in Slots, FailRedis(s) PROVE IInv'
<1> DEFINE w == at[s] \div Minute
<1>1. pc[s] = "redis" BY DEF FailRedis
<1>2. /\ w \in Windows
      /\ now < Gone(w) /\ Gone(w) <= now + 2 * Minute
      /\ granted[w] <= count[w]
  BY <1>1, WindowOfRequest
<1>3. /\ pc' = [pc EXCEPT ![s] = "memory"]
      /\ at' = [at EXCEPT ![s] = None]
      /\ UNCHANGED << client, now, bucket, tx, arrivals, granted, passed >>
      /\ \/ UNCHANGED << count, expires >>
         \/ /\ count' = [count EXCEPT ![w] = @ + 1]
            /\ \/ expires' = [expires EXCEPT ![w] = now + 2 * Minute]
               \/ expires' = [expires EXCEPT ![w] = IF @ = NoKey THEN Never ELSE @]
  BY DEF FailRedis, Go
<1> HIDE DEF w
<1>4. /\ now \in Nat /\ count[w] \in Nat /\ granted[w] \in Nat /\ Minute \in Nat
  BY <1>2, BoundAssumption, LimitAssumption DEF IInv, TypeOK, Ticks
<1>5. now + 2 * Minute \in Nat BY <1>4
<1>6. TypeOK' BY <1>2, <1>3, <1>4, <1>5 DEF IInv, TypeOK
<1>7. Timely(s)' /\ Told(s)' BY <1>1, <1>3 DEF IInv, TypeOK, Timely, Told, Noted, Nothing
<1>8. \A q \in Slots : Timely(q)' /\ Told(q)' BY <1>3, <1>7, Alone DEF IInv, TypeOK
<1>9. ASSUME NEW v \in Windows PROVE Counted(v)'
  <2>1. CASE UNCHANGED << count, expires >> BY <1>3, <2>1, SameKeys
  <2>2. CASE v = w /\ count' = [count EXCEPT ![w] = @ + 1]
    <3>1. /\ count'[w] = count[w] + 1 /\ granted'[w] = granted[w] /\ now' = now
          /\ \/ expires'[w] = now + 2 * Minute
             \/ expires'[w] = Never
             \/ expires'[w] = expires[w] /\ expires[w] # NoKey
      BY <1>2, <1>3, <1>4, <2>2 DEF IInv, TypeOK
    <3>2. granted[w] <= Limit /\ (expires[w] >= 0 => Gone(w) <= expires[w])
      BY <1>2 DEF IInv, Counted
    <3>3. expires'[w] # NoKey BY <1>4, <3>1 DEF NoKey, Never
    <3>4. granted'[w] <= count'[w] BY <1>2, <1>4, <3>1
    <3>5. expires'[w] >= 0 => Gone(w) <= expires'[w] BY <1>2, <3>1, <3>2 DEF Never
    <3> QED BY <2>2, <3>1, <3>2, <3>3, <3>4, <3>5 DEF Counted
  <2>3. CASE v # w
    <3>1. /\ count'[v] = count[v] /\ expires'[v] = expires[v]
          /\ granted'[v] = granted[v] /\ now' = now
      BY <1>3, <2>3 DEF IInv, TypeOK
    <3> QED BY <3>1 DEF IInv, Counted
  <2> QED BY <1>3, <2>1, <2>2, <2>3
<1> QED BY <1>6, <1>8, <1>9 DEF IInv

LEMMA CountMemoryKeeps == ASSUME IInv, NEW s \in Slots, CountMemory(s) PROVE IInv'
<1>1. /\ pc[s] = "memory" /\ UNCHANGED << client, now, count, expires, at, tx, arrivals, granted >>
      /\ \E allowed \in BOOLEAN : Admit(s, allowed, now)
  BY DEF CountMemory
<1>2. now \in Ticks /\ now \in Nat BY BoundAssumption DEF IInv, TypeOK, Ticks
<1>3. now + Minute \in Nat /\ bucket.count + 1 \in Nat
  BY <1>2, LimitAssumption DEF IInv, TypeOK
<1>4. bucket' \in [count : Nat, reset : Nat \cup {None}]
  BY <1>3 DEF IInv, TypeOK, CountMemory
<1>5. /\ pc'[s] \in {"handle", "idle"}
      /\ pc' = [pc EXCEPT ![s] = pc'[s]]
      /\ passed' \in [Ticks -> Nat]
  BY <1>1, <1>2 DEF IInv, TypeOK, Admit, Pass, Go
<1>6. TypeOK' BY <1>1, <1>4, <1>5 DEF IInv, TypeOK
<1>7. Timely(s)' /\ Told(s)' BY <1>1, <1>5 DEF IInv, Timely, Told, Noted, Nothing
<1>8. \A q \in Slots : Timely(q)' /\ Told(q)' BY <1>1, <1>5, <1>7, Alone DEF IInv, TypeOK
<1>9. \A w \in Windows : Counted(w)' BY <1>1, SameKeys
<1> QED BY <1>6, <1>8, <1>9 DEF IInv

\* The steps behind the limiter differ in what they note.
LEMMA RespondKeeps ==
    ASSUME IInv, NEW s \in Slots, pc[s] # "idle", UNCHANGED << limiter, now >>,
           NEW t \in Outcome, NEW l \in {"idle", "record", "trace"},
           Respond(s, t, l), Noted(t, l)
    PROVE  IInv'
<1>1. TypeOK' BY DEF IInv, TypeOK, limiter, Respond, Go
<1>2. /\ pc'[s] = l /\ tx'[s] = t
      /\ \A q \in Slots \ {s} : pc'[q] = pc[q] /\ at'[q] = at[q] /\ tx'[q] = tx[q]
  BY DEF IInv, TypeOK, limiter, Respond, Go
<1>3. Timely(s)' /\ Told(s)' BY <1>2 DEF Timely, Told
<1>4. \A q \in Slots : Timely(q)' /\ Told(q)' BY <1>2, <1>3, Alone
<1>5. \A w \in Windows : Counted(w)' BY SameKeys DEF limiter
<1> QED BY <1>1, <1>4, <1>5 DEF IInv

LEMMA HandleKeeps == ASSUME IInv, NEW s \in Slots, Handle(s) PROVE IInv'
<1>1. pc[s] = "handle" /\ UNCHANGED << limiter, now >> /\ tx[s] = Nothing
  BY DEF Handle, IInv, Told
<1>2. CASE Go(s, "idle") /\ UNCHANGED tx
  <2>1. Respond(s, Nothing, "idle") BY <1>1, <1>2 DEF IInv, TypeOK, Respond
  <2>2. Nothing \in Outcome /\ Noted(Nothing, "idle")
    BY DEF Nothing, Outcome, Kinds, Noted
  <2> QED BY <1>1, <2>1, <2>2, RespondKeeps
<1>3. ASSUME NEW t \in Outcomes, Respond(s, t, IF Recorded(t) THEN "record" ELSE "trace")
      PROVE  IInv'
  <2>1. t \in Outcome BY DEF Outcomes
  <2>2. CASE Recorded(t)
    <3>1. Noted(t, "record") BY <2>2 DEF Outcomes, Recorded, Noted
    <3> QED BY <1>1, <1>3, <2>1, <2>2, <3>1, RespondKeeps
  <2>3. CASE ~Recorded(t)
    <3>1. Noted(t, "trace") BY <2>3 DEF Outcomes, Recorded, Noted
    <3> QED BY <1>1, <1>3, <2>1, <2>3, <3>1, RespondKeeps
  <2> QED BY <2>2, <2>3
<1> QED BY <1>2, <1>3 DEF Handle

LEMMA RecordKeeps == ASSUME IInv, NEW s \in Slots, Record(s) PROVE IInv'
<1>1. /\ pc[s] = "record" /\ UNCHANGED << limiter, now >> /\ tx[s] \in Outcome
      /\ Noted(tx[s], "record")
  BY DEF Record, IInv, TypeOK, Told
<1>2. PICK e \in {"yes", "lost"}, ok \in BOOLEAN :
         Respond(s, [tx[s] EXCEPT !.service = e, !.ok = ok], "trace")
  BY DEF Record
<1>3. PICK t : t = [tx[s] EXCEPT !.service = e, !.ok = ok] OBVIOUS
<1>4. t \in Outcome /\ t.service = e /\ t.kind = tx[s].kind /\ t.done = tx[s].done
  BY <1>1, <1>3 DEF Outcome
<1>5. Noted(t, "trace") BY <1>1, <1>4 DEF Noted
<1> QED BY <1>1, <1>2, <1>3, <1>4, <1>5, RespondKeeps

LEMMA TraceKeeps == ASSUME IInv, NEW s \in Slots, Trace(s) PROVE IInv'
<1>1. /\ pc[s] = "trace" /\ UNCHANGED << limiter, now >> /\ tx[s] \in Outcome
      /\ Noted(tx[s], "trace")
  BY DEF Trace, IInv, TypeOK, Told
<1>2. CASE ~Traced(tx[s]) /\ Go(s, "idle") /\ UNCHANGED tx
  <2>1. Respond(s, tx[s], "idle") BY <1>2 DEF IInv, TypeOK, Respond
  <2>2. Noted(tx[s], "idle") BY <1>1, <1>2 DEF Noted, Traced
  <2> QED BY <1>1, <2>1, <2>2, RespondKeeps
<1>3. ASSUME NEW e \in {"yes", "lost"}, Respond(s, [tx[s] EXCEPT !.generic = e], "idle")
      PROVE  IInv'
  <2>1. PICK t : t = [tx[s] EXCEPT !.generic = e] OBVIOUS
  <2>2. /\ t \in Outcome /\ t.generic # "no" /\ t.service = tx[s].service
        /\ t.kind = tx[s].kind /\ t.done = tx[s].done /\ t.ok = tx[s].ok
    BY <1>1, <2>1 DEF Outcome
  <2>3. Noted(t, "idle") BY <1>1, <2>2 DEF Noted
  <2> QED BY <1>1, <1>3, <2>1, <2>2, <2>3, RespondKeeps
<1> QED BY <1>2, <1>3 DEF Trace

\* A key is dropped only when its window is beyond the reach of any request.
LEMMA TickKeeps == ASSUME IInv, Tick PROVE IInv'
<1>1. /\ now \in Nat /\ now < MaxTime /\ now' = now + 1 /\ now' \in Ticks
      /\ UNCHANGED << client, bucket, pc, at, tx, arrivals, granted, passed >>
      /\ \A s \in Slots : pc[s] = "redis" => now + 1 < at[s] + Minute
  BY BoundAssumption DEF IInv, TypeOK, Tick, Ticks
<1> DEFINE Dropped(w) == expires[w] >= 0 /\ expires[w] <= now + 1
<1>2. /\ count' = [w \in Windows |-> IF Dropped(w) THEN 0 ELSE count[w]]
      /\ expires' = [w \in Windows |-> IF Dropped(w) THEN NoKey ELSE expires[w]]
  BY DEF Tick
<1>3. TypeOK' BY <1>1, <1>2 DEF IInv, TypeOK
<1>4. \A s \in Slots : Timely(s)' /\ Told(s)'
  <2> SUFFICES ASSUME NEW s \in Slots PROVE Timely(s)' /\ Told(s)' OBVIOUS
  <2>1. Timely(s) /\ Told(s) BY DEF IInv
  <2>2. Told(s)' BY <1>1, <2>1 DEF Told
  <2>3. pc[s] = "redis" => at[s] \in Ticks /\ at[s] <= now + 1
    BY <1>1, <2>1, BoundAssumption DEF Timely, Ticks
  <2> QED BY <1>1, <2>2, <2>3 DEF Timely
<1>5. ASSUME NEW w \in Windows PROVE Counted(w)'
  <2>1. /\ Counted(w) /\ Gone(w) \in Nat /\ granted'[w] = granted[w]
        /\ expires[w] \in Nat \cup {NoKey, Never}
    BY <1>1, GoneIsNat DEF IInv, TypeOK
  <2>2. CASE Dropped(w)
    <3>1. count'[w] = 0 /\ expires'[w] = NoKey BY <1>2, <2>2
    <3>2. Gone(w) <= now' BY <1>1, <2>1, <2>2 DEF Counted, NoKey, Never
    <3> QED BY <2>1, <3>1, <3>2 DEF Counted, NoKey
  <2>3. CASE ~Dropped(w)
    <3>1. count'[w] = count[w] /\ expires'[w] = expires[w] BY <1>2, <2>3
    <3>2. Gone(w) <= now => Gone(w) <= now' BY <1>1, <2>1
    <3> QED BY <2>1, <3>1, <3>2 DEF Counted
  <2> QED BY <2>2, <2>3
<1> QED BY <1>3, <1>4, <1>5 DEF IInv

LEMMA StutterKeeps == ASSUME IInv, UNCHANGED vars PROVE IInv'
<1>1. TypeOK' BY DEF IInv, TypeOK, vars
<1>2. \A s \in Slots : Timely(s)' /\ Told(s)' BY DEF IInv, Timely, Told, vars
<1>3. \A w \in Windows : Counted(w)' BY SameKeys DEF vars
<1> QED BY <1>1, <1>2, <1>3 DEF IInv

\* The inductive invariant of the limiter and the audit log.
THEOREM Invariance == Spec => []IInv
<1>1. IInv /\ [Next]_vars => IInv'
  <2> SUFFICES ASSUME IInv, [Next]_vars PROVE IInv' OBVIOUS
  <2>1. ASSUME NEW s \in Slots, Step(s) PROVE IInv'
    BY <2>1, ArriveKeeps, CountRedisKeeps, FailRedisKeeps, CountMemoryKeeps, HandleKeeps,
       RecordKeeps, TraceKeeps
       DEF Step
  <2> QED BY <2>1, TickKeeps, StutterKeeps DEF Next
<1> QED BY <1>1, Initially, PTL DEF Spec

\* Every variable keeps its type, for any limit, window and number of requests.
THEOREM TypeCorrect == Spec => []TypeOK
BY Invariance, PTL DEF IInv

\* Redis never lets more requests of a window pass than the limit: EXPIRE with
\* two windows keeps the key until the last of them has been counted.
THEOREM WindowsAreLimited == Spec => []WindowLimit
<1>1. IInv => WindowLimit BY DEF IInv, Counted, WindowLimit
<1> QED BY <1>1, Invariance, PTL

\* Every committed change that is confirmed to its client has its entries in the
\* audit log, or a failed insert of one; no other change is recorded.
THEOREM ChangesAreAccounted == Spec => []Accounted
<1>1. IInv => Accounted BY DEF IInv, Told, Noted, Accounted
<1> QED BY <1>1, Invariance, PTL
-----------------------------------------------------------------------------
\* Who has let pass what: r counts what Redis has, m what the bucket in memory has.

InWindow(w) == {u \in Ticks : u \div Minute = w}
Span(t, e)  == {u \in Ticks : t <= u /\ u < e}
From(t)     == {u \in Ticks : t <= u}

\* Redis: no more in a window than was granted there.
RedisInv(r, g) == /\ r \in [Ticks -> Nat]
                  /\ \A w \in Windows : SumFunctionOnSet(r, InWindow(w)) <= g[w]

\* Memory: nothing after the bucket's reset.  Since it was begun, and with a pass, it
\* has let pass as much as it has counted and no more than the limit; in the minute
\* before, and in any minute, the older ones have left room.
MemoryInv(m, b, n) ==
    LET begun == b.reset - Minute
    IN  /\ m \in [Ticks -> Nat]
        /\ \A t \in Ticks : t > b.reset => m[t] = 0
        /\ b.reset # None =>
              /\ begun \in Ticks /\ begun <= n /\ m[begun] >= 1
              /\ SumFunctionOnSet(m, From(begun)) <= Limit
              /\ SumFunctionOnSet(m, From(begun)) <= b.count
              /\ \A t \in Ticks : t < begun /\ begun < t + Minute =>
                    SumFunctionOnSet(m, Span(t, begun)) < Limit
        /\ \A t \in Ticks : SumFunctionOnSet(m, Span(t, t + Minute)) < 2 * Limit

LimitInv == \E r, m : /\ RedisInv(r, granted) /\ MemoryInv(m, bucket, now)
                      /\ \A t \in Ticks : passed[t] = r[t] + m[t]

\* What is let pass in some ticks, and when one more is.
LEMMA PassesAddUp ==
    ASSUME NEW m \in [Ticks -> Nat], NEW S \in SUBSET Ticks
    PROVE  /\ IsFiniteSet(S)
           /\ SumFunctionOnSet(m, S) \in Nat
           /\ \A T \in SUBSET S : SumFunctionOnSet(m, T) <= SumFunctionOnSet(m, S)
           /\ \A n \in Ticks : SumFunctionOnSet([m EXCEPT ![n] = @ + 1], S) =
                                  SumFunctionOnSet(m, S) + (IF n \in S THEN 1 ELSE 0)
<1>1. IsFiniteSet(S)
  <2>1. IsFiniteSet(Ticks) BY BoundAssumption, FS_Interval DEF Ticks
  <2> QED BY <2>1, FS_Subset
<1>2. \A x \in S : m[x] \in Nat OBVIOUS
<1>3. SumFunctionOnSet(m, S) \in Nat BY <1>1, <1>2, SetSumNat
<1>4. \A T \in SUBSET S : SumFunctionOnSet(m, T) <= SumFunctionOnSet(m, S)
  BY <1>1, <1>2, SetSumPart
<1>5. ASSUME NEW n \in Ticks
      PROVE  SumFunctionOnSet([m EXCEPT ![n] = @ + 1], S) =
                SumFunctionOnSet(m, S) + (IF n \in S THEN 1 ELSE 0)
  <2>1. PICK g : g = [m EXCEPT ![n] = @ + 1] OBVIOUS
  <2>2. \A x \in S : m[x] \in Int /\ g[x] = IF x = n THEN m[x] + 1 ELSE m[x] BY <2>1
  <2>3. SumFunctionOnSet(g, S) = SumFunctionOnSet(m, S) + (IF n \in S THEN 1 ELSE 0)
    BY <1>1, <2>2, SetSumBump
  <2> QED BY <2>1, <2>3
<1> QED BY <1>1, <1>3, <1>4, <1>5

LEMMA RedisCounts ==
    ASSUME NEW r, NEW g \in [Windows -> Nat], RedisInv(r, g), NEW t \in Ticks,
           NEW w \in Windows, w = t \div Minute
    PROVE  RedisInv([r EXCEPT ![t] = @ + 1], [g EXCEPT ![w] = @ + 1])
<1>1. PICK r2, g2 : r2 = [r EXCEPT ![t] = @ + 1] /\ g2 = [g EXCEPT ![w] = @ + 1] OBVIOUS
<1>2. r \in [Ticks -> Nat] BY DEF RedisInv
<1>3. r2 \in [Ticks -> Nat] BY <1>1, <1>2
<1>4. ASSUME NEW v \in Windows PROVE SumFunctionOnSet(r2, InWindow(v)) <= g2[v]
  <2>1. InWindow(v) \in SUBSET Ticks /\ (t \in InWindow(v) <=> v = w) BY DEF InWindow
  <2>2. /\ SumFunctionOnSet(r, InWindow(v)) \in Nat
        /\ SumFunctionOnSet(r2, InWindow(v)) =
              SumFunctionOnSet(r, InWindow(v)) + (IF t \in InWindow(v) THEN 1 ELSE 0)
    BY <1>1, <1>2, <2>1, PassesAddUp
  <2>3. SumFunctionOnSet(r, InWindow(v)) <= g[v] BY DEF RedisInv
  <2>4. g2[v] = (IF v = w THEN g[v] + 1 ELSE g[v]) /\ g[v] \in Nat BY <1>1
  <2> QED BY <2>1, <2>2, <2>3, <2>4
<1> QED BY <1>1, <1>3, <1>4 DEF RedisInv

\* Later than a minute before its reset the bucket leaves room for one more.
LEMMA RoomLater ==
    ASSUME NEW m, NEW b \in [count : Nat, reset : Nat \cup {None}], NEW n, MemoryInv(m, b, n),
           NEW S \in SUBSET Ticks, \A u \in S : u > b.reset - Minute
    PROVE  SumFunctionOnSet(m, S) < Limit
<1>1. m \in [Ticks -> Nat] /\ Limit \in Nat \ {0} BY LimitAssumption DEF MemoryInv
<1>2. IsFiniteSet(S) BY <1>1, PassesAddUp
<1>3. CASE b.reset = None
  <2>1. \A u \in S : u \in Nat BY BoundAssumption DEF Ticks
  <2>2. \A u \in S : m[u] = 0 BY <1>3, <2>1 DEF MemoryInv, None
  <2>3. SumFunctionOnSet(m, S) = 0 BY <1>2, <2>2, SetSumZero
  <2> QED BY <1>1, <2>3
<1>4. CASE b.reset # None
  <2>1. PICK e, F : e = b.reset - Minute /\ F = From(e) OBVIOUS
  <2>2. e \in Ticks /\ m[e] >= 1 /\ SumFunctionOnSet(m, F) <= Limit
    BY <1>4, <2>1 DEF MemoryInv
  <2>3. F \in SUBSET Ticks /\ e \in F /\ F \ {e} \in SUBSET Ticks
    BY <2>1, <2>2, BoundAssumption DEF From, Ticks
  <2>4. S \in SUBSET (F \ {e})
    BY <2>1, <2>2, BoundAssumption DEF From, Ticks
  <2>5. SumFunctionOnSet(m, S) <= SumFunctionOnSet(m, F \ {e}) BY <1>1, <2>3, <2>4, PassesAddUp
  <2>6. SumFunctionOnSet(m, F) = m[e] + SumFunctionOnSet(m, F \ {e})
    <3>1. IsFiniteSet(F) /\ \A x \in F : m[x] \in Int BY <1>1, <2>3, PassesAddUp
    <3> QED BY <2>3, <3>1, SetSumRemove
  <2>7. /\ SumFunctionOnSet(m, S) \in Nat /\ SumFunctionOnSet(m, F \ {e}) \in Nat
        /\ m[e] \in Nat
    BY <1>1, <2>2, <2>3, PassesAddUp
  <2> QED BY <1>1, <2>2, <2>5, <2>6, <2>7
<1> QED BY <1>3, <1>4

\* A new bucket begins with a pass.
LEMMA MemoryBegins ==
    ASSUME NEW m, NEW b \in [count : Nat, reset : Nat \cup {None}], NEW n \in Ticks,
           MemoryInv(m, b, n), n > b.reset
    PROVE  MemoryInv([m EXCEPT ![n] = @ + 1], [count |-> 1, reset |-> n + Minute], n)
<1>1. PICK m2, b2 : m2 = [m EXCEPT ![n] = @ + 1] /\ b2 = [count |-> 1, reset |-> n + Minute]
  OBVIOUS
<1>2. /\ m \in [Ticks -> Nat] /\ m2 \in [Ticks -> Nat] /\ m2[n] = m[n] + 1
      /\ \A t \in Ticks \ {n} : m2[t] = m[t]
      /\ \A t \in Ticks : t > b.reset => m[t] = 0
  BY <1>1 DEF MemoryInv
<1>3. /\ n \in Nat /\ Limit \in Nat \ {0} /\ Minute \in Nat \ {0} /\ Ticks \subseteq Nat
      /\ b.reset \in Int
  BY LimitAssumption, BoundAssumption DEF Ticks, None
<1>4. b2.count = 1 /\ b2.reset = n + Minute /\ b2.reset - Minute = n /\ b2.reset # None
  BY <1>1, <1>3 DEF None
<1>5. \A t \in Ticks : t > b2.reset => m2[t] = 0 BY <1>2, <1>3, <1>4
<1>6. m2[n] >= 1 BY <1>2
<1>7. SumFunctionOnSet(m2, From(n)) = 1
  <2>0. PICK F : F = From(n) OBVIOUS
  <2>1. F \in SUBSET Ticks /\ n \in F BY <1>3, <2>0 DEF From
  <2>2. \A t \in F : m[t] = 0 BY <1>2, <1>3, <2>0 DEF From
  <2>3. IsFiniteSet(F) BY <1>2, <2>1, PassesAddUp
  <2>4. SumFunctionOnSet(m, F) = 0 BY <2>2, <2>3, SetSumZero
  <2>5. SumFunctionOnSet(m2, F) = SumFunctionOnSet(m, F) + (IF n \in F THEN 1 ELSE 0)
    BY <1>1, <1>2, <2>1, PassesAddUp
  <2> QED BY <2>0, <2>1, <2>4, <2>5
<1>8. ASSUME NEW t \in Ticks, t < n, n < t + Minute
      PROVE  SumFunctionOnSet(m2, Span(t, n)) < Limit
  <2>0. PICK S : S = Span(t, n) OBVIOUS
  <2>1. S \in SUBSET Ticks /\ n \notin S BY <1>3, <2>0 DEF Span
  <2>2. \A u \in S : u > b.reset - Minute BY <1>3, <1>8, <2>0 DEF Span
  <2>3. SumFunctionOnSet(m, S) < Limit BY <2>1, <2>2, RoomLater
  <2>4. /\ SumFunctionOnSet(m, S) \in Nat
        /\ SumFunctionOnSet(m2, S) = SumFunctionOnSet(m, S) + (IF n \in S THEN 1 ELSE 0)
    BY <1>1, <1>2, <2>1, PassesAddUp
  <2> QED BY <2>0, <2>1, <2>3, <2>4
<1>9. ASSUME NEW t \in Ticks PROVE SumFunctionOnSet(m2, Span(t, t + Minute)) < 2 * Limit
  <2>1. PICK S : S = Span(t, t + Minute) OBVIOUS
  <2>2. S \in SUBSET Ticks /\ (n \in S <=> t <= n /\ n < t + Minute) BY <2>1 DEF Span
  <2>3. /\ SumFunctionOnSet(m, S) \in Nat
        /\ SumFunctionOnSet(m2, S) = SumFunctionOnSet(m, S) + (IF n \in S THEN 1 ELSE 0)
    BY <1>1, <1>2, <2>2, PassesAddUp
  <2>4. SumFunctionOnSet(m, S) < 2 * Limit BY <2>1 DEF MemoryInv
  <2>5. CASE n \in S
    <3>1. \A u \in S : u > b.reset - Minute BY <1>3, <2>1, <2>2, <2>5 DEF Span
    <3>2. SumFunctionOnSet(m, S) < Limit BY <2>2, <3>1, RoomLater
    <3> QED BY <1>3, <2>1, <2>3, <2>5, <3>2
  <2>6. CASE n \notin S BY <2>1, <2>3, <2>4, <2>6
  <2> QED BY <2>5, <2>6
<1>10. MemoryInv(m2, b2, n)
  <2>1. /\ n <= n /\ SumFunctionOnSet(m2, From(n)) <= Limit
        /\ SumFunctionOnSet(m2, From(n)) <= b2.count
    BY <1>3, <1>4, <1>7
  <2> QED BY <1>2, <1>4, <1>5, <1>6, <1>8, <1>9, <2>1 DEF MemoryInv
<1> QED BY <1>1, <1>10

\* The bucket lets one more pass.
LEMMA MemoryGoesOn ==
    ASSUME NEW m, NEW b \in [count : Nat, reset : Nat \cup {None}], NEW n \in Ticks,
           MemoryInv(m, b, n), n <= b.reset, b.count + 1 <= Limit
    PROVE  MemoryInv([m EXCEPT ![n] = @ + 1], [b EXCEPT !.count = @ + 1], n)
<1>1. PICK m2, b2, e : /\ m2 = [m EXCEPT ![n] = @ + 1] /\ b2 = [b EXCEPT !.count = @ + 1]
                       /\ e = b.reset - Minute
  OBVIOUS
<1>2. /\ m \in [Ticks -> Nat] /\ m2 \in [Ticks -> Nat] /\ m2[n] = m[n] + 1
      /\ \A t \in Ticks \ {n} : m2[t] = m[t]
      /\ \A t \in Ticks : t > b.reset => m[t] = 0
  BY <1>1 DEF MemoryInv
<1>3. /\ n \in Nat /\ Limit \in Nat \ {0} /\ Minute \in Nat \ {0} /\ Ticks \subseteq Nat
      /\ b.reset \in Int /\ b.count \in Nat
  BY LimitAssumption, BoundAssumption DEF Ticks, None
<1>4. b.reset # None BY <1>3 DEF None
<1>5. b2.count = b.count + 1 /\ b2.reset = b.reset BY <1>1
<1>6. /\ e \in Ticks /\ e <= n /\ m[e] >= 1 /\ e \in Nat
      /\ SumFunctionOnSet(m, From(e)) <= Limit
      /\ SumFunctionOnSet(m, From(e)) <= b.count
      /\ \A t \in Ticks : t < e /\ e < t + Minute => SumFunctionOnSet(m, Span(t, e)) < Limit
  BY <1>1, <1>3, <1>4 DEF MemoryInv
<1>7. \A t \in Ticks : t > b.reset => m2[t] = 0 BY <1>2, <1>3
<1>8. m2[e] >= 1 BY <1>2, <1>6
<1>9. /\ SumFunctionOnSet(m, From(e)) \in Nat
      /\ SumFunctionOnSet(m2, From(e)) = SumFunctionOnSet(m, From(e)) + 1
  <2>1. PICK F : F = From(e) OBVIOUS
  <2>2. F \in SUBSET Ticks /\ n \in F BY <1>6, <2>1 DEF From
  <2>3. /\ SumFunctionOnSet(m, F) \in Nat
        /\ SumFunctionOnSet(m2, F) = SumFunctionOnSet(m, F) + (IF n \in F THEN 1 ELSE 0)
    BY <1>1, <1>2, <2>2, PassesAddUp
  <2> QED BY <2>1, <2>2, <2>3
<1>10. ASSUME NEW t \in Ticks
       PROVE  /\ SumFunctionOnSet(m2, Span(t, e)) = SumFunctionOnSet(m, Span(t, e))
              /\ SumFunctionOnSet(m2, Span(t, e)) \in Nat
  <2>1. PICK S : S = Span(t, e) OBVIOUS
  <2>2. S \in SUBSET Ticks /\ n \notin S BY <1>3, <1>6, <2>1 DEF Span
  <2>3. /\ SumFunctionOnSet(m, S) \in Nat
        /\ SumFunctionOnSet(m2, S) = SumFunctionOnSet(m, S) + (IF n \in S THEN 1 ELSE 0)
    BY <1>1, <1>2, <2>2, PassesAddUp
  <2> QED BY <2>1, <2>2, <2>3
<1>11. ASSUME NEW t \in Ticks PROVE SumFunctionOnSet(m2, Span(t, t + Minute)) < 2 * Limit
  <2>1. PICK S : S = Span(t, t + Minute) OBVIOUS
  <2>2. S \in SUBSET Ticks /\ (n \in S <=> t <= n /\ n < t + Minute) BY <2>1 DEF Span
  <2>3. /\ SumFunctionOnSet(m, S) \in Nat
        /\ SumFunctionOnSet(m2, S) = SumFunctionOnSet(m, S) + (IF n \in S THEN 1 ELSE 0)
    BY <1>1, <1>2, <2>2, PassesAddUp
  <2>4. SumFunctionOnSet(m, S) < 2 * Limit BY <2>1 DEF MemoryInv
  <2>5. CASE n \notin S BY <2>1, <2>3, <2>4, <2>5
  <2>6. CASE n \in S /\ e <= t
    <3>0. PICK F : F = From(e) OBVIOUS
    <3>1. F \in SUBSET Ticks /\ S \in SUBSET F
      <4>1. \A u \in S : u \in Ticks /\ t <= u BY <2>1 DEF Span
      <4>2. \A u \in S : u \in Ticks /\ e <= u BY <1>3, <1>6, <2>6, <4>1
      <4>3. F = {u \in Ticks : e <= u} BY <3>0 DEF From
      <4> QED BY <4>2, <4>3
    <3>2. SumFunctionOnSet(m2, S) <= SumFunctionOnSet(m2, From(e))
      BY <1>2, <3>0, <3>1, PassesAddUp
    <3>3. SumFunctionOnSet(m2, S) \in Nat BY <1>2, <2>2, PassesAddUp
    <3>4. SumFunctionOnSet(m2, From(e)) <= Limit BY <1>3, <1>6, <1>9
    <3> QED BY <1>3, <1>9, <2>1, <3>2, <3>3, <3>4
  <2>7. CASE n \in S /\ t < e
    <3>1. PICK A, B, F : A = Span(t, e) /\ F = From(e) /\ B = S \cap F OBVIOUS
    <3>0. /\ A = {u \in Ticks : t <= u /\ u < e} /\ F = {u \in Ticks : e <= u}
          /\ S = {u \in Ticks : t <= u /\ u < t + Minute}
      BY <2>1, <3>1 DEF Span, From
    <3>11. t \in Nat /\ e \in Nat /\ n \in Nat /\ e < t + Minute
      BY <1>3, <1>6, <2>2, <2>7
    <3>12. \A u \in Ticks : /\ u \in A => u \in S /\ u \notin F
                            /\ u \in S => u \in A \/ u \in F
      <4> SUFFICES ASSUME NEW u \in Ticks
                   PROVE  /\ u \in A => u \in S /\ u \notin F
                          /\ u \in S => u \in A \/ u \in F
        OBVIOUS
      <4>1. u \in Nat BY <1>3
      <4>2. /\ u \in A <=> t <= u /\ u < e
            /\ u \in F <=> e <= u
            /\ u \in S <=> t <= u /\ u < t + Minute
        BY <3>0
      <4> QED BY <1>3, <3>11, <4>1, <4>2
    <3>2. /\ A \in SUBSET Ticks /\ B \in SUBSET Ticks /\ A \cap B = {}
          /\ B \in SUBSET F /\ F \in SUBSET Ticks
      BY <2>2, <3>0, <3>1, <3>12
    <3>3. A \cup B = S BY <2>2, <3>1, <3>2, <3>12
    <3>4. IsFiniteSet(A) /\ IsFiniteSet(B) /\ \A x \in A \cup B : m2[x] \in Int
      BY <1>2, <3>2, PassesAddUp
    <3>5. SumFunctionOnSet(m2, S) = SumFunctionOnSet(m2, A) + SumFunctionOnSet(m2, B)
      BY <3>2, <3>3, <3>4, SetSumUnion
    <3>6. e < t + Minute BY <1>3, <1>6, <2>2, <2>7
    <3>7. SumFunctionOnSet(m2, A) < Limit /\ SumFunctionOnSet(m2, A) \in Nat
      BY <1>6, <1>10, <2>7, <3>1, <3>6
    <3>8. SumFunctionOnSet(m2, B) <= SumFunctionOnSet(m2, From(e))
      BY <1>2, <3>1, <3>2, PassesAddUp
    <3>9. SumFunctionOnSet(m2, B) \in Nat BY <1>2, <3>2, PassesAddUp
    <3>10. SumFunctionOnSet(m2, From(e)) <= Limit BY <1>3, <1>6, <1>9
    <3> QED BY <1>3, <1>9, <2>1, <3>5, <3>7, <3>8, <3>9, <3>10
  <2>8. e <= t \/ t < e BY <1>3, <1>6
  <2> QED BY <2>5, <2>6, <2>7, <2>8
<1>12. /\ SumFunctionOnSet(m2, From(e)) <= Limit
       /\ SumFunctionOnSet(m2, From(e)) <= b2.count
  BY <1>3, <1>5, <1>6, <1>9
<1>13. \A t \in Ticks : t < e /\ e < t + Minute => SumFunctionOnSet(m2, Span(t, e)) < Limit
  BY <1>6, <1>10
<1>14. MemoryInv(m2, b2, n)
  <2>1. b2.reset - Minute = e /\ b2.reset = b.reset BY <1>1, <1>5
  <2> QED BY <1>2, <1>6, <1>7, <1>8, <1>11, <1>12, <1>13, <2>1 DEF MemoryInv
<1> QED BY <1>1, <1>14

\* The ticks of a minute are in two windows.
LEMMA TwoWindows ==
    ASSUME NEW t \in Ticks, NEW u \in Ticks, t <= u, u < t + Minute
    PROVE  u \div Minute \in {t \div Minute, t \div Minute + 1}
<1> DEFINE w == t \div Minute
           v == u \div Minute
<1>1. t \in Nat /\ u \in Nat /\ Minute \in Nat /\ Minute > 0
  BY LimitAssumption, BoundAssumption DEF Ticks
<1>2. w \in Nat /\ w * Minute <= t /\ t < w * Minute + Minute BY <1>1, Z3
<1>3. v \in Nat /\ v * Minute <= u /\ u < v * Minute + Minute BY <1>1, Z3
<1> HIDE DEF w, v
<1>4. \A a, b \in Nat : a <= b => a * Minute <= b * Minute BY <1>1, Z3
<1>5. (w + 2) * Minute = w * Minute + 2 * Minute /\ (v + 1) * Minute = v * Minute + Minute
  BY <1>1, <1>2, <1>3, Z3
<1>6. w * Minute \in Nat /\ v * Minute \in Nat BY <1>1, <1>2, <1>3, Z3
<1>7. ~(v + 1 <= w)
  <2> SUFFICES ASSUME v + 1 <= w PROVE FALSE OBVIOUS
  <2>1. (v + 1) * Minute <= w * Minute BY <1>2, <1>3, <1>4
  <2> QED BY <1>1, <1>2, <1>3, <1>5, <1>6, <2>1
<1>8. ~(w + 2 <= v)
  <2> SUFFICES ASSUME w + 2 <= v PROVE FALSE OBVIOUS
  <2>1. (w + 2) * Minute <= v * Minute BY <1>2, <1>3, <1>4
  <2> QED BY <1>1, <1>2, <1>3, <1>5, <1>6, <2>1
<1>9. v = w \/ v = w + 1 BY <1>2, <1>3, <1>7, <1>8
<1> QED BY <1>9 DEF w, v

\* In a minute Redis lets pass what it does in two windows at most.
LEMMA RedisInMinute ==
    ASSUME NEW r, NEW g \in [Windows -> Nat], RedisInv(r, g),
           \A w \in Windows : g[w] <= Limit, NEW t \in Ticks
    PROVE  SumFunctionOnSet(r, Span(t, t + Minute)) <= 2 * Limit
<1>1. PICK w, S, A, B : /\ w = t \div Minute
                        /\ S = Span(t, t + Minute)
                        /\ A = S \cap InWindow(w)
                        /\ B = S \cap InWindow(w + 1)
  OBVIOUS
<1>2. r \in [Ticks -> Nat] BY DEF RedisInv
<1>3. t \in Nat /\ w \in 0..t /\ w \in Windows /\ Limit \in Nat
  <2>1. t \in Nat /\ t <= MaxTime /\ MaxTime \in Nat BY BoundAssumption DEF Ticks
  <2>2. t \div Minute \in 0..t BY <2>1, Division
  <2>3. w \in 0..t BY <1>1, <2>2
  <2>4. w \in Windows BY <2>1, <2>3 DEF Windows, Ticks
  <2> QED BY <2>1, <2>3, <2>4, LimitAssumption
<1>4. S \in SUBSET Ticks /\ A \in SUBSET Ticks /\ B \in SUBSET Ticks
  BY <1>1 DEF Span
<1>5. A \cap B = {}
  <2>1. \A u \in A : u \div Minute = w BY <1>1 DEF InWindow
  <2>2. \A u \in B : u \div Minute = w + 1 BY <1>1 DEF InWindow
  <2>3. w # w + 1 BY <1>3
  <2> QED BY <2>1, <2>2, <2>3
<1>6. A \cup B = S
  <2>1. \A u \in S : u \in Ticks /\ t <= u /\ u < t + Minute BY <1>1 DEF Span
  <2>2. \A u \in S : u \in Ticks /\ u \div Minute \in {w, w + 1} BY <1>1, <2>1, TwoWindows
  <2> QED BY <1>1, <2>2 DEF InWindow
<1>7. ASSUME NEW v \in Nat, NEW T \in SUBSET InWindow(v)
      PROVE  SumFunctionOnSet(r, T) \in Nat /\ SumFunctionOnSet(r, T) <= Limit
  <2>1. PICK W : W = InWindow(v) OBVIOUS
  <2>2. W \in SUBSET Ticks /\ T \in SUBSET W /\ T \in SUBSET Ticks BY <2>1 DEF InWindow
  <2>3. /\ SumFunctionOnSet(r, T) \in Nat /\ SumFunctionOnSet(r, W) \in Nat
        /\ SumFunctionOnSet(r, T) <= SumFunctionOnSet(r, W)
    BY <1>2, <2>2, PassesAddUp
  <2>4. CASE v \in Windows
    <3>1. SumFunctionOnSet(r, W) <= g[v] /\ g[v] <= Limit /\ g[v] \in Nat
      BY <2>1, <2>4 DEF RedisInv
    <3> QED BY <1>3, <2>3, <3>1
  <2>5. CASE v \notin Windows
    <3>1. \A u \in Ticks : u \in Nat /\ u <= MaxTime /\ u \div Minute \in 0..u
      BY Division, BoundAssumption DEF Ticks
    <3>2. W = {}
      <4> SUFFICES ASSUME NEW u \in W PROVE FALSE OBVIOUS
      <4>1. u \in Ticks /\ v = u \div Minute BY <2>1 DEF InWindow
      <4>2. v <= MaxTime BY <3>1, <4>1, BoundAssumption
      <4> QED BY <2>5, <4>2, BoundAssumption DEF Windows, Ticks
    <3>3. T = {} BY <2>2, <3>2
    <3>4. SumFunctionOnSet(r, T) = 0 BY <3>3, SetSumEmpty
    <3> QED BY <1>3, <3>4
  <2> QED BY <2>4, <2>5
<1>8. SumFunctionOnSet(r, A) \in Nat /\ SumFunctionOnSet(r, A) <= Limit
  <2>1. A \in SUBSET InWindow(w) /\ w \in Nat BY <1>1, <1>3
  <2> QED BY <1>7, <2>1
<1>9. SumFunctionOnSet(r, B) \in Nat /\ SumFunctionOnSet(r, B) <= Limit
  <2>1. B \in SUBSET InWindow(w + 1) /\ w + 1 \in Nat BY <1>1, <1>3
  <2> QED BY <1>7, <2>1
<1>10. SumFunctionOnSet(r, S) = SumFunctionOnSet(r, A) + SumFunctionOnSet(r, B)
  <2>1. IsFiniteSet(A) /\ IsFiniteSet(B) /\ \A x \in A \cup B : r[x] \in Int
    BY <1>2, <1>4, PassesAddUp
  <2> QED BY <1>5, <1>6, <2>1, SetSumUnion
<1>11. SumFunctionOnSet(r, S) <= 2 * Limit BY <1>3, <1>8, <1>9, <1>10
<1> QED BY <1>1, <1>11

LEMMA MinuteIsLimited == IInv /\ LimitInv => MinuteLimit
<1> SUFFICES ASSUME IInv, LimitInv, NEW t \in Ticks
             PROVE  SumFunctionOnSet(passed, {u \in Ticks : t <= u /\ u < t + Minute})
                       < 4 * Limit
  BY DEF MinuteLimit
<1>1. PICK r, m : /\ RedisInv(r, granted) /\ MemoryInv(m, bucket, now)
                  /\ \A u \in Ticks : passed[u] = r[u] + m[u]
  BY DEF LimitInv
<1>2. PICK S : S = Span(t, t + Minute) OBVIOUS
<1>3. /\ granted \in [Windows -> Nat] /\ \A w \in Windows : granted[w] <= Limit
  BY DEF IInv, TypeOK, Counted
<1>4. SumFunctionOnSet(r, S) <= 2 * Limit BY <1>1, <1>2, <1>3, RedisInMinute
<1>5. SumFunctionOnSet(m, S) < 2 * Limit BY <1>1, <1>2 DEF MemoryInv
<1>6. r \in [Ticks -> Nat] /\ m \in [Ticks -> Nat] /\ S \in SUBSET Ticks
  BY <1>1, <1>2 DEF RedisInv, MemoryInv, Span
<1>7. /\ IsFiniteSet(S)
      /\ SumFunctionOnSet(r, S) \in Nat /\ SumFunctionOnSet(m, S) \in Nat
  BY <1>6, PassesAddUp
<1>8. SumFunctionOnSet(passed, S) = SumFunctionOnSet(r, S) + SumFunctionOnSet(m, S)
  <2>1. \A u \in S : r[u] \in Int /\ m[u] \in Int /\ passed[u] = r[u] + m[u]
    BY <1>1, <1>6
  <2> QED BY <1>7, <2>1, SetSumPlus
<1>9. SumFunctionOnSet(passed, S) < 4 * Limit
  BY <1>4, <1>5, <1>7, <1>8, LimitAssumption
<1> QED BY <1>2, <1>9 DEF Span

LEMMA LimitInitially == Init => LimitInv
<1> SUFFICES ASSUME Init PROVE LimitInv OBVIOUS
<1>1. PICK z : z = [t \in Ticks |-> 0] OBVIOUS
<1>2. z \in [Ticks -> Nat] /\ \A t \in Ticks : z[t] = 0 BY <1>1
<1>3. ASSUME NEW S \in SUBSET Ticks PROVE SumFunctionOnSet(z, S) = 0
  <2>1. IsFiniteSet(S) /\ \A x \in S : z[x] = 0 BY <1>2, PassesAddUp
  <2> QED BY <2>1, SetSumZero
<1>4. \A w : InWindow(w) \in SUBSET Ticks BY DEF InWindow
<1>5. \A t, e : Span(t, e) \in SUBSET Ticks BY DEF Span
<1>6. RedisInv(z, granted) BY <1>2, <1>3, <1>4 DEF RedisInv, Init
<1>7. MemoryInv(z, bucket, now)
  <2>1. \A t \in Ticks : SumFunctionOnSet(z, Span(t, t + Minute)) < 2 * Limit
    BY <1>3, <1>5, LimitAssumption
  <2>2. bucket.reset = None BY DEF Init
  <2> QED BY <1>2, <2>1, <2>2 DEF MemoryInv
<1>8. \A t \in Ticks : passed[t] = z[t] + z[t] BY <1>2 DEF Init
<1> QED BY <1>6, <1>7, <1>8 DEF LimitInv

\* Whatever is neither a count nor a tick leaves the limiter's counts alone.
LEMMA LimitUntouched ==
    ASSUME LimitInv, UNCHANGED << now, bucket, granted, passed >>
    PROVE  LimitInv'
BY DEF LimitInv

LEMMA CountRedisLimits ==
    ASSUME IInv, LimitInv, NEW s \in Slots, CountRedis(s)
    PROVE  LimitInv'
<1>1. PICK w, t : w = at[s] \div Minute /\ t = at[s] OBVIOUS
<1>2. pc[s] = "redis" BY DEF CountRedis
<1>3. w \in Windows /\ t \in Ticks BY <1>1, <1>2, WindowOfRequest
<1>4. /\ granted' = [granted EXCEPT ![w] = IF count[w] < Limit THEN @ + 1 ELSE @]
      /\ Admit(s, count[w] < Limit, t) /\ UNCHANGED << now, bucket >>
  BY <1>1 DEF CountRedis
<1>5. granted \in [Windows -> Nat] /\ passed \in [Ticks -> Nat] BY DEF IInv, TypeOK
<1>6. CASE ~(count[w] < Limit)
  <2>1. granted' = granted /\ passed' = passed BY <1>3, <1>4, <1>5, <1>6 DEF Admit
  <2> QED BY <1>4, <2>1, LimitUntouched
<1>7. CASE count[w] < Limit
  <2>1. /\ granted' = [granted EXCEPT ![w] = @ + 1]
        /\ passed' = [passed EXCEPT ![t] = @ + 1]
    BY <1>4, <1>7 DEF Admit, Pass
  <2>2. PICK r, m : /\ RedisInv(r, granted) /\ MemoryInv(m, bucket, now)
                    /\ \A u \in Ticks : passed[u] = r[u] + m[u]
    BY DEF LimitInv
  <2>3. PICK q : q = [r EXCEPT ![t] = @ + 1] OBVIOUS
  <2>4. RedisInv(q, granted') BY <1>1, <1>3, <1>5, <2>1, <2>2, <2>3, RedisCounts
  <2>5. MemoryInv(m, bucket', now') BY <1>4, <2>2
  <2>6. \A u \in Ticks : passed'[u] = q[u] + m[u]
    <3>1. r \in [Ticks -> Nat] /\ m \in [Ticks -> Nat] BY <2>2 DEF RedisInv, MemoryInv
    <3> QED BY <1>3, <1>5, <2>1, <2>2, <2>3, <3>1
  <2> QED BY <2>4, <2>5, <2>6 DEF LimitInv
<1> QED BY <1>6, <1>7

LEMMA CountMemoryLimits ==
    ASSUME IInv, LimitInv, NEW s \in Slots, CountMemory(s)
    PROVE  LimitInv'
<1>1. /\ now \in Ticks /\ now \in Nat /\ passed \in [Ticks -> Nat] /\ Limit \in Nat \ {0}
      /\ bucket \in [count : Nat, reset : Nat \cup {None}] /\ bucket.reset \in Int
      /\ bucket.count \in Nat
  BY BoundAssumption, LimitAssumption DEF IInv, TypeOK, Ticks, None
<1>2. now' = now /\ granted' = granted BY DEF CountMemory
<1>3. PICK r, m : /\ RedisInv(r, granted) /\ MemoryInv(m, bucket, now)
                  /\ \A u \in Ticks : passed[u] = r[u] + m[u]
  BY DEF LimitInv
<1>4. PICK m2 : m2 = [m EXCEPT ![now] = @ + 1] OBVIOUS
<1>5. ASSUME passed' = [passed EXCEPT ![now] = @ + 1], MemoryInv(m2, bucket', now)
      PROVE  LimitInv'
  <2>1. r \in [Ticks -> Nat] /\ m \in [Ticks -> Nat] BY <1>3 DEF RedisInv, MemoryInv
  <2>2. \A u \in Ticks : passed'[u] = r[u] + m2[u] BY <1>1, <1>3, <1>4, <1>5, <2>1
  <2> QED BY <1>2, <1>3, <1>5, <2>2 DEF LimitInv
<1>6. CASE now > bucket.reset
  <2>1. /\ bucket' = [count |-> 1, reset |-> now + Minute]
        /\ passed' = [passed EXCEPT ![now] = @ + 1]
    BY <1>6 DEF CountMemory, Admit, Pass
  <2>2. MemoryInv(m2, bucket', now) BY <1>1, <1>3, <1>4, <1>6, <2>1, MemoryBegins
  <2> QED BY <1>5, <2>1, <2>2
<1>7. CASE ~(now > bucket.reset)
  <2>1. now <= bucket.reset BY <1>1, <1>7
  <2>2. bucket' = [bucket EXCEPT !.count = @ + 1] BY <1>7 DEF CountMemory
  <2>3. CASE bucket.count + 1 <= Limit
    <3>1. passed' = [passed EXCEPT ![now] = @ + 1]
      BY <1>1, <1>7, <2>3 DEF CountMemory, Admit, Pass
    <3>2. MemoryInv(m2, bucket', now) BY <1>1, <1>3, <1>4, <2>1, <2>2, <2>3, MemoryGoesOn
    <3> QED BY <1>5, <3>1, <3>2
  <2>4. CASE ~(bucket.count + 1 <= Limit)
    <3>1. passed' = passed BY <1>1, <1>7, <2>4 DEF CountMemory, Admit
    <3>2. bucket'.reset = bucket.reset /\ bucket'.count = bucket.count + 1
      BY <1>1, <2>2
    <3>3. MemoryInv(m, bucket', now)
      <4>1. ASSUME bucket.reset # None
            PROVE  SumFunctionOnSet(m, From(bucket.reset - Minute)) <= bucket.count + 1
        <5>1. PICK F : F = From(bucket.reset - Minute) OBVIOUS
        <5>2. F \in SUBSET Ticks /\ m \in [Ticks -> Nat] BY <1>3, <5>1 DEF From, MemoryInv
        <5>3. SumFunctionOnSet(m, F) \in Nat BY <5>2, PassesAddUp
        <5>4. SumFunctionOnSet(m, F) <= bucket.count BY <1>3, <4>1, <5>1 DEF MemoryInv
        <5> QED BY <1>1, <5>1, <5>3, <5>4
      <4> QED BY <1>3, <3>2, <4>1 DEF MemoryInv
    <3> QED BY <1>2, <1>3, <3>1, <3>3 DEF LimitInv
  <2> QED BY <2>3, <2>4
<1> QED BY <1>6, <1>7

LEMMA TickLimits ==
    ASSUME IInv, LimitInv, Tick
    PROVE  LimitInv'
<1>1. now \in Nat /\ now' = now + 1 /\ UNCHANGED << bucket, granted, passed >>
  BY BoundAssumption DEF IInv, TypeOK, Ticks, Tick
<1>2. PICK r, m : /\ RedisInv(r, granted) /\ MemoryInv(m, bucket, now)
                  /\ \A u \in Ticks : passed[u] = r[u] + m[u]
  BY DEF LimitInv
<1>3. MemoryInv(m, bucket, now + 1)
  <2>1. bucket.reset # None => bucket.reset - Minute <= now + 1
    <3>1. ASSUME bucket.reset # None PROVE bucket.reset - Minute <= now + 1
      <4>1. bucket.reset - Minute \in Ticks /\ bucket.reset - Minute <= now
        BY <1>2, <3>1 DEF MemoryInv
      <4> QED BY <1>1, <4>1, BoundAssumption DEF Ticks
    <3> QED BY <3>1
  <2> QED BY <1>2, <2>1 DEF MemoryInv
<1> QED BY <1>1, <1>2, <1>3 DEF LimitInv

LEMMA LimitInductive == IInv /\ LimitInv /\ [Next]_vars => LimitInv'
<1> SUFFICES ASSUME IInv, LimitInv, [Next]_vars PROVE LimitInv' OBVIOUS
<1>1. CASE UNCHANGED vars BY <1>1, LimitUntouched DEF vars
<1>2. CASE Tick BY <1>2, TickLimits
<1>3. ASSUME NEW s \in Slots, Step(s) PROVE LimitInv'
  <2>1. CASE CountRedis(s) BY <2>1, CountRedisLimits
  <2>2. CASE CountMemory(s) BY <2>2, CountMemoryLimits
  <2>3. CASE Arrive(s) BY <2>3, LimitUntouched DEF Arrive
  <2>4. CASE FailRedis(s) BY <2>4, LimitUntouched DEF FailRedis
  <2>5. CASE Handle(s) \/ Record(s) \/ Trace(s)
    BY <2>5, LimitUntouched DEF Handle, Record, Trace, limiter
  <2> QED BY <1>3, <2>1, <2>2, <2>3, <2>4, <2>5 DEF Step
<1> QED BY <1>1, <1>2, <1>3 DEF Next

\* The limiter as a whole: fixed windows in Redis and a bucket in memory that takes
\* over whenever a pipeline fails let a client pass less than four times the limit in
\* any minute, wherever the minute begins and whenever Redis fails.
THEOREM MinutesAreLimited == Spec => []MinuteLimit
<1>1. Spec => []LimitInv BY LimitInitially, LimitInductive, Invariance, PTL DEF Spec
<1> QED BY <1>1, MinuteIsLimited, Invariance, PTL
=============================================================================
