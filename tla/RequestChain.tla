----------------------------- MODULE RequestChain -----------------------------
(***************************************************************************)
(* What every request passes on its way to a handler and back: the rate    *)
(* limiter with its counters in Redis and in memory, the recovery from a   *)
(* panic, and the two entries of the audit log.                            *)
(*                                                                         *)
(* One client address; the counters of others are independent of its own.  *)
(* One server process, and a Redis that keeps its data.  A handler is what *)
(* it commits, records and answers; its statements are in other modules.   *)
(***************************************************************************)
EXTENDS Integers, Functions

CONSTANTS
    Slots,        \* requests in progress at the same time
    Limit,        \* RATE_LIMIT_PER_MIN, or 120 in its place
    Minute,       \* the limiter's window, in ticks
    MaxTime,      \* bound: the clock stops there
    MaxArrivals   \* bound: requests of a behaviour

ASSUME LimitAssumption == Limit \in Nat \ {0} /\ Minute \in Nat \ {0}
ASSUME BoundAssumption == MaxTime \in Nat /\ MaxArrivals \in Nat

VARIABLES
    client,     \* whether main got a Redis client; nil otherwise
    now,        \* the clock
    count,      \* of the key of each window: its value,
    expires,    \* and when Redis drops it; None without a key
    bucket,     \* memCounts of the address: count and reset
    pc,         \* of a slot: where its request is, "idle" once it is answered,
    at,         \* the time its limiter has read, until it is counted,
    tx,         \* and what it has done, kept until the next request
    arrivals,   \* requests so far
    granted,    \* history: what Redis let pass, by window
    passed      \* history: what was let pass, by the time it was counted for

limiter == << client, count, expires, bucket, at, arrivals, granted, passed >>
vars == << client, now, count, expires, bucket, pc, at, tx, arrivals, granted, passed >>

Ticks   == 0..MaxTime
Windows == Ticks        \* of the fixed windows only the first few occur
None    == -1
NoKey   == -1
Never   == -2           \* a key whose EXPIRE has failed

\* A "ledger" request changes expenses, settlements or groups, and its service
\* records it; an "account" request is a POST or PUT that no service records, as
\* a registration, a login, a new password; "read" and "export" are GETs, of
\* which the service records the export.
Kinds  == {"read", "export", "account", "ledger"}
Writes == {"account", "ledger"}

\* Whether a request has committed its change (perhaps one of no row, as a Settle
\* of rows that are settled already), whether it is answered below 400, and its two
\* entries: of the service and of the middleware.
Outcome == [kind : Kinds, done : BOOLEAN, ok : BOOLEAN,
            service : {"no", "yes", "lost"}, generic : {"no", "yes", "lost"}]

Nothing == [kind |-> "read", done |-> FALSE, ok |-> FALSE,
            service |-> "no", generic |-> "no"]
-----------------------------------------------------------------------------
Init == /\ client \in BOOLEAN
        /\ now = 0
        /\ count = [w \in Windows |-> 0]
        /\ expires = [w \in Windows |-> NoKey]
        /\ bucket = [count |-> 0, reset |-> None]
        /\ pc = [s \in Slots |-> "idle"]
        /\ at = [s \in Slots |-> None]
        /\ tx = [s \in Slots |-> Nothing]
        /\ arrivals = 0
        /\ granted = [w \in Windows |-> 0]
        /\ passed = [t \in Ticks |-> 0]

Go(s, l) == pc' = [pc EXCEPT ![s] = l]
Pass(t)  == passed' = [passed EXCEPT ![t] = @ + 1]

\* RequestID, ErrorHandler, RequestLogger and CORS let a request through; the
\* limiter reads the clock and, without a client, panics: the answer is 500.
Arrive(s) ==
    /\ pc[s] = "idle" /\ arrivals < MaxArrivals
    /\ tx' = [tx EXCEPT ![s] = Nothing]
    /\ Go(s, IF client THEN "redis" ELSE "idle")
    /\ at' = [at EXCEPT ![s] = IF client THEN now ELSE None]
    /\ arrivals' = arrivals + 1
    /\ UNCHANGED << client, now, count, expires, bucket, granted, passed >>

\* A request is let pass, counted for time t, or answered with 429.
Admit(s, allowed, t) ==
    IF allowed THEN Pass(t) /\ Go(s, "handle")
               ELSE Go(s, "idle") /\ UNCHANGED passed

\* Mutant: a key lives for one window only.
CountRedis_ShortExpire(s) ==
    LET w == at[s] \div Minute
    IN  /\ pc[s] = "redis"
        /\ count' = [count EXCEPT ![w] = @ + 1]
        /\ expires' = [expires EXCEPT ![w] = now + Minute]
        /\ Admit(s, count[w] < Limit, at[s])
        /\ granted' = [granted EXCEPT ![w] = IF count[w] < Limit THEN @ + 1 ELSE @]
        /\ at' = [at EXCEPT ![s] = None]
        /\ UNCHANGED << client, now, bucket, tx, arrivals >>

\* INCR and EXPIRE of the window the clock was read in, perhaps after its end.
CountRedis(s) ==
    LET w == at[s] \div Minute
    IN  /\ pc[s] = "redis"
        /\ count' = [count EXCEPT ![w] = @ + 1]
        /\ expires' = [expires EXCEPT ![w] = now + 2 * Minute]
        /\ Admit(s, count[w] < Limit, at[s])
        /\ granted' = [granted EXCEPT ![w] = IF count[w] < Limit THEN @ + 1 ELSE @]
        /\ at' = [at EXCEPT ![s] = None]
        /\ UNCHANGED << client, now, bucket, tx, arrivals >>

\* The pipeline fails, before or after Redis has acted on it or on its first half.
FailRedis(s) ==
    LET w == at[s] \div Minute
    IN  /\ pc[s] = "redis"
        /\ \/ UNCHANGED << count, expires >>
           \/ /\ count' = [count EXCEPT ![w] = @ + 1]
              /\ expires' \in { [expires EXCEPT ![w] = now + 2 * Minute],
                                [expires EXCEPT ![w] = IF @ = NoKey THEN Never ELSE @] }
        /\ Go(s, "memory")
        /\ at' = [at EXCEPT ![s] = None]
        /\ UNCHANGED << client, now, bucket, tx, arrivals, granted, passed >>

\* Mutant: a new bucket starts at zero.
CountMemory_FromZero(s) ==
    LET fresh   == now > bucket.reset
        counted == IF fresh THEN [count |-> 0, reset |-> now + Minute]
                            ELSE [bucket EXCEPT !.count = @ + 1]
    IN  /\ pc[s] = "memory"
        /\ bucket' = counted
        /\ Admit(s, fresh \/ counted.count <= Limit, now)
        /\ UNCHANGED << client, now, count, expires, at, tx, arrivals, granted >>

\* allowMem, under its mutex: a bucket is replaced once its reset lies behind.
CountMemory(s) ==
    LET fresh   == now > bucket.reset
        counted == IF fresh THEN [count |-> 1, reset |-> now + Minute]
                            ELSE [bucket EXCEPT !.count = @ + 1]
    IN  /\ pc[s] = "memory"
        /\ bucket' = counted
        /\ Admit(s, fresh \/ counted.count <= Limit, now)
        /\ UNCHANGED << client, now, count, expires, at, tx, arrivals, granted >>

Respond(s, t, l) == tx' = [tx EXCEPT ![s] = t] /\ Go(s, l)

\* How a handler may come out.  It succeeds without having committed a change only
\* if it is none of the ledger's: a login, the new password of an account that
\* cannot be read.  It fails after a commit: of a group whose owner cannot be made
\* a member, of a plan that cannot be read back, or when the answer to the COMMIT
\* is lost.  A request that is refused, or fails before it has changed anything,
\* is no more than a read.
Outcomes == {t \in Outcome : /\ t.service = "no" /\ t.generic = "no"
                             /\ t.done => t.kind \in Writes
                             /\ t.kind = "ledger" /\ t.ok => t.done
                             /\ ~t.done /\ ~t.ok => t = Nothing}

\* What a service goes on to record, while all has gone well.
Recorded(t) == t.kind \in {"ledger", "export"} /\ t.ok

\* Auth and the handler: it panics, its transaction rolled back, or comes out.
Handle(s) ==
    /\ pc[s] = "handle"
    /\ \/ Go(s, "idle") /\ UNCHANGED tx
       \/ \E t \in Outcomes : Respond(s, t, IF Recorded(t) THEN "record" ELSE "trace")
    /\ UNCHANGED << limiter, now >>

\* AuditService.Record, after the commit; its failure changes nothing else.
\* Create may still answer with an error, if the expense cannot be read back.
Record(s) ==
    /\ pc[s] = "record"
    /\ \E e \in {"yes", "lost"}, ok \in BOOLEAN :
          Respond(s, [tx[s] EXCEPT !.service = e, !.ok = ok], "trace")
    /\ UNCHANGED << limiter, now >>

\* Mutant: the test of the status is the wrong way round.
Traced_Inverted(t) == ~t.ok /\ t.kind \in Writes

\* Whether middleware.Audit makes an entry: of a POST, PUT or DELETE that is
\* answered below 400.
Traced(t) == t.ok /\ t.kind \in Writes

\* middleware.Audit, after the handler; the answer goes out.
Trace(s) ==
    /\ pc[s] = "trace"
    /\ \/ ~Traced(tx[s]) /\ Go(s, "idle") /\ UNCHANGED tx
       \/ Traced(tx[s]) /\ \E e \in {"yes", "lost"} :
                               Respond(s, [tx[s] EXCEPT !.generic = e], "idle")
    /\ UNCHANGED << limiter, now >>

\* Time passes, and Redis drops the keys that have expired; go-redis gives a
\* pipeline up within less than a minute.
Tick == /\ now < MaxTime
        /\ \A s \in Slots : pc[s] = "redis" => now + 1 < at[s] + Minute
        /\ now' = now + 1
        /\ LET Dropped(w) == expires[w] >= 0 /\ expires[w] <= now + 1
           IN  /\ count' = [w \in Windows |-> IF Dropped(w) THEN 0 ELSE count[w]]
               /\ expires' = [w \in Windows |-> IF Dropped(w) THEN NoKey ELSE expires[w]]
        /\ UNCHANGED << client, bucket, pc, at, tx, arrivals, granted, passed >>

Step(s) == \/ Arrive(s) \/ CountRedis(s) \/ FailRedis(s) \/ CountMemory(s)
           \/ Handle(s) \/ Record(s) \/ Trace(s)

Next == Tick \/ \E s \in Slots : Step(s)

Spec == Init /\ [][Next]_vars
-----------------------------------------------------------------------------
\* The type invariant.
TypeOK == /\ client \in BOOLEAN
          /\ now \in Ticks
          /\ count \in [Windows -> Nat]
          /\ expires \in [Windows -> Nat \cup {NoKey, Never}]
          /\ bucket \in [count : Nat, reset : Nat \cup {None}]
          /\ pc \in [Slots -> {"idle", "redis", "memory", "handle", "record", "trace"}]
          /\ at \in [Slots -> Ticks \cup {None}]
          /\ tx \in [Slots -> Outcome]
          /\ arrivals \in 0..MaxArrivals
          /\ granted \in [Windows -> Nat]
          /\ passed \in [Ticks -> Nat]

\* Redis lets no more than the limit pass for a window, also when a request is
\* counted after the window's end: its key is still there.
WindowLimit == \A w \in Windows : granted[w] <= Limit

\* A client gets through less often than four times the limit in any minute:
\* two windows of Redis, and two buckets in memory of which the older one was
\* begun before.
MinuteLimit ==
    \A t \in Ticks :
        SumFunctionOnSet(passed, {u \in Ticks : t <= u /\ u < t + Minute}) < 4 * Limit

\* Once a request is answered, the log tells what it did.  A change that was
\* committed and confirmed has its entry, and its service's too if it is one of
\* the ledger's, unless the insert of the entry failed; and a service records
\* nothing that was not committed.  A change that was committed and answered with
\* an error may have no entry at all.
Accounted ==
    \A s \in Slots :
        pc[s] = "idle" =>
            LET t == tx[s]
            IN  /\ t.done /\ t.ok => t.generic # "no"
                /\ t.done /\ t.ok /\ t.kind = "ledger" => t.service # "no"
                /\ t.service # "no" => t.done \/ t.kind = "export"
=============================================================================
