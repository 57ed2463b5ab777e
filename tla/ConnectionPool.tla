--------------------------- MODULE ConnectionPool ---------------------------
(***************************************************************************)
(* The connections all handlers share, and the end of the process:         *)
(* database.Connect's SetMaxOpenConns, gorm's Transaction as the services  *)
(* use it, and main's Shutdown.                                            *)
(*                                                                         *)
(* A handler is the sequence of its statements.  Inside a transaction      *)
(* those sent on tx ("tx", "write") use its connection; those sent on a    *)
(* repository's own handle ("db", "lock") need one of their own, for which *)
(* database/sql waits without a limit, as no context is passed.  A "write" *)
(* keeps its rows locked until the transaction ends, a "lock" (FOR UPDATE, *)
(* or an UPDATE committed at once) waits for them but keeps nothing.       *)
(***************************************************************************)
EXTENDS Integers, Sequences, FiniteSets

CONSTANTS
    Sizes,      \* what SetMaxOpenConns may be given: 20
    Requests,   \* HTTP requests, each handled by a goroutine
    Rows        \* what the writes of a request lock: the rows of a group

ASSUME SizeAssumption == Sizes \subseteq Nat \ {0} /\ IsFiniteSet(Requests)

\* Mutant: Generate reads its plan back before it commits.
Generate_ReadsBack == << "begin", "lock", "db", "write", "db", "commit" >>

\* Mutant: Settle records its audit entry before it commits.
Settle_RecordsInside == << "begin", "db", "write", "db", "commit" >>

\* The statements of the handlers, with those of the audit middleware; those of
\* one kind that follow each other are written once.
ExpenseCreate == << "begin", "lock", "tx", "db", "write", "commit", "db" >>
ExpenseUpdate == << "begin", "db", "lock", "tx", "db", "write", "commit", "db" >>
ExpenseDelete == << "begin", "db", "tx", "write", "commit", "db" >>
Generate == << "begin", "lock", "db", "write", "commit", "db" >>
Settle == << "begin", "db", "write", "commit", "db" >>
GroupCreate == << "begin", "db", "commit", "db" >>
GroupArchive == << "db", "lock", "db" >>
GroupStats == << "db" >>

Handlers == { ExpenseCreate, ExpenseUpdate, ExpenseDelete, Generate, Settle,
              GroupCreate, GroupArchive, GroupStats }

VARIABLES
    size,       \* of the pool, set once
    phase,      \* the process: serving, draining after a signal, or exited
    script,     \* the handler of a request
    row,        \* the rows it is about
    step,       \* how many of its statements are done
    state,      \* "new", "ready" between statements, "waiting" for a
                \* connection, "running" on it, or "done"
    holds       \* the connection of its transaction: 0 or 1

vars == << size, phase, script, row, step, state, holds >>

Kinds == {"begin", "tx", "write", "commit", "db", "lock"}

Stmt(r)     == script[r][step[r] + 1]
Finished(r) == step[r] = Len(script[r])
InFlight(r) == state[r] \in {"ready", "waiting", "running"}

\* The requests whose transaction keeps rows locked: one of its writes is done.
Locking(r) == holds[r] = 1 /\ \E k \in 1..step[r] : script[r][k] = "write"

\* Open connections in use: of transactions, and of statements on their own.
Holders == {r \in Requests : holds[r] = 1}
Singles == {r \in Requests : state[r] = "running" /\ Stmt(r) \in {"db", "lock"}}
InUse   == Cardinality(Holders) + Cardinality(Singles)

RowFree(r) == \A q \in Requests \ {r} : Locking(q) => row[q] # row[r]
-----------------------------------------------------------------------------
Init == /\ size \in Sizes
        /\ phase = "serving"
        /\ script \in [Requests -> Handlers]
        /\ row \in [Requests -> Rows]
        /\ step = [r \in Requests |-> 0]
        /\ state = [r \in Requests |-> "new"]
        /\ holds = [r \in Requests |-> 0]

Become(r, s) == state' = [state EXCEPT ![r] = s]

\* The server reads no new request once it shuts down.
Accept(r) == /\ phase = "serving" /\ state[r] = "new"
             /\ Become(r, "ready")
             /\ UNCHANGED << size, phase, script, row, step, holds >>

\* Begin, and every statement outside tx, asks the pool for a connection;
\* commit and the statements on tx have theirs.
Ask(r) == /\ state[r] = "ready" /\ ~Finished(r)
          /\ Become(r, IF Stmt(r) \in {"begin", "db", "lock"} THEN "waiting" ELSE "running")
          /\ UNCHANGED << size, phase, script, row, step, holds >>

\* The pool opens a connection, or hands over one that has been returned.
Connect(r) == /\ state[r] = "waiting" /\ InUse < size
              /\ Become(r, "running")
              /\ holds' = [holds EXCEPT ![r] = IF Stmt(r) = "begin" THEN 1 ELSE @]
              /\ UNCHANGED << size, phase, script, row, step >>

\* Mutant: a transaction returns its connection when the handler has answered.
Execute_CommitLate(r) ==
    /\ state[r] = "running"
    /\ Stmt(r) \in {"write", "lock"} => RowFree(r)
    /\ step' = [step EXCEPT ![r] = @ + 1]
    /\ Become(r, "ready")
    /\ UNCHANGED << size, phase, script, row, holds >>

\* A statement ends, and returns a connection of its own; PostgreSQL makes it
\* wait for the rows it needs.
Execute(r) == /\ state[r] = "running"
              /\ Stmt(r) \in {"write", "lock"} => RowFree(r)
              /\ step' = [step EXCEPT ![r] = @ + 1]
              /\ Become(r, "ready")
              /\ holds' = [holds EXCEPT ![r] = IF Stmt(r) = "commit" THEN 0 ELSE @]
              /\ UNCHANGED << size, phase, script, row >>

\* The handler answers, at its end or after any statement that fails or finds
\* a reason to refuse; Transaction rolls back what is open.
Reply(r) == /\ state[r] = "ready"
            /\ Become(r, "done")
            /\ holds' = [holds EXCEPT ![r] = 0]
            /\ UNCHANGED << size, phase, script, row, step >>

Proceed(r) == Ask(r) \/ Connect(r) \/ Execute(r) \/ Reply(r)

\* SIGINT or SIGTERM: Shutdown stops listening and waits for the handlers.
Signal == /\ phase = "serving"
          /\ phase' = "draining"
          /\ UNCHANGED << size, script, row, step, state, holds >>

\* Shutdown returns, all handlers having answered or ten seconds having passed;
\* main ends and with it whatever is still running.
Exit == /\ phase = "draining"
        /\ phase' = "exited"
        /\ UNCHANGED << size, script, row, step, state, holds >>

Next == /\ phase # "exited"
        /\ \/ \E r \in Requests : Accept(r) \/ Proceed(r)
           \/ Signal
           \/ Exit

Spec == Init /\ [][Next]_vars

\* Statements end, the scheduler runs every goroutine, the pool picks a waiting
\* request at random and so, in the long run, each.  Nothing makes the process end.
Fairness == \A r \in Requests : /\ WF_vars(phase # "exited" /\ Ask(r))
                               /\ SF_vars(phase # "exited" /\ Connect(r))
                               /\ SF_vars(phase # "exited" /\ Execute(r))
                               /\ WF_vars(phase # "exited" /\ Finished(r) /\ Reply(r))

FairSpec == Spec /\ Fairness
-----------------------------------------------------------------------------
\* The type invariant; a request that is done holds no connection.
TypeOK == /\ size \in Sizes
          /\ phase \in {"serving", "draining", "exited"}
          /\ script \in [Requests -> Handlers]
          /\ row \in [Requests -> Rows]
          /\ step \in [Requests -> Nat]
          /\ state \in [Requests -> {"new", "ready", "waiting", "running", "done"}]
          /\ holds \in [Requests -> {0, 1}]

Transactional(r) == script[r][1] = "begin"

\* Who keeps rows locked never waits for a connection: whatever the others hold,
\* a wait for a row ends without the pool, and no cycle leads through both.
LockersNeedNoConnection ==
    \A r \in Requests : Locking(r) => state[r] # "waiting"

\* The one way for the handlers to block each other: every connection belongs
\* to a transaction, and every such transaction waits for one more.
Blocked(r)   == state[r] = "waiting" /\ InUse >= size
CircularWait == /\ Cardinality(Holders) = size
                /\ \A r \in Holders : state[r] = "waiting"

StuckOnlyByCircle ==
    (\E r \in Requests : state[r] = "waiting")
    /\ (\A r \in Requests : InFlight(r) => \/ Blocked(r)
                                           \/ /\ state[r] = "running"
                                              /\ Stmt(r) \in {"write", "lock"}
                                              /\ ~RowFree(r))
    => CircularWait

\* With more connections than requests that open a transaction, every request
\* is answered, unless the process ends first.
EveryRequestAnswered ==
    \A r \in Requests :
        (Cardinality({q \in Requests : Transactional(q)}) < size /\ InFlight(r))
            ~> (state[r] = "done" \/ phase = "exited")
=============================================================================
