# Formal model of AA分账 (aasplit)

TLA+ specifications of the expense-splitting server in this repository, model
checked with TLC and, where the argument is worth stating for every size,
proved with TLAPS. Paths below are relative to the repository (`backend/` is
`src/backend/` here); `service/`, `repository/` and so on are directories of
`backend/internal/`.

## 1. Inventory

The system is a Go server (Gin, GORM, PostgreSQL, Redis) and a Vue client.
Each HTTP request is served by a goroutine of its own; requests share the
database, one rate limiter and nothing else. All business state is in
PostgreSQL, so *the database statements of concurrent handlers are the
atomic steps of the system*, and most of what can go wrong is between two of
them.

| Component | State | Operations | Talks to |
|---|---|---|---|
| splitcalc (`pkg/splitcalc/split.go`) | none | `CalculateShares`, `OptimizeTransfers` | called by the expense and settlement services |
| ExpenseService (`service/expense_service.go`) | `expenses`, `expense_shares` | Create, Update, Delete (a refund), Get, List, ExportCSV | reads groups and members, calls splitcalc, records audits |
| SettlementService (`service/settlement_service.go`) | `settlements` | Generate, Settle, List | reads groups, members, expenses and shares |
| GroupService (`service/group_service.go`) | `groups`, `group_members` | Create, Update, Archive, InviteMember, RemoveMember | reads users |
| UserService (`service/user_service.go`) | `users`, and the tokens it signs | Register, Login, UpdateProfile, ChangePassword, ChangeRole | tokens checked by the auth and RBAC middleware |
| AuditService, audit middleware | `audit_logs` | Record, List | called after the commit of every write |
| StatsService (`service/stats_service.go`) | none | sums by category, month and member | reads expenses, shares and members |
| Repositories (`repository/`) | a `*gorm.DB` handle each | one method per statement | PostgreSQL |
| Rate limiter (`middleware/rate_limit.go`) | counters in Redis, or a map in memory | one check per request | Redis |
| Other middleware, handlers, DTOs, router, config, util | none beyond the request | decoding, validation, responses | services |
| Server (`cmd/server/main.go`, `database/`) | connection pool (20), HTTP server | start, bootstrap administrator, shutdown | all of it |
| Frontend (`frontend/src`) | Pinia stores, a token in `localStorage` | pages, dialogs, router guard, request interceptor | HTTP API |

`PROJECT.json` lists the same components with what is modelled of each.

### What is hard here

*Transactions that are not.* A service method opens a transaction `tx`, but most
repository methods it calls use their own handle `r.db`. Such a read sees what
is committed at that moment and is not part of the transaction; the row lock
that `GroupRepository.LockByID` takes with `SELECT ... FOR UPDATE` is released
when that statement ends. What is left for mutual exclusion are the row locks
PostgreSQL keeps for an UPDATE or DELETE sent on `tx`, and unique indexes.

*Read, then write everything.* GORM's `Save` writes every column of a row that
was read earlier, and upserts the associations that were preloaded with it.

*Half-done work.* Handlers fail between statements; answers and audits follow
the commit.

*Two connections at once.* A handler inside a transaction holds one of the
pool's connections and asks for another one, without a timeout.

*Old credentials.* The role a request acts with is the one in its token.

*Two limiters.* Requests are counted in Redis, or in memory when Redis fails,
and the two do not know of each other.

*Cents.* Amounts are float64 and rounded to cents at several places; shares and
balances have to add up.

The hazards in `PROJECT.json` name the lines. Correctness, per component:

* splitcalc: shares add up to the total, to a cent; they are fair and ordered by
  ratio; transfers take from nobody more than he owes, give nobody more than he
  is due, settle all of it, and are few.
* ExpenseService: an expense and its shares are always those of one request,
  whatever runs at once; refunds are final; balances cancel; what is answered
  with success is stored; nothing is added to an archived group.
* SettlementService: a plan appears and disappears whole; a row is settled once;
  a plan is one of the ledger it was computed from; a new plan replaces the old.
* GroupService: a group has its owner as a member; members come and go once;
  an archive is final.
* UserService: a name and an e-mail address belong to one account; roles and
  passwords change on purpose; a stale token's rights are bounded in time.
* StatsService and the lists: figures read one after the other agree when
  nothing is written meanwhile; a client that reads all pages gets everything.
* Pool: handlers block each other in one way only; who keeps rows locked waits
  for no connection; with a connection to spare everyone is answered.
* Limiter and audit: how many requests pass in a minute, whatever Redis does;
  every change that is confirmed has an entry in the log unless its insert failed.

## 2. Modules

```
SplitCalc ---- SplitRequest ---- MCSplitCalc    Transfers (EXTENDS SplitCalc)
   |                |                              |            |
   |         Figures_proofs ---------------- TransferPlan   SettlementService
ExpenseService                                                  |  implements
   |  implements ExpenseLedger                                  |  SettlementBook
   |  ExpenseService_proofs                                     |  SettlementService_proofs
   |                                                            |
   +-- GroupLifecycle ---- implemented by                       +-- GroupLifecycle and
            |              GroupService                             ExpenseLedger (environment)
            |                  |
       GroupReport         GroupService_proofs
   (with ExpenseLedger,
    as its environment;
    proofs in Figures_proofs)

UserAccounts             RequestChain             ConnectionPool
   UserAccounts_proofs      RequestChain_proofs      ConnectionPool_proofs

Transfers_proofs, lemmas: extended by Figures_proofs, ExpenseService_proofs,
SettlementService_proofs and RequestChain_proofs
```

The services are composed by assume/guarantee: a service is model checked
against the *abstract* specification of what it reads (`GroupLifecycle`,
`ExpenseLedger`), and the service that owns those tables is shown to implement
that abstract specification. This keeps every instance small and says exactly
what one component relies on another for. `GroupReport`, which only reads, runs
against both. The lower row is about what all handlers share: accounts and
tokens, the middleware, and the pool with the process around it.

* `GroupLifecycle`: one group as others see it, its status and its membership
  rows. It allows an archived group to become active again, because saving a
  stale row does that.
* `ExpenseLedger`: the expense tables as others see them; entries appear whole,
  change whole, keep their payer, and are refunded. A revision may make a
  refunded entry active.
* `SettlementBook`: the settlements table; plans appear and disappear whole.
* `SplitCalc`: `CalculateShares`. Money is an integer number of cents (`Sub`
  units per cent on input). Go's `int64(v*100+0.5)` is `Round2`, which truncates
  towards zero; which ties the float64 value loses is the parameter `TiesDown`.
* `SplitRequest`: the requests that `ExpenseService.calcShares` hands to it, built
  participant by participant, and what a fair split of each is.
* `Transfers`, `TransferPlan`: `OptimizeTransfers` as a function (all plans that
  some order of equal amounts gives, for the unstable sort) and as a state
  machine whose step is one iteration.
* `ExpenseService`: `pc[r]` is the statement that request `r` runs next, `tx[r]`
  what it has read and what it has written and not committed. One action per
  statement: `FindRow`, `FindShares` (the two queries of `FindByID`),
  `LockGroup`, `CheckCaller`, `CheckPayer`, `CalcShares`, `InsertExpense`,
  `Save`, `DeleteShares`, `InsertShares`, `RefundExpense`, `Commit`, `Audit`,
  `GetCreated`; `Fail` is any error, a broken connection or the end of the
  server. The lock of an expense row is `HoldsRow`, a function of `pc`.
* `SettlementService`: likewise for Generate (`LockGroup` ... `ListItems`) and
  Settle (`FindItem`, `CheckCaller`, `UpdateItems`). `DeleteBegins` and
  `DeleteRows` are one DELETE: the rows it acts on are chosen when it begins,
  and it may have to wait for them.
* `GroupService`: likewise; every statement commits at once, because the
  transaction of Create encloses none.
* `UserAccounts`: likewise for the five operations that change or use an
  account, behind `Auth` (the token's expiry, then `RequireRoles` on the
  administrators' routes). `tokens` are all that were ever handed out, `now` is
  the clock. A login is two actions: `FindLogin` reads the row, with its role, and
  `SignToken` signs after the comparison of the hashes, by the clock of that later
  moment; what it has read meanwhile is `tx[r].claim`. `users` starts with the
  bootstrap administrator. `lastAdmin` and a token's `read` are history: when an
  account was last an administrator, and when the role of the token was read.
* `GroupReport`: GetGroupStats, Balances, List and ExportCSV as the sequence of
  their reads, `got[r]` being what has been read. The order of expenses paid at
  one moment is chosen anew by each query (`PaidAtOrders`). A client that lists asks
  for page after page (`NextPage`). `quiet` remembers that nothing was written
  since the request came.
* `ConnectionPool`: a handler is its sequence of statements, each of which uses
  the transaction's connection ("tx", "write", "commit") or one of its own
  ("db", "lock"), read off the services; a request may answer after any of them.
  `Connect` is `database/sql` handing out a connection. `size` is the pool's, set at
  the start. `phase` is the process: `Signal` and `Exit` are main's end, which may
  come at any moment and cut handlers off.
* `RequestChain`: one address' requests through the limiter (`Arrive`,
  `CountRedis`, `FailRedis`, `CountMemory`), the handler as how it comes out
  (`Handle`: whether it has committed a change and whether it is answered with
  success, which are independent, see `Outcomes`), and the two audit entries
  (`Record`, `Trace`). `Tick` is time: Redis drops keys that have expired.
  `granted` and `passed` are history.
* `MC*` give TLC its instances (`ConnectionPool` needs none). `*_proofs` hold
  the theorems; `Transfers_proofs` is the library of lemmas on sums, shares and
  the loop of `OptimizeTransfers` that the others share.

GORM's, `database/sql`'s, Redis' and PostgreSQL's behaviour is taken from how
the code uses them. PostgreSQL runs at READ COMMITTED (the default, which
nothing changes): a statement sees what is committed when it begins, an UPDATE
or DELETE waits for the locks of its rows and then looks at them again, unique
indexes refuse a second row. Those definitions are marked external in the map.

## 3. Runs

All runs are exhaustive. Names are those of `PROJECT.json`.

| Run | Instance | Shows |
|---|---|---|
| `split` | totals 1-8 cents, up to 5 participants, ratios 0-3, amounts 0, 1, 4, every third tie lost | shares are the total or one cent more (`CutWithinACent`), and exact just when the first shares do not exceed it (`ExactIffCovered`); equal shares are within half a cent (`FairCut`), ratio shares are monotone (`RatioOrder`) |
| `transfer_plan` | every balance of -3..3 cents of 4 users | `NobodyOverpays`, `SettlesAllButCents`, `FewTransfers`, `Terminates` |
| `expense` | 2 requests of 7 kinds, 3 users, a stored expense, a group that changes freely | `SharesMatchExpense`, `PartiesAreMembers`, `BalancesCancel`, `CreatedIsStored`, `NoStaleOverlap`, refinement of `ExpenseLedger` |
| `expense_archived` | 1 request | **violated**: an expense is stored in an archived group |
| `settlement` | 2 requests, 3 members, a ledger with one expense that changes freely | rows are settled once (`SettledOnce`), counts are true, plans pay creditors, refinement of `SettlementBook` |
| `settlement_liveness` | 2 requests, 2 members | every request that has begun is answered |
| `settlement_one_plan` | as `settlement` | **violated**: two concurrent Generates leave two plans |
| `group` | 2 requests, 3 users, an old and two new groups | `CreatorIsMember`, `RemovedStaysOut`, refinement of `GroupLifecycle` |
| `accounts` | 3 requests, 2 names, 1 e-mail address, 2 passwords, tokens that live 1 tick of 2 | `UniqueAccounts`, `AdminWithinTTL`, `GrantedByAdmin`, `OnlyByChange`, `PasswordAnswer` |
| `report` | 1 request, 2 expenses of 2 categories, pages of 1 | `StatsAgree`, `NetsCancel`, `ListsAreComplete` |
| `pool` | 2 requests of any 2 of 8 handlers, 2 or 3 connections, 1 group | `LockersNeedNoConnection`, `StuckOnlyByCircle`, `EveryRequestAnswered` |
| `chain` | 4 requests in 2 slots, a limit of 1, a minute of 2 ticks, 4 ticks | `WindowLimit`, `MinuteLimit`, `Accounted` |

### Why the bounds are enough

* `split`: the rounding depends on the remainder of the total by the number of
  participants or the sum of ratios; 8 cents among up to 5 reaches every sign of
  the remainder, both sides of a tie, and a negative rest for the last
  participant (2 among 4).
* `transfer_plan`: the greedy loop's branches are decided by comparisons of two
  amounts and by amounts of one cent; 3 cents and 4 users give every order of
  amounts, ties, and lists of lengths 1+3, 2+2 and 3+1. Balances that do not
  cancel are included, because a removed member's balance is not passed on.
* services: every conflict in the code is between two requests about the same
  rows, so two requests of every pair of kinds are the smallest instance with
  all of them; the theorems extend most results to any number. The seven
  expense requests are chosen so that splits differ, overlap or are disjoint,
  and every error return is taken (not a member, payer not a member, duplicate
  participant, unknown expense, refunded). A group with a member who may join
  and one who may leave, and one who stays, covers what checks can see.
* `accounts`: a token must be signed, outlive a change of role and expire, which
  takes two ticks and a life of one; with those, a login may also take a tick
  between reading the role and signing, and its token outlive the role by more
  than its life. The account that is registered, the one
  that acts and the one acted upon need three requests; two passwords and one
  e-mail address besides none let values be equal or different.
* `report`: two expenses are enough to be paid at one moment or not, to be on
  two pages, and to be active or refunded; the export's page of 1 shows what
  happens beyond it. Reports do not disturb each other, so there is one.
* `pool`: the circle is closed by as many transactions as there are
  connections, two of each; with three connections two transactions compete for
  the rows of the group and for the last connection, and must both be answered.
  The theorems hold for every size.
* `chain`: two whole windows, a key that outlives its window, a bucket begun
  in memory before a window and one after, with a limit of one that two
  concurrent requests compete for.
* `Requests` are symmetric in `settlement`, `group` and `accounts`, `Slots` in
  `chain`; symmetry is not used where liveness is checked.
* `CHECK_DEADLOCK FALSE` stands where requests are only so many and all end:
  `split`, `transfer_plan`, `group`, `accounts`, `pool` (where a circle also
  stops everything but the shutdown) and `chain` (arrivals and the clock are
  bounded). The environments of the other runs never stop.

### Fairness

`settlement_liveness` assumes weak fairness of each request's own statements:
goroutines are scheduled and PostgreSQL executes a statement that is not
blocked. It does not assume that requests arrive, that the group or the ledger
changes, or that failures happen or do not happen. Waiting is only for row
locks, and the model makes a statement that waits for several rows hold none of
them meanwhile, so a cyclic wait, which PostgreSQL would end with an error, is
the action `Fail`. `Terminates` assumes weak fairness of the loop's iteration.

`pool` assumes the same of statements, and strong fairness where several
requests compete: for a connection (`database/sql` picks one of those waiting,
at random or in order) and for a row (PostgreSQL queues). It assumes
that a handler which has run all its statements answers. It does not assume that
a request arrives, that one gives up early, or that the process ends. `EveryRequestAnswered` there holds with fewer
transactions than connections; without that condition the circle of
`StuckOnlyByCircle` is a counterexample.

## 4. Proofs

`tlapm` checks every theorem in `*_proofs.tla`, for all values of the constants.

`Transfers_proofs` is what the others rest on. The library's induction takes an
operator and cannot be used here, so lemma `Induction` gets it, for sets of
numbers, from the theorem that strict inclusion orders the finite sets well, and
`SetInduction` gets it for the subsets of a finite set. With them a sum over a list
is shown to be its last prefix sum (`SumByPrefixes`), and a sum over a finite set not
to depend on the order in which its elements are chosen (`SetSumRemove`); from
there on both can be split, compared, changed in one place, and exchanged
(`SetSumSwap`). `SharesAddUp` is about `CalculateShares` in whole cents, with any
ratios and amounts and however the float64 ties fall: the shares are natural and
add up to the total, unless those before the last exceed it, and then there is one
cent too much. `LoopInv` is the invariant of the loop of `OptimizeTransfers`, stated
of its arguments and variables alone, so that it serves both the loop as a state
machine and the plan that a Generate computes in one step:

* nobody who is still to be matched has been paid off, and each iteration has
  finished somebody (`CountsDown`): every transfer moves money, there are fewer of
  them than people, and no amount becomes negative;
* what someone has sent or received and what his entry still shows are his balance,
  and users are in the lists if and only if they owe more than a cent or are due
  something (`Books`);
* whoever has been passed has nothing open, and what the creditors are due beyond
  what the debtors owe is the sum of all balances and the cents of those who are not
  listed (`Rest`).

`LoopStarts` and `LoopGoesOn` show it inductive.

`Figures_proofs`, of the loop (every finite set of users and all integer
balances): `LoopTypeOK`, `FewTransfers`, `NobodyOverpays` and `SettlesAllButCents` follow
from `LoopInv`. Of `CalculateShares` (every request in whole cents, `Sub = 1`, and
any `TiesDown`): `CutWithinACent` and `ExactIffCovered` are `SharesAddUp`;
`FairCut` and `RatioOrder` need that a rounded quotient is at most half a cent off
also when its tie is lost (`RoundsNear`), and that rounding keeps the order of
quotients with one divisor, which a lost tie could only disturb if another quotient
were strictly between (`RoundsInOrder`). With fractions of a cent (`Sub > 1`),
which the request validation accepts, the first two are not true: the amounts of the
amount mode are rounded one by one, and the total and what is left of it may be
rounded apart (with `Sub = 10` and up to 3 participants TLC finds both violated).

The same module is about the reports (any finite table of expenses, any page size,
any number of requests and of writers between their reads). A report makes its reads
outside any transaction, so its figures agree only while nobody writes, which
`quiet` remembers. `ReportInv` says in three parts what a request knows at each
statement: `InTurn` (it makes the reads of its own report, and only a client that
lists asks for a second page, which bounds the pages), `FiguresHold` (while nobody has
written, each sum it has read is what the query would give now) and `PagesHold`
(likewise of lists: the rows it has are those of the pages it has read). With
nobody writing, the rest is about sums and orders: the sums by category are one sum
over the expenses, taken by a key (`CategoriesAddUp`), and what all members have paid
or owe is that sum in another order (`SetSumSwap`), less those who are not listed
(`MembersPaid`, `MembersOwe`). For lists, an expense's place is the number of those
paid no earlier (`Rank`); when no two were paid at once each order that ORDER BY
leaves open puts it there (`RankIsPlace`), so consecutive queries cut one list into
pages (`OnePageMore`) although each sorts anew. An export needs no such condition, one
query being one order.

`ExpenseService_proofs` (any numbers of requests, users and expenses and any
set of inputs): `SharesMatchExpense` is not inductive, since a commit writes what
earlier statements prepared. `IInv` adds what a request in flight knows at each
statement: `Phase` (it runs a statement of its operation), `Found` (what it
looked up is stored, and the payer cannot have changed), `Calculated` and
`Prepared` (what it will commit is the split of one input, over checked
members), and `OneWriter` (two requests never hold the same row, which the guard
of `Save` and `RefundExpense` maintains). From it follow the invariants,
`NoStaleCommit` (an update cannot commit over share rows it has not read if they
have a participant in common, thanks to the unique index) and `ImplementsLedger`.
`BalancesAlwaysCancel` assumes whole cents and finitely many users and expenses, the
tables being finite: every active expense has the shares of one split, by
`SharesAddUp` these exceed its amount by a cent at most, and the sum over the users
of what each owes is the sum over the expenses of what is owed for each
(`SetSumSwap`). `EntriesAsAssumed` closes the composition with the settlements: in
whole cents, every entry of the ledger that the handlers implement is one of those
for which `SettlementService` is checked and proved (its `EntriesAssumption`).

`GroupService_proofs`: `Held` says what a request knows at each statement, above
all that the owner it has read is still the owner (no statement changes one) and,
from the answer on, that what it has done is still there (`Created`,
`Removed`). `Kept` is what every step does to the tables: groups stay, owners
stay members, rows are neither deleted nor reactivated. `CreatorStaysMember` and
`RemovedAreOut` follow, and `ImplementsLifecycle`: each group the other services
see behaves as `GroupLifecycle`, the assumption under which they are checked.

`UserAccounts_proofs`: uniqueness comes from the indexes alone, but is only
inductive with `Held`, by which a profile request that saves a row still has that
account's name. `Remembered`, `Vouched` and, for a login that has read its row and
not yet signed, `Held` tie tokens to history: when the role admin was read, the
account had it, so an administrator's token expires at most one life and one login
after its account was last an administrator. This gives `RoleOutlivesByTTL` and
`AdminsComeFromAdmins`. Without the length of the login the bound would be false,
since the expiry is set by a clock read after the role. `AdminsComeFromAdmins`
needs that a stale row with the role admin was read from an account that had it.
`Held` also says that a password request beyond `findUser` has passed the check of
the old password, hence `ChangesAreAsked` and `PasswordAnswersHold`.

`ConnectionPool_proofs`: `Owned` (who holds a connection is being handled and
has not committed) and `RowsApart` (one transaction per locked row), and that no
script asks for a connection between its first write and its commit (lemma
`Scripts`), give `LockersGoOn`: no cycle leads through both rows and connections.
Hence `OnlyTheCircle`.

`RequestChain_proofs`: `Counted` says that the key of a window is there until two
minutes after the window began, unless nothing was ever granted in it, and
`Timely` that a request is counted within a minute after it has read the clock;
so a late INCR never starts a count anew (`WindowsAreLimited`). `Told` says what a
request has done and noted at each stage after its handler, from which
`ChangesAreAccounted` follows. `MinutesAreLimited` needs to know who has let pass
what, which no variable says: `LimitInv` states that `passed` is the sum of two
functions of time, Redis' and memory's. Redis' passes of a window are at most what
it has granted there, and a minute meets two windows at most. Memory's passes since
its bucket was begun are at most the limit, and the bucket was begun with a pass; so
the passes of an older bucket that are in one minute with that first one are fewer
than the limit (`MemoryBegins`), which is why the whole is less than four times the
limit and not four times.

`SettlementService_proofs` (any members, ledgers and requests): a request that
counts a pending row has it locked (lemma `PendingIsLocked`), and an UPDATE waits
for the locks of the rows it is to change, so no two requests count one row
(`RowsSettledOnce`) and what is counted is true (`CountsAreTrue`). `Published` adds
that the rows of a plan which is not committed yet are not in the table: a commit
cannot bring a counted row back. `ImplementsBook` adds `BookInv`: the rows of each
Generate have the positions 1 to n, and a DELETE acts on whole plans, which is so
when it begins and stays so because a later commit only brings plans that it does
not act on. It rests on plans being lists: the recursive function that `Plans` runs
the loop with exists (`LoopExists`) for finitely many users.

What is in a plan comes from `LoopInv`, which holds of the state the loop ends in
(`PlansAreFinished`): every transfer moves a positive amount from one user to
another, so rows and requests have their types at every statement (`TypeCorrect`).
For `PlansPayCreditors` the balances of the members are what they have paid less
what they owe (`NetIs`); the entries of the ledger are splits with at most one cent
too much, so the balances do not add up to more than 0 (`NobodyIsOwedMore`), and
`Rest` says that what the creditors still miss at the end is at most the cents of
those who owe one cent.

The proofs use the named assumptions of the modules, which TLC evaluates on
every run. About a stored entry they say what the tables and `calcShares` guarantee:
a share may be negative, the last of a small amount among many being so, and the sum
of the shares may be a cent more than the amount. `BalancesAlwaysCancel`,
`EntriesAsAssumed` and the four theorems on split requests have their condition,
`Sub = 1`, in their statement.

Only model checked: liveness and termination, which are out of the prover's reach
(`EveryRequestAnswered` of the settlements and of the pool, `Terminates`), and that the two documented promises of section 5 are violated. Every
other property of a run is the subject of a theorem.

## 5. Where the code and its documentation disagree

Each is a finding in `PROJECT.json` with a run behind it. Where the run passes,
the property it cites says exactly how far the code goes: the exception it has
to make, or the step the abstract specification has to allow, is the
disagreement.

1. `split.go:43` and README line 27 promise shares that add up to the total;
   they may be one cent more, never less (`ExactIffCovered`).
2. `split_test.go:90` expects a plan to transfer the whole credit; a debt of one
   cent is skipped, since `round2(-0.01)` is 0 (`int64` drops the fraction) and
   `round2(b.Amount) < 0` is false; that is all that is ever missing
   (`SettlesAllButCents`).
3. `expense_service.go:119` refuses to modify a refunded expense; an update that
   read it before the refund commits and makes it active again (`LedgerSpec`
   allows `Revise` to do so).
4. README line 299 says archived groups accept no expenses; one whose check came
   before the archive is stored (`NoEntryWhenArchived` is violated).
5. `expense_service.go:135` assigns a payer that `Save` then overwrites with the
   preloaded one: no update ever changes the payer (`LedgerSpec`).
6. `settlement_service.go:34` says the old plan is cleared under the group's
   lock; two Generates at once leave both plans (`OnePlan` is violated).
7. `group_service.go:31` says Create is a transaction; its statements are not in
   it (`CreatorIsMember` can speak of answered requests only).
8. README line 298 says nothing happens to an archived group; members are
   removed without a check, and stale updates or invitations still land
   (`LifecycleSpec` allows it).
9. `user_service.go:101` says a profile update changes nickname, e-mail address
   and avatar; it writes back the role and the password it has read
   (`OnlyByChange` excepts it).
10. `user_handler.go:88` answers that the password was changed, also when the
    account could not be read and nothing was stored (`PasswordAnswer`).
11. `audit.go:15` says that all writes are logged; a change that was committed and
    then answered with an error is not, as when a new group's owner cannot be made
    a member or a new plan cannot be read back (`Accounted` excepts those).
12. README line 101 gives a limit of requests per minute; counted by fixed windows
    in Redis and by a bucket in memory when Redis fails, fewer than four times as
    many may pass in a minute (`MinuteLimit`).

Seen in the code, and not a run of their own: `main.go:45` says that without Redis
the limiter falls back to memory, but it is given a nil client and panics on every
request (`Arrive`); an expense whose Create cannot read it back is stored, and its
client told of an error (`expense_service.go:98`); Settle does not look at the
group's status (README line 299), and records that it has settled rows also when
none was pending; `split.go:121` promises the fewest transfers,
and greedy matching needs four for 4, 3, -3, -2, -2 where three do; amounts
with fractions of a cent pass the sum check of the amount mode and are rounded
one by one; `SumPaidByGroup` and `SumOwedByGroup` read two different moments,
which is why `PlanPaysCreditors` is about plans whose two sums agree and
`NetsCancel` about quiet tables; nothing marks shares as settled
(`MarkSettledByExpenses` has no caller), so a plan generated after settling asks
for the same debts again; pages of expenses paid at one moment may repeat one
and omit another,
and an export ends after 10000 rows (`ListsAreComplete` names
both cases).

## 6. Running the checks

```
cd tla
tlc -workers 2 -config ExpenseService.cfg MCExpenseService
tlapm ExpenseService_proofs.tla
```

Each property has a mutant, an operator named after the definition it replaces
(`Save_OutsideTx` for `Save`) that a plausible mistake in the code would give;
with it in place TLC finds the property violated.

## 7. Not modelled

* The frontend: stores and pages show what the server answers, and requests
  may reach it in any order and number. Its own two hazards (a list overwritten
  by an older answer, a token in two places) are in `PROJECT.json`.
* Names, titles, nicknames, avatars, URLs, logging and response texts; the
  filters of a list; parsing and formatting of numbers and dates; the content of
  an audit entry and the listing of the log.
* The status of an account, which nothing sets to disabled.
* Redis losing its data, a second server process (whose limiter in memory would
  count on its own), the migrations and the deployment.
* Handlers that only read one row or one list: GetProfile, the lists of users,
  groups, members, settlements and audit logs.

## 8. Plan

Done: the calculations, the four services that write, the reports, the accounts,
the request chain and the connection pool; a theorem for every safety and action
property of a run. In order of value, what is left:

1. the frontend's session: two copies of the token, and answers that overtake
   each other in a store;
2. a second server process: a limiter in memory per process, a bootstrap of the
   administrator at the same time, migrations before the new version is up;
3. Redis losing its counters within a window;
4. the filters of the lists, the listing of the audit log.
