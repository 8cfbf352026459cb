# Orders and settlements in TLA+

The repository is a set of Express services on one Postgres and one Redis, two
web clients and a test runner. Users keep orders, record payments against them
and refund them. This directory models the parts in which something can happen
at the same time as something else: transactions on the row of an order,
connection pools, log-ins, pages with requests under way, test runs.

All paths below are relative to the root of the repository (`src/` in
`PROJECT.json`).

## Inventory

| Component | State | Operations | Meets others through |
|---|---|---|---|
| payments-service (`services/payments-service`) | `payments`, `refunds`, `audit_logs`; writes `orders.orders.paid_amount_cents` | record a payment, record a refund; lists | the order row (row lock, guarded UPDATE), the unique index on `(user_id, idempotency_key)`, its pool |
| orders-service (`services/orders-service`) | `orders`, `order_line_items`, `audit_logs` | create, edit, delete; list, summary, CSV export | the order row, the foreign key of the line items, its pool |
| auth-service (`services/auth-service`) | `users`, `audit_logs`; refresh sessions in Redis | register, login, refresh, logout, me | the unique e-mail, the session keys, cookies |
| gateway (`gateway`) | rate-limit counters in Redis | authenticate, limit, proxy | the counters |
| test-runner-service (`services/test-runner-service`) | run records, the lock and the presence set in Redis; event listeners in memory | start a suite or a load run, append events, stream them, clean up users | the run record, the lock, every schema during cleanup |
| test-scenarios (`packages/test-scenarios`) | none | twelve scenarios as data | run by the scenario executor |
| shared-domain (`packages/shared-domain`) | none | amount validation, money, order status, tokens | called by the services |
| web (`web`) | React state of the session, the order page, the dashboard; cookies | HTTP calls, with an idempotency key per modal | the gateway |
| test-web (`test-web`) | React state of the suites and the load tab; an event stream | start and watch runs | test-runner-service |

What makes each of them correct:

- *payments*: the net paid amount of an order is between zero and its total and
  equals the sum of its rows; a key produces one row; answers and audit records
  are true; every request is answered.
- *orders*: the same whatever edits come; line items belong to an order; the
  audit tells what happened; lists, exports and cards tell of the same orders.
- *pools*: whoever waits has someone to wait for.
- *auth*: one account for an e-mail; a spent refresh token stays spent; tokens
  are only handed out with a record of it.
- *gateway*: the limit of a window holds, and every window ends.
- *test runner*: one load run at a time, the gate to it opens again, a watched
  run comes to an end on the screen and its verdict is true; a load run does not
  fail itself, keeps its bound on concurrency and leaves nothing behind.
- *scenarios*: what they assert is what the services do.
- *web*: a retry does not charge twice, a success that is shown has happened, a
  page shows what it has reported, a tab shows the user it acts for.

What is hard here: every `await` of a query is a point at which other requests
run; Postgres is used at READ COMMITTED, so each statement has its own snapshot
and a blocked UPDATE decides on a row it did not see before; checks are often
made on a read before the transaction; Redis records are read, changed and
written back; retries repeat a request while the original is still running;
answers come in another order than the requests; a process or its connection may
fail between two statements. `PROJECT.json` lists these hazards at their lines.

## Modules

| Module | What it is |
|---|---|
| `Ledger` | the promise of payments-service: a request is accepted, rejected, replayed or refused in one instant |
| `Settlement` | `recordPayment` and `recordRefund`, one action per statement; states that it implements `Ledger` |
| `OrderEditing` | `Settlement` composed with `createOrder`, `updateOrder`, `deleteOrder` on the same rows and locks |
| `SettlementProofs` | theorems about `Settlement`: types, balance, keys, the truth of its answers and audit, and that it implements `Ledger`; and about the composition |
| `ConnectionPool`, `ConnectionPoolProofs` | what the handlers ask of a pool; theorems about pools of any size |
| `OrderApi` | orders- and payments-service as their callers see them, one instant per request |
| `Scenarios` | the catalogue of test-scenarios as data |
| `SuiteRuns`, `SuiteRunsProofs` | suite runs that execute `Scenarios` against `OrderApi`, and their cleanups; theorems about those |
| `LoadRun`, `LoadRunProofs` | `executeLoadRun` against `OrderApi`; theorems about it |
| `TestRunner`, `TestRunnerProofs` | runs, Redis, event streams and the tabs of test-web; theorems about them |
| `Sessions`, `SessionsProofs` | auth-service, the gateway, cookies and `AuthContext`; theorems about them |
| `OrderDesk`, `OrderDeskProofs` | the order page of web against `OrderApi`; theorems about it, and one about the order status |
| `OrderViews`, `OrderViewsProofs` | list, summary, export and the dashboard of web against `OrderApi`; theorems about them |
| `MC...` | constants of the small instances |

Definitions whose names contain an underscore (`Insert_NoIndex`) and whose
comment calls them a faulty variant are not part of any specification: each is a
bug that the property it is paired with in `PROJECT.json` detects.

There are two layers. `Settlement` and `OrderEditing` open a request up into its
statements; they show that a request of payments-service takes effect in one
instant (`ImplementsLedger`). The modules of the callers stand on `OrderApi`, in
which that is how a request takes effect, and which says in addition what an
answer contains. Its edits and deletions are atomic as well: the races that
`OrderEditing` shows inside them are not repeated one layer up.

### Settlement

A request `r` is a record `req[r]` (kind, order, amount, key) and a place
`pc[r]` in the code. `live`, `total`, `paid` are the committed columns of the
order rows, `ledger[o]` the committed rows of `payments` and `refunds` of an
order in the order of their commits, `audit` the audit rows. What an open
transaction has written is not stored twice: it follows from `pc[r]` and the
value `newPaid[r]` that its UPDATE returned, and `Commit` publishes it.

| Action | Code |
|---|---|
| `Receive`, `Lookup` | the header, and the lookup of the key before the transaction |
| `Snapshot` | BEGIN, `findOrderSnapshotForUser`, `throwForInvalid...Amount` |
| `Update`, `Unblock` | `applyGuardedPayment` / `applyGuardedRefund`; `Unblock` is the re-evaluation of the WHERE clause after a wait |
| `Reread` | the second read for the error, and ROLLBACK |
| `Insert` | `insertPayment` / `insertRefund`, with the wait for a key in flight and 23505 |
| `WriteAudit`, `Commit`, `Confirm` | `writeAudit` on the client, COMMIT, the 201 |
| `Relookup`, `Replay` | the catch block, `buildIdempotentReplayResult` |
| `AuditRejection` | the audit of a rejected payment after ROLLBACK (refunds have none) |
| `Fail` | a query rejects, or the process or its connection is lost; the transaction is rolled back |

Three details of Postgres decide what is possible and are modelled as they are.
An UPDATE looks at the version committed when it starts: if that does not match,
it returns no row and does not wait. If it matches but is locked, the statement
waits, and afterwards evaluates its WHERE clause on the new version; the row it
then rejects stays locked until the end of the transaction. An INSERT of a
duplicate key waits for the transaction that inserted the key first. `Fail` may
also happen when the COMMIT has been applied and the answer has not been sent;
then the row is there and the caller does not know.

Two requests of different users share neither rows nor keys, so there is one
user. Amounts that validation rejects (below a cent, too many decimals) never
reach the transaction and are left out: `Amounts` is positive, which the CHECK
on `amount_cents` also says.

### OrderEditing

The line items that one request inserts form a batch (its request and the sum of
its lines). `op[e]` is the request, `at[e]` its place. `UpdateMetadata` is a
statement of its own because `updateOrderMetadata` sends it on the pool.
`DeleteLines`, `LockLines`, `InsertLines` and `SetTotal` are the statements of
`replaceLineItems`; `doomed[e]` is what its DELETE has seen and locked.
`DeleteRow` and `CascadeDelete` are the two halves of one DELETE: the lock on
the order, then the cascade, which may wait. `BreakDeadlock` is the deadlock
detector of Postgres in the one cycle there is: an edit that has deleted lines
and inserts new ones against a deletion of the order. `Settlement`'s constant
`OtherTx` is the set of edits, so their transactions can hold the order's row.
An INSERT of several line items is one step, and a created order has a fresh
identifier, so that its whole transaction is one step. After an order has been
deleted its payments stay (there is no foreign key between the schemas), and
`ledger` keeps them.

### ConnectionPool

Every handler is the sequence of its requests to the pool. The pool of
node-postgres has `max` connections (10 by default), a queue, and no time limit
for waiting. Connections have an identity: `held[c]` lists those in the hands of
a handler, and `Grant` lends one that is free to the first of the queue.
`StatementFails` gives back all a handler holds, as the `finally` of
`withTransaction` does.

### OrderApi, Scenarios and SuiteRuns

`OrderApi` has three variables, the rows of `users`, `orders` and of payments
and refunds, and one operator per endpoint that says what a request comes to:
its answer, and the rows as it leaves them. The status of an order exists twice,
as in the code: `StatusSql` (lists, filters, orders) and `deriveOrderStatus`
(payments), and so does the moment at which an order becomes overdue. An order
has `dueIn`, the time in hours until it is midnight UTC of its due date. SQL
casts the DATE to a `timestamptz`, which is midnight in the zone of the
database's session (`PastForDb`, `DbZone`); the driver makes a `Date` of it that
is midnight in the zone of the node process (`PastForNode`, `NodeZone`).

`Scenarios` is `packages/test-scenarios` as data: steps with a request, the
expected status, assertions, captured ids, parallel children, follow-ups.
`SuiteRuns` is `scenarioExecutor.ts` and the part of `runs/service.ts` around
it: one action per request, with the children of a parallel step in every order,
and a cleanup that first finds users and then deletes refunds, payments, orders
and users, a statement each. Users are matched by the run's own ids and by the
prefix `testrun+`, hence also those of other runs. A run is given a plan, a
sequence of scenarios, which `getScenarios` makes of a selection; it is empty if
the selection names no suite or scenario that exists, and the run then registers
a user and cleans up.

A request that is lost (`RegisterFails`, `StepFails`, `ChildFails`,
`FollowUpFails`) is executed at once, never, or later: it then stays in `lost`
until `Belated` executes it, which may be when the run has cleaned up or is long
over. `strays` remembers what came into being after the run's cleanup had
selected its users. `EventFails` is an event of a step that cannot be stored:
the hook throws out of the loop over the steps, and the scenario has failed.
`RunFails` is a command between two scenarios (the run goes to its catch block
and cleans up) or before the `try` block (the run is gone, without a cleanup).

### LoadRun

The phases of `executeLoadRun` in their order; a job is a pair of operation and
number. `queue`, `woken`, `active` are `WorkerPool`: a caller whose promise is
resolved has not yet gone on. `JobThrows` is the deadline found by
`checkTimeout` inside a job; the run is given up, its jobs are not. The limits
are applied twice, by `clampLoadProfile` in the browser and
`validateLoadProfile` in the service. Latencies, percentiles and the timing of
progress events are left out.

All requests but registrations pass the gateway's limiter (`Through`, `window`),
which counts per user and turns down what exceeds `RATE_LIMIT_MAX` with a 429.
Amounts are in tenths of a cent, because a profile may hold amounts that
`toCents` does not take (400). Lost requests, `Belated` and `strays` are as in
`SuiteRuns`. The cleanup is a SELECT and the DELETEs, one action each, and any
of them may fail (`CleanupFails`), which `cleanupUsers` logs and forgets.

### TestRunner

The service is one process with one connection to Redis, so commands take effect
in the order of sending: `pipe` holds who sent them. `record`, `lock`,
`presence` and its `ttl` are Redis; `pc` and `mem` where each executor is and
what it has read; `conn`, `net`, `timer` the stream of a tab, with frames under
way; `tab` and `shown` what the tab displays. A load run's progress callbacks
run beside it (`callbacks`). The lock and the presence set expire
(`LockExpires`, `PresenceExpires`), the process crashes (`Crash`), a command
fails (`CommandFails`), a stream breaks (`Drop`), and the browser connects
again. A command of `step.started` or `step.finished` that fails costs the
scenario, and not the run (`StepEventFails`).

### Sessions

A request is a record: where its handler is, its user, the cookies it left with,
and the requests that were over by then (`prior`). Tokens bear the name of the
request they were made for. `jar` holds the two cookies of each caller, `tab`
what `AuthContext` says. A tab acts through forms and the API client, a client
(curl, tests) as it likes. Both the gateway and the services verify the access
token. `counter`, `ttl`, `admitted` are the limiter's window of a user. Before
and after its INCR and its EXPIRE a request may be broken off (`BreaksOff`): by
a command of Redis that fails, and the request is let through (`FailOpen`), or
by the gateway, which takes the request with it (`GatewayLost`). `open` marks
the request that began a counter and could not set its expiry.

### OrderDesk and OrderViews

A page is its React state; a load is a record with the parts that have come in;
a submitted form is a call that goes on when its modal or form has been taken
down (`attached`). Each opening of a modal has a number that stands for its
random idempotency key. `told` holds the submissions that were reported as
recorded, and `unsure` those whose answer was lost. `begun` and `shown` number
the overlapping loads of one page, for nothing cancels them.

`OrderViews` has the two queries of a list, the summary, and the loop of
`downloadOrdersCsv` with `X-Export-Has-More`. An order's id says when it was
created. Between any two queries the orders change: `Altered` and `Change` are
other tabs and the clock, which goes on by one of `Hours`.

## Runs

| Run | Shows | Bounds |
|---|---|---|
| `settlement_race` | no overpayment, balance follows from rows, one row per key, answers and audit are true, under failures at any statement; `Settlement` implements `Ledger`; every request is answered | 2 orders, 3 requests of 1 cent; orders of 2 cents with one key, the empty key or none, and orders of 1 cent with one key for all |
| `editing_race` | balance, lines and audit under edits, deletions and creations; edits and settlements are answered | 1 order, 1 settlement, 2 edits |
| `pool_plain` | someone can always release, all are served | 3 callers, 2 connections |
| `suites_safety` | verdicts are true, nothing is left behind, leftovers can be found | 2 runs, 3 selections that cover all 12 scenarios and one of an unknown suite, 1 fault (a request lost or late, an event, a command, a cleanup or the process) |
| `load_safety` | pool, counts, explained failures, cleanup | 8 profiles, 2 users, concurrency 2, 3 orders, 6 requests per user and window, 2 faults |
| `runner_safety` | one load run, true verdicts, locks released by their owner, the gate reopens, views settle | a suite or a load run that is watched, or two runs side by side that are not; 2 scenarios, 1 progress callback, 1 fault |
| `sessions_safety` | accounts, tokens, audit, rate limit, tabs | 3 requests, 1 tab, 1 client, 2 e-mails, limit 1, 2 faults |
| `desk_safety` | one charge per opening, true receipts, own rows shown | 2 pages, an order of 2 cents, 2 openings, 2 submissions, 2 overlapping loads, 1 fault |
| `views_safety` | exports and dashboards tell what was there | 3 filters, 2 sort orders, pages of 1 or 2, chunks of 1, 2 uses, 1 change, 1 fault |

Why the bounds suffice for what they show: the code is the same for every
request, and its waits are on one row, one key or one set of line items. Three
requests give a holder, one that waits and one that reads between them; two
orders give a key that crosses orders. One cent against two makes a request fit,
not fit, and fit again after a refund; the theorems cover every other amount.
Two edits, two runs, two pages are the least that can overlap. Requests are not
repeated: a retry is another request with the same key (in `OrderDesk`, from the
same modal), and the bound is their number. `MaxFaults` bounds what goes wrong
or expires: one, so a run shows each fault at every place, and no combination of
two; `sessions_safety` and `load_safety` allow two, so a lost EXPIRE can meet a
crash or the end of a window, and a late request a failed cleanup. In
`load_safety` a limit of 6 is less than the requests of some profiles and more
than those of others, and three profiles have amounts with a fraction of a
cent.
Chunks of one row make an export of two chunks from two orders; `ROWS_MAX` is
then reached, too. Requests, runs and pages are interchangeable where a cfg
declares symmetry; no run with a liveness property does. `settlement_race` has
one, and starts instead from one of the many ways to name the same requests and
orders (`OneNaming`), which loses nothing because the model treats all names
alike.

`views_safety` has the two zones five hours apart, and the day goes by in
between.

Deadlock is checked except where the user of the model just may stop:
`desk_safety` and `views_safety` bound clicks, so a session ends.
Elsewhere a step that stutters when everything is over (`Quiescent`, `AllQuiet`,
`Served`, `AllOver`, `Quiet`, `Over`) makes ending no deadlock, and a wait that
cannot end one. `pool_rename` switches the check off because its property is
about that very deadlock.

### Fairness

Settlement, OrderEditing, ConnectionPool: a statement that can run does run, and
a handler goes on, so there is weak fairness of the steps of each request that
has arrived. Arrivals and failures are not fair. Weak fairness is enough for
waits because the number of requests is bounded, so no lock is taken over and
over. Postgres grants locks in the order of their queue, which the models do not
assume. The deadlock detector is fair (it runs after `deadlock_timeout`), and so
is the queue of the pool.

TestRunner: weak fairness of all that the process, Redis, the network and the
browser owe together with the two expiries: something that can happen does
happen, as long as anything can. Clicks, crashes and broken streams are not
fair. A time to live does end, which is what a lock with EX promises.

### Where code and documentation differ

These runs are expected to end with a counterexample.

| Run | Said | Found |
|---|---|---|
| `editing_frozen` | "Once a payment exists, financial fields become immutable" | a payment between the check and the transaction does not stop an edit |
| `pool_rename` | metadata is always editable | concurrent renames exhaust the pool for good |
| `sessions_limiter` | "Please try again in under ${windowSeconds} seconds." (`rateLimit.ts:35`) | if the EXPIRE of a counter's first request is lost, by Redis or with the gateway, the counter never ends and the user is turned away for good |

One more claim fails by an argument without steps, so it is a theorem and no
run: the SQL status "must stay logically identical to `deriveOrderStatus`", and
its cast "places the due date at UTC midnight" (`statusSql.ts:8-13`). Each takes
midnight of its own zone, and nothing sets either: `StatusesAgree` says that
the two agree exactly unless an order is unpaid and its due date is over in one
of the zones and not yet in the other.

Despite `editing_frozen` the range of the balance holds: the edit waits for the
payment's row lock, and `paid_not_over_total` refuses a total below what is paid
(`OrderBalance`).

### Known behaviours

The models also do the following because the code does. Properties are stated so
that they hold nevertheless, and say where they make the exception.

- A retry that runs while its original commits may be told 409 instead of the
  original row (`payments/service.ts:132`), and a 409 after a race with a refund
  may name a maximum that is not below the amount (`:150`).
- An order may be deleted after a payment has come in since the check, and the
  payment row stays (`orders/service.ts:182`). Two edits may leave both sets of
  lines with the total of one (`orders/repository.ts:234`). A rename is not
  taken back by the rollback of its audit row (`:221`). Two concurrent deletions
  are both answered 200.
- Two registrations of one e-mail that overlap: the second is told 500 rather
  than 409. Two refreshes of one token that overlap both succeed. A refresh that
  fails after the old session is gone leaves none. An EXPIRE that is lost leaves
  the counter without an end (`CounterExpires` says by what, `LimitLapses` is
  the claim that fails). A session check that a log-in overtakes sets the
  earlier user, and a log-out whose answer is lost shows the user as signed out.
- A suite run's cleanup removes the users of other runs; these then fail
  scenarios (`VerdictsTrue` says which). A load run with several users pays with
  tokens that do not own the orders (`loadExecutor.ts:402`) and gets 404. After
  a load run is given up its queued jobs go on and leave orders behind. A
  profile of more requests than the limiter admits to a user gets 429 of its own
  making, as the larger presets do. A request that is executed after the cleanup
  has looked stays, in both kinds of run, and so may all of a run whose cleanup
  fails. A burst never exceeds the order's total, for the order is made as large
  as the burst.
- A progress callback may write the old status over the final one of a load run;
  a stream opened in between is not told the end (`ViewsSettle` excepts runs so
  reopened). A suite run lost between SADD and EXPIRE keeps the gate closed.
- A page that closes and opens a modal again has a new key: the payment may be
  recorded twice, once per opening. A changed amount under the same key, after a
  submission whose answer was lost, is answered with the original and shown as
  success (`ReceiptIsTrue` excepts just that). Overlapping loads may end in the
  other order.
- An export is wrong when an order leaves it or comes into its midst meanwhile,
  and by a column with ties even without that; the row limit is only checked on
  the first chunk's total.

## Proofs

### SettlementProofs

For any sets of orders, requests, totals, amounts and headers (from
`SettlementAssumption`: totals are naturals, amounts positive, identifiers of
transactions distinct):

| Theorem | Property |
|---|---|
| `TypeCorrect` | `TypeOK` |
| `NeverOverpaid` | `PaidWithinTotal` |
| `BalanceIsLedger` | `BalanceChain` |
| `NoStaleCommit` | `StagedIsCurrent` |
| `LedgerAppendOnly` | `AppendOnly` |
| `KeysUnique` | `OneRowPerKey` |
| `AnswersAreTrue` | `AnswersTrue` |
| `LostRacesReplayed` | `LostRaceIsReplayed` |
| `AuditComplete` | `AuditTrail` |
| `LedgerImplemented` | `ImplementsLedger` |

The argument: `PaidWithinTotal` is not inductive, because `Commit` publishes
`newPaid[r]`, a value computed earlier. The strengthening is `StagedIsCurrent`:
from its UPDATE to its COMMIT a transaction holds the row's lock and
`newPaid[r]` still follows from the committed balance. It is preserved because
`paid` is written by `Commit` alone, under the lock, and the lock of one request
is never taken by another (`LocksOfOthers`, `StagedStays`, `OnlyCommitMoves`).
`BalanceChain` then needs only that the row a `Commit` appends carries the
amount it publishes. `KeysUnique` needs that a transaction past its INSERT
excludes both committed rows and other such transactions with its key.

`AnswerInv` says of every request where its row can be (from COMMIT on, and
nowhere else), what a lookup has found (rows are never removed, so a row found
before the transaction is still there when the answer is made), and what an
answer that was given says of the tables. The audit needs one fact more: a
rejection is audited by a request that ends then, hence never has a row
(`RejectionsFinal`).

The refinement mapping is `Outcome`: a request is accepted when its row is
committed, whatever its place. Each step then is one of `Ledger` or a stutter
(`StepMaps`, `CommitAccepts`): `Commit` is `Accept`, and its guard follows from
`BalanceInv` (the amount still fits) and `KeyReserved` (the key is still free);
a snapshot or an UPDATE that does not fit is `Reject` or `Refuse`; `Replay` is
`Replay` or, with the key of another order, `Refuse`; a duplicate that is no
retry is `Break`; a failure before COMMIT is `Lose`, one after it a stutter.
`ImplementsLedger` is about safety: that every request gets an answer stays with
TLC.

#### Edits

For `OrderEditing`, any number of edits on top of that (from
`EditingAssumption`: the transactions that share the row locks are the edits):

| Theorem | Property |
|---|---|
| `OrdersCovered` | `OrderBalance` |
| `NoOrphanedLines` | `LinesHaveOrder` |
| `EditsAudited` | `EditAudited` |

The theorems about `Settlement` do not carry over, because its specification
keeps `live` and `total` as they are. `EditingInv` takes its `BalanceInv`, shows
that an edit's step preserves it (an edit writes a row only under its lock, and
no staged payment can be under way on a row that somebody else has locked), and
adds what an edit knows between its statements: after its `SetTotal` it holds
the row and the new total covers what is paid (`RowHeld`); after its
`InsertLines` the order cannot be deleted (`ParentKept`: the lock of the foreign
key, and a deletion that waits in its cascade). What was logged and answered
follows from the place (`LogsAndAnswers`).

### ConnectionPoolProofs

For any number of callers and any positive number of connections:

| Theorem | Property |
|---|---|
| `PoolNeverStuck` | `SomeoneCanRelease` |
| `NothingLeaks` | a connection has one holder, and who is done holds none |

Both assume `EmptyHanded` of every script: a handler asks for nothing between
the request for its connection and its release. `ScriptsOfTheCode` shows that
payments, creation, deletion and the replacement of line items are such
handlers, and that the rename is not; `pool_rename` shows what becomes of it.
`PoolInv` determines what a caller holds from its place, so that a caller that
waits holds nothing.

### SessionsProofs

For any sets of requests, tabs, clients and e-mails, any limit and any number of
failures (from `SessionsAssumption`: the limit is positive, a tab is no client,
and `None` no request and no operation):

| Theorem | Property |
|---|---|
| `Typed` | `Inv`: types, and which operation and status a step can have |
| `NoMoreThanTheLimit` | `WindowBound` |
| `CountersAreArmed` | `CounterExpires` |
| `TokensAreLogged` | `HandedOutIsLogged` |
| `SpentTokensStaySpent` | `NoReuse` |
| `OneAccountEach` | `OneAccount` |
| `TabsTellTheirUser` | `TabTrue` |

Every handler's step moves one request and leaves its operation, cookies and
sender alone; `Moves` says for each action where it moves it, and the invariants
are then checked against that table (`MovedShaped`, `MovedAside`, `LogMoved`,
`TokenMoved`, `AccountMoved`) instead of against the actions.

- *Limiter.* `WindowBound` is not inductive: the request between the INCR that
  made a counter and its EXPIRE is counted but not yet admitted. `LimiterInv`
  adds that there is at most one such request per user, that the counter has no
  expiry while it stands there (so the window cannot end under it), and that it
  leaves room for it. A step that breaks a request off either sets the expiry or
  marks the request as `open`.
- *Audit.* `LogInv` carries the row from before the session is stored
  (registration, log-in) to the answer; a refresh writes it last.
- *Tokens.* `TokenInv`: a refresh token in a cookie or a request is that of a
  request that is over, so it is never stored again; once spent it is not in
  Redis; a refresh sent after that stops at its lookup.
- *Accounts.* `AccountInv`: while nothing has failed and nobody was removed, a
  registration that is past its INSERT has its account, so a later one for the
  e-mail stops at its lookup.
- *Tabs.* `TabInv`: the cookies of a tab are those of its last registration or
  log-in, or gone; a session check on its way left with those, unless a log-in
  has overlapped it (`StaleCheck`, the exception that `TabTrue` makes), and what
  it finds is the user of the token it bears.

### TestRunnerProofs

For any suites, load runs, numbers of scenarios, progress callbacks and faults
(from `RunnerAssumption`):

| Theorem | Property |
|---|---|
| `OneLoadAtATime` | `OneLoad` |
| `LockOfItsRun` | `OnlyOwnerReleases` |
| `ViewsEndTrue` | `FinalViewTrue` |

`RunnerInv` has three parts. `PipeInv`: each executor has at most one command
under way, and none where it waits for no command, so an answer that comes in is
that of the place it stands at. `LockInv`: a load run between SET NX and its DEL
has the lock unless it has outlived it, and none is about to take the lock while
another is about to delete it (`Apart`, below). `RunOk`: whatever can be read or
sent later tells nothing that is not so, wherever it is: the record, what an
executor or a callback has read of it and not yet written back, the frames on
the wire, the tab. A progress callback that writes an old record back writes a
status that was true when it was read and claims no end, which is why the
theorem holds and `ViewsSettle` needs its exception.

The lock may expire at any moment, also between the GET and the DEL of
`releaseActiveLock`, which are two commands. Another run could lose its lock to
that DEL if it came to SET NX in between. It does not: a start sends GET, SCARD
and SET NX one turn of the connection after the other, so it has seen the lock
free two turns before it takes it, and the run that now releases the lock has
held it for many turns. `Apart` says so for each place of the one run and the
other, in the order of their commands in `pipe`, and the queue lemmas
(`TailAhead`, `AppendAhead`, `Queues`) carry that order over each step. The
argument needs the one connection of one process: with two of them the
compare-and-delete would have to be one command.

### LoadRunProofs

For any profile that the limits admit, any limits, any rate limit, failures and
any time at which the deadline or a window passes (from `LoadAssumption`: limits
are positive, profiles are numbers and switches):

| Theorem | Property |
|---|---|
| `PoolKeepsItsBound` | `PoolMoves` |
| `EstimatesHold` | `EstimateMet` |
| `FailuresHaveReasons` | `FailuresExplained` |
| `RunsCleanUp` | `CleansUp` |

- *Pool.* `PoolInv`: a job is at one place, once; a slot is free only if nobody
  waits (a caller that is woken keeps the slot it was woken for). Every action
  either rests, starts a phase in an empty pool, or ends one job
  (`StepsOfRuns`), and the other invariants are checked against these three.
- *Phases.* `PhaseInv`: while nothing has thrown, the pool holds only jobs of
  the current phase, so that a phase ends with an empty pool.
- *Estimate.* `CountInv`: operations counted, jobs in the pool and those of the
  phases ahead never sum up to more than the estimate, and to exactly that while
  all orders are created and nothing has thrown.
- *Limit.* `WindowInv`: what a user's window has counted, the jobs in the pool
  and the requests of the phases ahead are never more than the requests of the
  profile, so that a 429 comes only to a profile of more requests than the limit
  (`LimitReached`).
- *Failures.* `OrdersInv`: an order is known by the job that created it, also if
  that job's request is still to be executed (`LostKnown`), so that two payments
  of one order are a part and its remainder (`PartsOfTotal`); what is paid is at
  most what its settled jobs spent, and the job that comes next still fits. A
  payment can then only be turned down for its amount, for its owner, or because
  the cleanup was faster (`ReasonsKnown`).
- *Cleanup.* `CleanInv`: everything belongs to a user that the run knows
  (`Belongs`), the SELECT finds all users, and each statement leaves none of
  what it deletes but strays; nothing else is added once no job is left.

### SuiteRunsProofs

For any runs, any plans made of the catalogue's scenarios and any number of
failures (from `SuiteAssumption`: plans are such sequences):

| Theorem | Property |
|---|---|
| `RunsCleanUpAfterThemselves` | `NothingLeftBehind` |
| `LeftoversAreFound` | `LeftoversFindable` |

- *Catalogue.* `Catalogue`: every scenario has steps, every step is a request or
  a parallel step of requests, and only the scenarios that say so
  (`needsSecondUser`) send requests of a second user. So a run sends requests
  only for users that it has registered and knows (`RequestAllowed`).
- *Requests.* `RequestOwned`: whatever a request does to the tables of
  `OrderApi`, a new order or row is of the user who asks, and no order changes
  hands. All data of a run therefore belong to the users in its `userIds`
  (`Owned`), also what it creates after another run's cleanup has taken its
  user, and what a lost request of it creates later (`LostOk`).
- *Cleanup.* `Swept`: what a cleanup has found contains all users that the run
  knows, and each statement leaves none of what it deletes; a run sends no
  request while it cleans up, so that only lost requests add something, which is
  then a stray. The prefix alone would not do: a user that is gone is not found
  by it, but may still have orders (the faulty variant `FindUsers_PrefixOnly`).
- *Leftovers.* `Findable`: a user is deleted after its orders, a user that
  another run deletes puts its run into `hit`, and what comes after the run's
  own deletion of it is a stray.

### OrderDeskProofs

For any pages, openings, submissions, loads, amounts and faults:

| Theorem | Property |
|---|---|
| `RetriesDoNotCharge` | `NoDoubleCharge` |
| `ReceiptsAreTrue` | `ReceiptIsTrue` |
| `PagesShowTheirOwn` | `OwnRowsShown` |
| `StatusesAgree` | (a lemma about `OrderApi`) |

`ChargeInv`: a key is that of one opening of one kind of modal wherever it has
come to (modal, call, row), so a second row of it would have been found by the
lookup; what was answered with success is recorded. The submissions of an
opening come one after the other (`Turns`), so a row that is there before one of
them is sent is of an earlier one whose answer was lost: only then may the
recorded amount be another (`Doubted`, `AnswersInv`). `ShownInv`: the loads of a
page are told apart by their numbers, and the latest has, in the parts that have
come in, everything that the page reported before it began; an earlier one may
lack it.

`StatusesAgree`: the CASE expression that filters and sums in SQL and the
function in TypeScript give the same status if and only if the order is paid, or
it is after midnight of its due date in both zones or in neither: for every
total, paid amount, due date and zones. In equal zones they always agree.

### OrderViewsProofs

For any filters, sort orders, page sizes, chunks, and any number of orders,
changes, uses and faults (from `ViewsAssumption`: there is a page size, page
sizes and the chunk are positive):

| Theorem | Property |
|---|---|
| `DashboardsAreTrue` | `DashboardTrue` |
| `ExportsAreExact` | `ExportExact` |

- *Orders.* `OrdersOk`: there are finitely many, each under its own number, and
  a new one has a number above all others, whatever is done to them
  (`AlteredStay`).
- *Dashboard.* `DashInv`: a load that is the latest has the parameters that are
  set, every row that a load has read bears the status it was filtered by, and
  what the latest load has read (the length of the page, the total, the cards)
  is true until an order changes. `MatchingIsWanted` turns the CASE expression
  of SQL into the four statuses as the README has them.
- *Sums.* That what is outstanding and what was collected come to all totals
  (`SummaryAddsUp`) is an induction over the set of orders. The induction
  theorems of the library take an operator, but its theorems about well-founded
  orders do not: `LeastSubset` and `LeastNumber` give a set of counterexamples a
  least member, which is then shown to be none. `SumIs` opens the fold of the
  library up, and `SumDefined` shows that its recursion defines something.
- *Export.* For the two sort orders by creation there is exactly one sequence
  that ORDER BY admits (`OneByCreation`: the first place where two of them
  differ cannot be). `ExportTrue`: the file with the chunk just read is a prefix
  of it, and what was to be exported still matches; a change that keeps the old
  sequence a prefix of the new one keeps that (`PrefixOfPrefix`), a chunk goes
  on where the file ends (`ChunkGoesOn`), and `hasMore` denies only when the
  file is all of it (`WholePrefix`), which names every order that matches
  (`SortedRange`). For a column with ties `OneByCreation` is false: that is
  where rows are missing or doubled.

### Only model-checked

- Liveness, which is beyond the prover: that requests are answered, that all
  callers of a pool are served, `GateReopens`, `ViewsSettle`.
- `VerdictsTrue` of `SuiteRuns`, which depends on what each of the twelve
  scenarios expects.

## Not modelled

- Formats, notes and messages, the text of the CSV, layout, charts, and the
  forms' validation of text. Amounts are whole cents, in the load run tenths of
  them; of the conversion between decimals and cents there is what `toCents`
  turns down and where the load run rounds. Cents are `bigint` in Postgres and
  exact in JavaScript below 2^53, and no bound is modelled.
- Search and the due-date filter of lists, and the debounce of the search box.
- The page that creates an order, the audit history, health checks.
- The rate limiter in front of `SuiteRuns`, `OrderDesk` and `OrderViews`: a
  whole catalogue is 49 requests of a user, and the limit 120 in a minute. In
  `LoadRun` it is there, with Redis in order; that it lets requests through when
  Redis fails is in `Sessions` and would only lessen the 429s.
- Zones whose distance from UTC changes (daylight saving); two processes of
  payments-service in different zones.
- The seven days of a refresh session, and two tabs with one cookie jar: the web
  client never refreshes.
- Migrations, seeding and deployment are scripts that run once; the constraints
  they create are part of the modules.
- Several processes of one service: all models of Postgres and Redis hold for
  them, but `TestRunner` relies on its one process, as the in-memory events of
  the code do, and so does what it shows of the release of the lock.

## Plan

What is left to prove is `VerdictsTrue` of `SuiteRuns`, which needs, for every
step of every scenario, what the data of its own users look like when it is
reached.
