# A formal model of piping

piping is a print server: a user logs in through OpenID Connect, is granted a
quota of pages per semester, uploads a PDF to a queue, is charged, and the
document is handed to a printer by `smbclient`. This directory holds TLA+
modules of that program, the instances TLC checks, and proofs checked by TLAPS.
Paths below are relative to `src/`.

## The system

| component | state | operations | talks to |
|---|---|---|---|
| job states (`internal/job`) | none | `IsTerminal`, `DeductsQuota`, `ValidTransition` | everyone who writes a row |
| submit (`internal/app/submit.go`, `web.handleSubmit`, `internal/quota`) | one goroutine per request | checks, cost, `CheckQuotaAndStore`, `Deliver` | store, analyzer, delivery |
| job store (`internal/postgres/job_store.go`) | table `job` | `CheckQuotaAndStore` (a transaction), `UpdateJobState`, `MarkSent`, `StaleJobs` | PostgreSQL |
| delivery (`internal/app/deliver.go`, `internal/smb`) | destination, attempt, deadline | `pickDestination`, `MarkSent`, `Send` with retries, `resolve` | store, `smbclient` |
| sweeper (`internal/app/sweep.go`) | one goroutine, the batch of a pass | `Run`, `pass` | store |
| queues (`internal/queue`, `queue_store.go`) | tables `queue`, `destination`, written by administrators in SQL | `GetQueue`, `DestinationsForQueue`, `LoadBalancerPolicyForQueue`, `Choose` | submit, delivery |
| provisioning (`internal/app/provision.go`, `quota_store.go`, `user_store.go`) | tables `app_user`, `semester`, `semester_grant` | `Provision`, `EnsureUser`, `EnsureSemester`, `EnsureGrant`, `QuotaFor` | login callback, PostgreSQL |
| sessions (`internal/session`, `internal/user`, `web/server.go`, `internal/oidc`) | only the sealed cookie in the browser | `Issue`, `FromRequest`, `requireSession`, `requireRole`, `GetUserInfo` | browser, identity provider |
| login (`internal/oidc`, `internal/seal`, `handleAuthCallback`) | nothing on the server: the page asked for and the PKCE verifier travel, sealed, in the URL | `GetAuthURL`, `GetUserInfo`, `ToUser`, `safePath` | browser, identity provider, provisioning, sessions |
| dashboard (`handleHome`, `user_store.go`) | none | `RemainingQuota`, `GrantedQuota`, `EnabledQueues`, `JobsWithDestinationForUser` | store |
| semesters (`internal/semester`, `QuotaFor`, `migration/*.sql`) | rows of table `semester`, the older ones made by the migration | `Current`, `Code`, `Name`, `quota_for`, ... | provisioning |
| print tickets (`internal/printticket`) | none | `FromJob`, `XCPT` | delivery, printer |
| connection pool (pgxpool, as `internal/postgres` and `/readyz` use it) | connections, locks they hold | acquire, release, `handleReady` | all that use the store |
| process (`cmd/piping/main.go`) | settings, context, goroutines, listener, pool | start, stop, graceful shutdown of 10 s | all |
| templates, static files, Ghostscript's output | | rendering, text | not modelled, see below |

What is hard here:

* *Concurrency.* Requests of one user, of several tabs, and the sweeper share
  rows; the only lock is `SELECT ... FOR UPDATE` of the user's row, and only
  `CheckQuotaAndStore` takes it. `UpdateJobState` relies on `WHERE state = from`.
* *Failure.* A statement that returns an error may or may not have been
  executed, and may be executed later. `smbclient` may fail after the printer has
  the document. The process may stop between any two steps; nothing but the
  tables survives.
* *Time.* The send deadline, the pause between attempts, the lock timeout, the
  age bound of the sweeper, the lifetime of cookies, and clocks of two machines.
* *Start and stop.* A signal may come at any step of the start; goroutines, the
  listener and the pool go away in an order of their own while requests still run.
* *Waiting.* Calls wait for connections and, holding one, for a row lock.
* *Staleness.* Queue, destinations, remaining quota, semester and role are all
  read before they are used.

What makes each part correct: nobody has more quota deducted than granted
(store); a row only moves along `validTransitions`, whoever moves it (store,
delivery, sweeper); the page tells the truth about the quota, and about the print as far
as it can be known (submit); what is printed was charged and its destination recorded, and who is charged for good
has the document (delivery); no row is stuck (sweeper); a job fits its table
and stale reads are not too stale (submit, queues); grants are uniform, kept,
earned, and not early (provisioning); a cookie lasts as long as promised and no
longer, with a role its user really had (sessions); a login ends, at the page it
began with (login); what a page shows is consistent though it is read piece by
piece (dashboard); one signal stops the server without cutting off a request that could
still be answered (process); nobody waits for somebody who waits for him (pool).

## Modules

| module | what it is |
|---|---|
| `JobStates` | states, final states, deducting states, transitions |
| `Accounts` | the jobs of an instance, owners, costs, and the sum of costs (`SpentQuota`); `Accounts_proofs` has the lemmas about the sum |
| `QuotaLedger` | the abstract promise: charge once and only if affordable, refuse only if not, release once |
| `Delivery` | requests, sweeper, rows, printer, process; each database call is one step |
| `CheckQuota` | the inside of `CheckQuotaAndStore`, statement by statement, with the row lock |
| `Provision` | login callbacks, grants, semesters, restarts with another `DEFAULT_QUOTA` |
| `Submit` | one request in detail - form, checks, cost, row, destination - while administrators switch queues |
| `Session` | tabs, cookie, roles, clock |
| `SweepTiming` | one request and the sweeper against a clock: how old a row can be while its handler runs |
| `Dashboard` | the home page, read by read, over the tables of `CheckQuota`, which it extends |
| `Process` | settings, start, signals, shutdown, pool, and the sweeper's goroutine |
| `Pool` | calls, connections and the lock of the user's row |
| `Login` | tabs, redirects, sealed states, PKCE, callbacks, a restart with another key |
| `Semesters` | codes, names and amounts of semesters, in Go and in the migration's SQL; `Provision` extends it |
| `X_proofs` | the theorems about `X`; those about `CheckQuota` are in `Dashboard_proofs`, those about `Process`, `Pool` and `Login` in `Server_proofs`, those about `Semesters` in `Provision_proofs` |
| `MCX` | the constants of the instances of `X` that TLC checks |

`Delivery` and `CheckQuota` both extend `Accounts` and `JobStates`, and both
implement `QuotaLedger` through `INSTANCE QuotaLedger WITH ...`: that is how they
compose. `Delivery` may treat `CheckQuotaAndStore` as one step because
`CheckQuota` shows that its transaction takes effect at one point: at the read if
it is refused, at the commit if it is charged. `SweepTiming` is what the switch
`AgeBoundCoversHandler` of `Delivery` stands for: it says which settings switch it on.

### How the modules correspond to the code

* **Delivery.** `row[j]` and `dest[j]` are the `state` and `destination_id`
  columns of the row that request `j` creates. `pc[j]` is the place of the
  handler: `store`, `pick`, `mark`, `send`, `retry` and then one of the three
  calls of `resolve` (`undo` from quota_deducted; `confirm`, `giveUp` from
  print_sent). A database call has three outcomes: `Affected` (one row), `Unexpected`
  (`ErrUnexpectedState`) and `Broken` (any other error). After `Broken`, and after
  a crash, the statement is possibly in `inflight`, where the database may execute it at any
  time. `told[j]` is the page: what `handleSubmit` makes of `Submit`'s result.
  `Spool` is the moment at which the printer has the document; `paper[j]` counts
  those. `batch` is what `StaleJobs` returned and the pass has not visited.
  `cutoff` abstracts the clock: rows are numbered in the order of `submitted_at`,
  and the first `cutoff` rows are older than `SWEEP_AGE_BOUND`.
* **CheckQuota.** One action per statement. Grants are made while transactions
  run; their foreign key check waits for the lock. A transaction whose connection
  is lost keeps its lock (`orphan`, `limbo`) until the server ends it.
* **Provision.** `entitled` is the set built by `Provision`, and `todo` what is left of the
  map iteration, whose order Go leaves open. Errors of one semester set `soft` and the
  login goes on. `Restart` may change `DEFAULT_QUOTA`.
* **Submit.** One action per read of the queue tables. `queueSeen` and `destsSeen`
  are history: what was enabled at some time since the request came, and since the
  job was charged.
* **Session.** `Answer` is `requireSession` followed by `requireRole`. The cookie
  carries `Role` and `Exp`, and two fields of history: when the role was read and
  when the cookie was issued. `lastStaff` and `lastPlain` are history, too.

* **SweepTiming.** `pc` names the statement, send or pause the handler waits for, `due`
  when it will have ended. `born` is `submitted_at`, PostgreSQL's `now()`, which is when the
  transaction began, long before the row is there. The sweeper compares it with its own
  clock, which is `Behind` ahead of the database's. The ticker's next tick is at most an
  interval away when a pass ends, and at once if it came during the pass.
* **Dashboard.** `at[u]` is the next of `handleHome`'s reads. `known` is
  history: what the user knew to be charged when asking for the page.
* **Process.** `main` is the line of `run`, and `shutdown` and `sweeper` its two other
  goroutines. `pool` is closed by `run`'s deferred call, which waits for connections in
  use. `env` abstracts settings to what decides: whether they are all there and parse, three durations
  of which 0 stands for all that are not positive, the length of the key.
* **Pool.** `InUse` are the calls that hold a connection. `pc[c] = "key"` is a grant whose
  foreign key waits for the user's row, which has no limit; `"lock"` is
  `SELECT ... FOR UPDATE`, which has one.
* **Login.** A URL carries the code and the state of the redirect; the provider remembers the
  challenge of a code and takes the code once. Random values are numbers that nobody else holds.
  `want` is history: the page the user wanted.
* **Submit**, print tickets. `FromJob` is what the ticket says; `Printed` is what paper
  it makes of the pages that Ghostscript counted.
* **Semesters** has no state. `MCProvision` walks through the months.

Definitions marked "Mutant" in a comment are deliberately wrong variants of
the definition below them; each is a bug that a property of the module finds
when it takes the place of the correct definition.

## Runs

All runs use two workers and end within about a minute and a half. Two of them are
expected to fail; they are explained below the table.

| run | question | bounds |
|---|---|---|
| `delivery` | Is what pages say about the quota so, is paper accounted for, and is the ledger kept, whatever goes wrong? Is every stuck row resolved, and every request over some day? | 2 requests of one user who can pay for one; 2 attempts; 1 error, 1 crash; batch of 1; dishonest printer; no relation between age bound and handler |
| `delivery_covered` | Is nothing printed after its quota was given back, if the age bound covers the handler? Do pages say truly whether something was printed? Is a user charged iff the document was printed, until something fails? | 3 requests of 2 users, 2 attempts, 1 error, 1 crash, honest printer |
| `delivery_billing` | The same, after one database error: *violated*, see below | 2 requests, 1 error |
| `quota_pages` | Is `CheckQuotaAndStore` atomic, and does it return? Can the home page contradict itself? | 2 transactions of one user, grants of 1 or 2 up to 3 |
| `provision` | Are grants uniform, kept, rightful? Do program and migration agree on semesters? | 2 logins, 2 users, 3 semesters, 2 months, 2 quotas, 1 error, 1 crash; the calendar from July 2015 to May 2028 |
| `submit` | What can be stale, what can be charged, and is it what is printed? | 1 request, 2 queues, 3 destinations, 2 pages, 2 copies, rate 3 |
| `session` | How long does a cookie last, and its role? | 2 tabs, 4 sets of groups, lifetime 3 ticks, second 2 ticks, 5 ticks |
| `sweep_timing` | Which age bound keeps the sweeper off running handlers, and how soon is quota back? | statements of 1, lock timeout 2, send timeout 2, age bound 14, clocks 1 apart, 1 fault, 21 ticks |
| `process` | Is anyone cut off, does the exit status tell the truth, and does one signal stop the server? | 2 requests, all settings |
| `process_interval` | Does the sweeper go on? *Violated*, see below | 1 request |
| `pool` | Can calls wait in a circle? Does every call return, and `/readyz` even if the server never notices lost clients? | 2 submits, 2 grants, an update and a ping of one user; 2 connections |
| `login` | Does a login end, and where? | 2 tabs, 3 verifiers and codes, 2 keys |

Why these bounds are enough to be interesting: two requests and the sweeper are
the smallest race for a row and for the quota; a third request adds a second user and
a row that the batch limit leaves out. One error leaves one statement to be executed late,
against a row that handler and sweeper go on with; one crash makes all running handlers vanish at
once. The costs 2 and 1 against a grant of 2 make
"exactly enough" and "one too few" both happen. In `submit` the page and copy
counts run from below their limits to one above, and the largest integer lies below
the largest cost, so that the column overflows. In `session` a lifetime that is no
whole number of seconds makes both roundings visible. In `sweep_timing` the age bound is
exactly the least one that is ample, 9 * 1 + 2 + 2 + 1; with 13
`NoPrintAfterResolution` fails, and the clock runs long enough for a job that dies at once to be given back. In `pool` the grants
alone can take all connections. In `login` one verifier is left when both tabs hold one.
The instances do not settle larger ones; the theorems do. Type correctness is left to the
theorems, except in `delivery`, where the type bounds the attempts, and in `pool`, where it
bounds the connections.

`delivery_billing` is expected to fail. `internal/app/deliver_test.go:100` says
"user charged iff printed must hold", and its in-memory store never fails. With one
failed update after the print, the row stays in print_sent, the sweeper moves it to
print_failed, and the user has printed without being charged. The same happens
with an unlucky crash or a printer that takes the document and reports an error. `delivery_covered`
shows that the statement holds until something fails, and `SucceededIsPrinted`, proved
with all failures, that the error is always in the user's favour.

`process_interval`: `README.md:14` speaks of a periodic sweep. `SWEEP_INTERVAL=0s`, or a
negative duration, is accepted when the settings are read (`cmd/piping/main.go:324`), and
`time.NewTicker` panics on it (`internal/app/sweep.go:31`), after the first pass and in a
goroutine of its own: the server ends, and not before it has begun to accept requests.

Three more things a reader of the code should know, which no run states. The page of a job that
could not be confirmed is headed "Not printed" (`internal/web/handlers.go:117`), also if the printer has
the document and only the update after it failed; `PageTellsThePaper` leaves it out. It says "Check your job history before submitting again"
(`internal/web/handlers.go:215`); if the answer to the COMMIT was lost, the server may still
commit after the user has looked (`CheckQuota`, `limbo`). And the home page says "Each color page counts for 3x
your page quota" (`internal/web/templates/home.html:89`), whatever `COLOR_RATE` is.

### Fairness

* `Delivery!FairSpec`: a running handler takes its next step (every database call returns,
  `smbclient` is killed at its deadline, pauses end); the sweeper's ticker ticks
  and its loop goes through the batch; rows get older; the service manager restarts the process. No
  fairness for arrivals, for `ExecuteLate`, or for anything that fails.
* `CheckQuota!FairSpec`, and `Dashboard!HomeFairSpec` alike: only the statements of a client that
  is there, and its lock timeout. Nothing is assumed of the server noticing a lost client, or of browsers.
* `Process!FairSpec`: the calls of the start end, each has a timeout or the context that
  the signal cancels; `Shutdown` ends by its deadline; the database answers statements. Nothing is
  assumed of clients: the server has no `ReadTimeout`, and an upload may last for ever.
* `Pool!PoolFairSpec`: the pool serves its queue, statements end, timeouts fire. `EveryCallReturns` is
  stated for servers that end the transactions of lost clients: without that
  a grant waits for ever, with a connection, since the code sets no lock timeout for it.
* `Login!LoginFairSpec`: browsers follow redirects, the provider answers one way or the other,
  handlers end. Cookies may expire at any time but between their issue and the request
  that follows the redirect; were `SESSION_TTL` -1s or less, browsers would delete the cookie on arrival and `LoginEnds` would not hold (its mutant).

## Proofs

For every value of the constants that satisfies the named assumptions:

* `Accounts_proofs`: the recursive sum of costs - what it is when a job is added
  or removed, that it is monotone, that other users' sums do not change. The inductions
  are by smallest counterexample (`LeastNumber`): initial segments are finite sets,
  strict inclusion of finite sets is well founded, and a well-founded relation has
  minimal elements. The library's induction theorems take an operator as a
  parameter, which the provers cannot instantiate.
* `Delivery_proofs`: `TypeCorrect`, `PagesTellTheQuota`,
  `PaperIsTraceable`, `ChargedForGoodIsPrinted`, `Lifecycle`, `Solvency`,
  `Refinement`, `RequestsEnd`. The inductive invariant relates a handler's place, its row, the statements in
  flight and the paper: a row can be print_sent only if its
  handler marked it or its `MarkSent` was executed late; a `confirm` statement
  exists only for a document that was printed; a `store` in flight only for a
  handler that is over. None of the properties is inductive without it, since a late statement can
  appear at any time.
  Three more hold under switches. `NothingPrintedLate` assumes `AgeBoundCoversHandler` and rests on
  `Shield`: as long as a request is not over, its row is younger than the cutoff, in no batch and
  in no statement in flight, so that only its handler moves it. On top of that,
  `ChargedExactlyIfPrinted` assumes an honest printer: until the first error or crash (`Calm`)
  the sweeper finds nothing, every statement matches, and a job given up was not printed. `PagesTellThePaper`
  assumes the same of printer and age bound, but holds after errors and crashes too: a failed attempt has
  printed nothing (`NotPrinted`), and the update after a print finds the row as the handler left it, or errs.
* `SweepTiming_proofs`: `TypeCorrect`; and under `Ample`, the condition on the age bound,
  `NothingPrintedLate` and `QuotaIsBackInTime`. The invariant bounds the handler's
  next deadline by the number of statements since BEGIN, so that a row younger than the
  age bound may still be sent and an older one is not; and it says of a row that is open after its
  handler is done which pass will find it. `Ample` is more than the guard of
  `cmd/piping/main.go:152`, and the defaults - a minute, against 5 s for the send and 5 s for the
  lock - satisfy it if a statement takes less than 5 s.
* `Dashboard_proofs`, about `CheckQuota`: `TypeCorrect`, `Solvency`, `ReadsHold`, `OneLockHolder`,
  `ResultsAreTrue`, `Refinement`. The invariant says who may hold the lock, that
  what was read is still affordable, and that a verdict agrees with what was read.
  About `Dashboard`: `PageTypeCorrect`, `PageStaysConsistent`. The
  invariant relates what the page has read to the tables as they are now: grants only
  grow, and a job that counted when the page was asked for either still counts or never will again.
* `Provision_proofs`: `TypeCorrect`, `SameForAll`, `AllRightful`,
  `AmountsAreFinal`, `SessionsAreServed`. The invariant extends each property from the
  tables to the statements in flight and to the logins about to send one.
  About `Semesters`: `CurrentIsMonotonic` and `NameUndoesCode`, for all months and years;
  `MigrationIsTheProgram`, for all months of the migration's range; and from these `CalendarHolds`,
  what the run `provision` checks of its own months.
* `Submit_proofs`: `TypeCorrect`, `JobsFit`, `QueueWasOpen`, `DestinationWasOpen`,
  `PrintsAreCharged`;
  `JobsFit` needs the two lemmas that products of bounded numbers are bounded and
  products of positive ones positive.
* `Session_proofs`: `TypeCorrect`, `RevocationWorks`, `CookieLasts`,
  `StaffAreLetIn`, from the lemma `UnixBounds` about rounding down to seconds.

* `Server_proofs`, about `Process`: `ProcessTypeCorrect`, `EveryoneIsAnswered`, `StatusIsTrue`.
  That nobody is cut off rests on an order of four goroutines: the listener is closed for good before
  `Shutdown` can be done (`ListenerKnows`), so nobody comes after the handlers were counted
  (`DrainKnows`); `run` returns "stopped" only after that (`ResultKnows`), and only `run`'s return
  closes the pool (`PoolKnows`).
  About `Pool`: `PoolTypeCorrect`, `NobodyWaitsForHimself`. The invariant `LockKnows` says that a lock
  belongs to a transaction that is past its `SELECT ... FOR UPDATE`, or whose client is lost. Such a transaction has a
  connection and waits for nothing, so no set of calls can wait for its own members only (`Stuck`). It would
  if the remaining quota were read through the pool: that is the mutant of `NeedsConn`.
  About `Login`: `LoginTypeCorrect`, `TabsStayApart`, `RedirectsEnd`. A redirect
  carries what its own request wanted and its own verifier (`RedirectKnows`), and the provider
  remembers for a code the challenge of the redirect it was given for, or nothing (`CodeKnows`), whoever
  else was given a code since: a fresh number is one that nobody holds. Assumed are a
  finite set of tabs, more numbers than tabs, keys that are numbers, and a `None` that is
  no number, URL, cookie or challenge.

Liveness under fairness is out of the prover's reach, and stays with TLC. Two theorems prove
the part of it that is about steps, for all constants: `RequestsEnd`, under `EveryRequestIsAnswered`,
gives every place of a handler a number of steps that every step of it lowers, at most
`3 * MaxAttempts + 4`; `RedirectsEnd`, under `LoginEnds`, does so for a tab, whose five steps only a
restart with another key can make more. What fairness adds is that a step is taken. `QuotaIsBackInTime`
of `SweepTiming` is the timed form of `StuckJobsAreResolved`.

Only model-checked are the liveness properties themselves: `StuckJobsAreResolved`,
`EveryRequestIsAnswered`, both `EveryCallReturns`, `SignalStopsProcess`, `ReadyAnswers` and `LoginEnds`. Every
invariant and every action property of the runs that pass is a theorem.

## Abstractions

* One process and one sweeper. Two at once, as in a rolling restart, are not modelled.
* `Delivery` keeps grants fixed and leaves the form's checks to `Submit`; `Submit`
  leaves the quota's verdict open and takes the insert for certain; `Session` leaves
  provisioning to `Provision`. Each says so where it does.
* `Delivery`'s clock is an order of rows. That the age bound covers the handler is an
  assumption of `delivery_covered` and of two theorems; `SweepTiming` shows for which settings it holds.
* Database calls are not bounded in time except where the code bounds them, and in
  `SweepTiming`, whose constant `StatementTime` bounds each: without a bound, no age bound is ample.
* `Dashboard` reads the newest jobs without an order: any part of the user's jobs may be
  the newest five. The queues on the page matter only in that reading them may fail.
* `Process` leaves the contents of requests to the other modules, and takes the listening socket, once
  open, not to fail. `Pool` leaves out the contents of statements.
* A crash of `Delivery` takes running `smbclient`s with it, but for what they print at that
  instant. That is so where piping is PID 1 of its container (`Containerfile`); elsewhere an orphaned `smbclient` may print later.
* `Login` assumes that nobody else can make or open what is sealed, and that random values differ.

Not modelled, and why:

* Templates, static files, the words of pages: rendering.
* The parsing of Ghostscript's output, of distinguished names (`firstRDN`) and of
  the multipart form, and the syntax of the print ticket: text. Their results are inputs of `Submit` and `Provision`.
* Overflow of a cost of 64 bits: it takes limits of pages, copies and the rate whose product
  passes 2^63. `Submit` models the limit of the column, which has 32.
* `checkOrigin`, which compares two headers and keeps nothing; `Clear`,
  `JobsForUser`, `JobsForQueue` and `JobsForQueueForUser`, which nobody calls; `handleAdmin`, whose page is empty; `handleJobs`, one query whose result is shown.
* The import from the old system: SQL that runs once, before the server. The semesters it makes are in
  `Semesters`. Its users, grants and jobs meet the running program, too, but are not in the initial states:
  `Provision` starts from empty tables, though a migrated grant is for its semester's `default_quota` and has its
  user (`migration/01_import_from_legacy.sql:124`); and a migrated job is in a final state
  (`to_state`), so that `Grant` of `Delivery` stands for what such jobs have left of the grants, taken not to be less than nothing.
* Cryptography: AES-GCM and SHA-256 are taken to do what they promise.

## Plan

Done, in this order: `JobStates`, `Accounts`, `QuotaLedger`; `Delivery` and its
proofs; `CheckQuota` and its proofs; `Provision`, `Submit`, `Session` and theirs;
`SweepTiming` and `Dashboard` with their proofs; `Process`, `Pool`, `Login`, `Semesters`;
tickets in `Submit`; the theorems about `Delivery` under its switches; those about `Process`, `Pool`,
`Login` and `Semesters`, and the steps that requests and logins can take.

Next: two overlapping processes in `Delivery`, each with its sweeper, as in a rolling restart, and
whether the theorems about `Delivery` survive it.

Not planned: that `CheckQuota`, with its clients hidden, implements the one step `CheckQuotaAndStore` of `Delivery`
row by row. A refusal takes its effect when the transaction reads, before it is known whether its row will be
committed, so that a refinement mapping would have to foresee this. The ledger, which both implement,
keeps what `Delivery` relies on: who is charged, who is refused, and what the user could pay at that moment.
