# A verification of gophermart

`gophermart` is a loyalty service.  A user registers, uploads the numbers of
orders, the service asks an external accrual service what each order earns and
credits the user, and the user pays for other orders with the points.  This
directory holds TLA+ modules for the parts of the program where that can go
wrong, TLC configurations that check them on small instances, and proofs that
TLAPS checks for every instance.

Contents: 1 the system, 2 the modules, 3 the runs, 4 the proofs, 5 what is
abstracted, 6 findings, 7 what is not modelled, 8 the plan.

To repeat a run: `tlc -workers 2 -config <cfg> <module>`; the proofs:
`tlapm <module>` for LedgerProofs, StoreProofs, LoyaltyApiProofs, SyncProofs,
AccrualProofs, PauseProofs, LifecycleProofs and PartsProofs.  `PROJECT.json` says
for each definition which lines of the source it stands for.


## 1. The system

| Component | Source | State it keeps | Operations |
|---|---|---|---|
| schema | `migrations/000001_init_schema.up.sql`, `models/service.go` | tables `users` (login, hash, balance, withdrawn), `orders` (number, user, status, accrual, updated_at), `withdrawals` (number, user, sum) | - |
| repository | `repository/postgres.go`, `retry.go`, `sql/` | open transactions | CreateUser, UserByLogin, CreateOrder, ListOrdersByUser, ListOrdersForProcessing, ApplyAccrualResult, GetBalance, CreateWithdrawal, ListWithdrawalsByUser |
| accrual processor | `service/accrualprocessor.go`, `service/retry.go` | channel `jobs`, `pauseUntil`, `pauseTimer`, the goroutines | Run, processBatch, worker, processOrder, setPauseUntil, the timer's callback |
| accrual client | `accrual/client.go` | none | GetOrderAccrual |
| services | `service/user.go`, `loyalty.go`, `luhn.go` | none | Register, Login, UploadOrder, Withdraw, the three reads, ValidLuhnNumber |
| HTTP handlers | `handler/` | none | one per route |
| authentication | `auth/`, `middleware/auth.go` | none (a token carries its claims) | IssueToken, ParseToken, TokenFromRequest, RequireAuth |
| start and stop | `cmd/gophermart/main.go` | root context, server, pool, processor's goroutine | run, graceful shutdown |
| migrations runner | `repository/migrations.go` | the version, and whether it is dirty | RunMigrations |
| compression and request log | `middleware/gzip.go`, `logging.go`, `compress/` | of one answer: its status, its bytes, the gzip stream | WithGzip, WithRequestLogging |
| configuration | `config/` | none after the start | New: defaults, flags, environment, validation |
| logger | `logger/` | a file | - |

How they interact.  A request passes the middleware, a handler and a service
and ends in exactly one call of the repository.  The processor runs beside the
server: its poller lists orders that are not final (which makes them the newest
in `updated_at`), sends them into a channel of 20, and `concurrency` workers
ask the accrual service and call ApplyAccrualResult.  Handlers and workers
meet only in the database; workers meet each other in the channel and in the
pause, which is guarded by a mutex and a condition variable.

What is hard, and where:

- **Transactions** (`postgres.go`).  CreateWithdrawal and ApplyAccrualResult
  are REPEATABLE READ transactions of three or four statements with row locks
  and a retry; what is compared in one statement is relied upon in a later one.
  CreateOrder is one statement whose two halves look at different snapshots.
- **The same work twice.**  An order stays in the list while it is queued, so
  two workers may hold it; a commit whose answer is lost is repeated; a client
  repeats a request that was answered 500.
- **Order.**  Answers of the accrual service are fetched and applied in any
  order; lists are read while rows change.
- **Wakeups and shutdown** (`accrualprocessor.go`).  Workers wait on a
  condition variable that a timer broadcasts; timers are replaced; the shutdown
  happens at any moment and waits for all workers.
- **Timers** that are replaced, that fire late and cannot be stopped any more,
  with deadlines that are rounded, and a `Retry-After` that overflows.
- **Start, stop and crash** (`main.go`, `migrations.go`).  The queue is in
  memory and nothing waits for the processor; the server's goroutine and the one
  that shuts it down race; a migration may be broken off.
- **Boundaries.**  The free slots of the channel, the limit of retries, the
  check digit, a header shorter than the prefix that is cut off, sums of binary
  fractions, an answer without a body that is compressed.

What makes each part correct:

- repository: each call is atomic; a balance is orders minus withdrawals and
  never negative; a number is used once; a final order is final for ever; what
  a caller was told stays true; every call returns;
- processor: the list never takes more orders than fit; no worker sleeps for
  ever; statuses only advance to what the accrual service decided; every
  decided order is recorded in the end; the shutdown ends;
- API: a session needs the password; status codes say what the tables hold; a
  refused request changes nothing; what was acknowledged is in every later
  read; one user never sees the rows of another;
- pause: it lasts as long as every 429 asked for whose `Retry-After` fits a
  duration, always has the timer that will end it, and ends;
- start and stop: requests meet the program's own schema only; what was
  acknowledged survives; every stop ends, and one that reports success has
  answered everybody; what was in memory is done by a later start;
- functions: the loop decides the check digit; rounding errors of balances are
  bounded and never overdraw; a program that starts has usable settings; an
  answer arrives as written; a password is accepted if it is the stored one.

`PROJECT.json` lists the hazards at their lines with the properties that
would catch each.


## 2. The modules

    Schema           the tables, and what each write leaves in them
      Ledger         the repository as its callers see it: atomic operations
        LedgerProofs sums over finite sets, and theorems about Ledger
      Store          the repository statement by statement      (implements Ledger)
        StoreProofs  theorems about Store
        MCStore      instances for TLC
      LoyaltyApi     requests over the operations of Ledger     (with Luhn)
        LoyaltyApiProofs
        MCApi
    AccrualStatus    the statuses of an order, here and at the accrual service
      Sync           what is promised of the orders in memory
        SyncProofs
      Pause          what is promised of the pause
      AccrualProcessor   poller, channel, workers      (implements Sync and Pause)
        AccrualProofs
        MCAccrual
      PauseGate      deadlines, timers, callbacks             (implements Pause)
        PauseProofs
        MCPauseGate
      Lifecycle      main.go around Sync, with crashes and restarts
        LifecycleProofs
        MCLifecycle
    Luhn, Money, Config, Transport, Password   functions of their input
      MCParts        each over every input of bounded length
        PartsProofs  each on inputs of any length

**Schema.**  A table is a function from its key to a row or `NoRow`.
`UserCreated`, `OrderCreated`, `AccrualApplied` and `WithdrawalCreated` are what
the four writing operations leave in the tables.

**Ledger** is the abstract specification: `CreateUser`, `CreateOrder`,
`ApplyAccrualResult`, `CreateWithdrawal`, each one step with the condition
under which it is allowed, and no other steps.  The properties of the money
(`Conservation`, `NonNegative`, `FinalIsForever`, `BalanceMovesWithItsRow`) are
stated here, over tables alone.

**Store** is `postgres.go`.  A call is one invocation with its arguments;
`pc[c]` is the statement it is at, `attempt[c]` counts `withRetry`, `missed[c]`
is the set of rows changed by commits that its snapshot does not show.  There is
one action per statement (`WithdrawBegin`, `WithdrawLock`, `WithdrawInsert`,
`WithdrawDebit`, `WithdrawCommit`, ...), one for a serialization failure, one
for every other failure (`Fails`, at any point), and a commit is acknowledged
or not.  Who holds a row lock follows from `pc` (`Holds`).  PostgreSQL is
external and modelled from what the code asks of it: `FOR UPDATE`, UPDATE and
foreign key locks, the unique index, snapshots, 40001.
ListOrdersForProcessing may touch any set of open and unlocked rows; because of
SKIP LOCKED it waits for nobody, and it is one step.

**AccrualProcessor** is `accrualprocessor.go`.  The poller's and each worker's
program counter, the channel, the batch in hand, the pause, the database's
order statuses, which open order has an older `updated_at` than which, and the
accrual service's knowledge.  Each critical section of the mutex is one action
(`Gate`, `SetPauseUntil`, `Fire`, `Shutdown`); the request, its retries and its
answer are separate actions.  ApplyAccrualResult is one step, which Store
justifies.
The pause has three states here: none, before its deadline, after its deadline
with the callback yet to run.

**Sync** is what the processor does to the orders, whoever does it: open orders
are taken into memory (`List`), the accrual service answers for what is in
memory (`Fetch`), an answer is recorded unless the order is final (`Record`), and
anything in memory may be forgotten (`Forget`).  AccrualProcessor implements it
with `held` = what is in the batch, in the channel and with workers, and
`fetched` = the answers of the workers that are about to record one.

**Pause** is what a pause promises those who wait in it: it is set, it runs out,
and whatever ends it wakes everybody.  Two modules implement it.
AccrualProcessor does with its three states and many other steps in between;
**PauseGate** does with what the code has: `pauseUntil` and `pauseTimer`, a clock,
`time.AfterFunc` timers that are armed, then fired (`TimerFires`), and only then
take the mutex (`Callback`), `Stop` that comes too late for a fired timer, a
deadline computed before the mutex is taken (`AnswerLimited`) and rounded up by a
second (`Rounded`), a `Retry-After` whose product wraps (`Product`), and the
shutdown's half.  What a 429 asks for is kept apart from what the code makes of
it, in history variables: `wish[w]` is the time of the answer plus `RetryAfter`,
the product in the integers, if that fits a duration (`Fits`), and `asked` is the
latest such time for which `setPauseUntil` was called.  A `Retry-After` that does
not fit sets its wrapped deadline like any other, and asks for nothing that
HonoursRetryAfter holds the code to: the code does not honour it (6).

**Lifecycle** is `run` of `main.go` from its start to its end, again and again
over one database: the migration and its three commits, the pool, the processor
that nothing waits for, the server's goroutine, the signal, `Shutdown` with its
timeout, and the defers in their order (the pool is closed before the root
context ends).  `Crash` may come at any step.  It EXTENDS Sync, which stands for
the processor; a request is the upload of an order; when a process ends, `held`,
`fetched` and the open requests are gone.

**LoyaltyApi** is a request from the router to the status code.  A request is
received and refused or accepted (`Receive`: RequireAuth, decoding, the checks
of the service), makes its call of the repository (`Register`, `Login`,
`UploadOrder`, `Withdraw`, `ListOrders`, `GetBalance`, `ListWithdrawals`, or
`StoreFails`), and answers (`Respond`).  The steps of different requests
interleave; a call may take effect and still report a failure; tokens expire;
accrual results arrive.  The repository is `INSTANCE Ledger`.  `before` is a
history variable: the successful requests of the user that were already
answered when a read arrived; only properties read it.

**Luhn** is `luhn.go` over sequences of bytes, with the loop as a fold, and
`strings.TrimSpace` for the space.  **Money** is the arithmetic of the balances:
numbers with a fixed count of significant bits, rounded to the nearest, on which
`Earn` and `Pay` keep the rounded row beside the exact one.  **Config** is the
three sources of the settings, what overwrites what, normalisation and
validation.  **Transport** is the two middlewares between a handler's `WriteHeader`
and `Write` and the bytes on the wire: the compressing writer, its header and
trailer, and what the log counts.  **Password** is `password.go`, PBKDF2's loops
included, over HMAC as a free constructor.  **MCParts** is a transition system
only to enumerate inputs: `part` says which function and `input` grows piece by
piece.

Definitions that begin with a comment `Mutant:` are not part of a model: each is
a plausible error in the definition that follows it, and `PROJECT.json` names
the property that finds it.


## 3. The runs

| Run | Asks | Instance | States |
|---|---|---|---|
| store_balance | Do the balances survive every interleaving, and is every commit a step of Ledger? | one user, two orders, three results of which two are the same, a withdrawal that needs both accruals | 391 521 |
| store_users | Are two users kept apart, and is everyone told the truth for ever? | two users with an order each, an upload of the other's order, two results, two withdrawals under one number | 513 217 |
| store_fair | Is the balance never overdrawn by withdrawals that compete, does a late answer change a decided order, and does every call return? | one order, two results, two withdrawals, one upload | 30 913 |
| store_upload_race | Is it always decided whose order it is? (it is not, see 6) | three uploads of one number by two users | violation |
| accrual_safety | Are the queue, the orders in memory and the pause what they promise? | two workers, two orders, channel of two | 555 216 |
| accrual_live | Does Run return, and is a decided order recorded although another stays open? | one worker, two orders, channel of one, two attempts | 15 133 |
| accrual_pause_breached | Is no request sent in a pause? (it is, see 6) | two workers, one order | violation |
| pause_gate | Does every pause keep its timer and end, and last as long as each `Retry-After` that fits asks? | two workers, two timers, clock of four ticks, seconds of two ticks, three headers of which one overflows | 189 778 |
| lifecycle | What survives stops and crashes, and does every stop end? | one order, three statuses, three stops of any kind | 12 146 |
| parts | Are the functions what they are for? | texts of four bytes, four bookings, two settings, three calls of a handler, all parameters of a hash | 35 615 |
| api_requests | Do codes, rows and reads agree? | six sets of up to six overlapping requests (`Workloads` in MCApi) | 51 466 |
| api_bearer | Is a request with the header `Bearer` answered? (it is not, see 6) | two requests | violation |

**Why the bounds are enough.**  The hazards of the repository need two
transactions that meet at a row or a number and a third commit that makes a
snapshot old; the instances have three to seven calls.  `MaxAttempts` is 2 (4
in the code) where retries matter: one retry and its exhaustion both occur, and
further ones repeat them; where it is 1 the calls fail where they would have
been repeated, which is what the callers see of exhaustion.  The theorems hold
for any number.  Amounts 0 to 2 let one withdrawal, but not all, succeed.

A channel of one or two is full, partly full and empty; two workers are enough
for one to wait while the other fires, prolongs or shuts down, and for two
copies of one order.  In PauseGate `MaxTimers` is 2: one timer that has fired and
has yet to take the mutex, and the one that has replaced its pause; a third
pause waits until a callback is through.  `Horizon` is 4, two seconds: a pause
of a second, one that is not a whole number of seconds, and one that prolongs
another; `Half` is 8, durations of four bits, so that the product of the header
7 wraps to a deadline in the past, which is set between the pauses that have to
last.  Time stops at the horizon, and no pause is
set beyond it, so none is cut off by it.

In Lifecycle `MaxStops` is 3: a crash in one start, a failure in the next and a
stop of the third can follow one another.  One order is enough there, because
orders meet only in AccrualProcessor's queue; its answers may be in memory
before a stop, and the statuses are one that is not final and two that are.

Four bytes have an odd and an even number of digits and two that are doubled.
Four significant bits round after two or three bookings, as 53 do after many
more.  `MaxBookings` is at most 2 ^ (Bits - 1) (`BookingsAssumption`): with more,
one last place of error for each could outgrow the sum; 53 bits allow 2^52
bookings of one user.  Two settings let one source overwrite another, three calls of a handler
are a status, a chunk and one more of either.  A workload of LoyaltyApi is one
set of overlapping requests; a request's answers depend on others only through tables
and tokens, so each workload is chosen for one contended row.  Every action and
every disjunct of a next-state relation fires in some passing run.

**Fairness.**  Store: `WF` of each call that has begun.  Goroutines and database
sessions are scheduled and a free lock is granted; nothing forces a call to
start or a failure to happen.  Lists may go on for ever and cost a call its
snapshot each time; that the call still ends is due to the limit of `withRetry`.

AccrualProcessor: `WF` of the poller, of each worker and of the clock; `SF` of
`Shutdown`, because Go's `select` chooses at random among ready cases and so
does not refuse `ctx.Done()` for ever; `SF` of `Fire`, because Go's mutex hands
over to a waiter that starves.  A request always ends: `http.Client` has a
timeout of 5 s (`main.go:81`).  `ShutdownCompletes` uses no more than this.
`EventuallyFinal` also needs an environment that does not fail on the same order
for ever (`Environment`): asked again and again, the list, the accrual service
and the write succeed at some time.  Without it no program could record
anything.

PauseGate: `WF` of the clock, of "some timer that is due fires" (not of each: the
numbers of timers are used again), of each callback and of each worker.
`PauseEnds` needs no fairness of the shutdown and none of answers.

Lifecycle: `WF` of `RunStep`, which includes that a program that ended is started
again (by Docker or a person), and that `run` goes on; the signal, the failures and
the crashes are not fair and at most `MaxStops`, since a program that crashes for
ever records nothing.  `Processed` repeats for Sync what accrual_live shows of
AccrualProcessor.

**Deadlock** is not checked by TLC's flag in any run, because all these systems
stop: the calls of a run are finite, the processor ends, requests are answered,
time stops at the horizon, inputs are written out.  That nothing stops too early
is what EveryCallAnswers, ShutdownCompletes, PauseEnds, StopEnds and
EventuallyRecorded say.

**State constraints and symmetry.**  There are no constraints.  Symmetry is
used in accrual_safety alone, which has no liveness property and treats workers
and orders alike.


## 4. The proofs

| Module | Proved of the specification, for every value of the constants |
|---|---|
| LedgerProofs | of sums over finite sets: any term can be taken out (SumTakesOut), one more term adds itself (SumWithOneMore), a part is not more than the whole (SumOfPart), a sum over an image (SumOverImage); and Conservation, from the invariant `Books` |
| LoyaltyApiProofs | every property of api_requests: `TypeOK`, `SessionsNeedThePassword`, `CodesAreTrue`, `AcceptedOnce`, `RefusalLeavesNothing`, `ReadsShowWhatWasAnswered`, `ListsOnlyGrow`, `HistoryExplainsBalance`; and that every step is one of Ledger |
| StoreProofs | `TypeOK`, `CheckedBalanceStays`, `Conservation`, `NonNegative`, `FinalIsForever`, `BalanceMovesWithItsRow`, `AnswersAreTrue`, and that Store implements Ledger (`LedgerSpec`); also the lemmas on locks LocksExclude, LockedRowIsCurrent, InsertedNumberIsFree, CheckedOrderStaysOpen, and that no calls wait for each other in a circle (WaitsGoForward) |
| SyncProofs | `StatusAdvances`, FinalAgrees, and the invariant they rest on |
| AccrualProofs | `TypeOK`, `JobsFit`, and that AccrualProcessor implements Sync (`SyncSpec`) and Pause (`PauseSpec`); FinalAgrees follows |
| PauseProofs | `TypeOK`, `PauseHasItsTimer`, `HonoursRetryAfter` (of every `Retry-After` that fits a duration), and that PauseGate implements Pause (`PauseSpec`); NoLostWakeup follows |
| LifecycleProofs | `TypeOK`, `ServesCurrentSchema`, `DrainedBeforeClosed`, `AnsweredIsStored`, `StatusAdvances`, and that Lifecycle implements Sync |
| PartsProofs | `LoopIsCheckDigit`, `RoundingIsBounded`, `StartIsUsable`, `AnswerArrives`, `StoredPasswordIsKnown`, each after a theorem of its own about the operators, which has no run in it: CheckDigitIsWhatLuhnChecks, RoundedIsNear, StartedIsUsable, AnswerIsServed, StoredIsKnown |

Assumptions: those that the modules state of their constants (amounts are
naturals, a null is not a row, logins are not numbers; what a call is; what a
request can hold: a login that is not blank is a user, a number that passes the
check is a number of the tables, a sum above zero is an amount, a token was
issued to some request that registers or logs in; the channel has room for
something; finitely many orders, none of which is "none"; the statuses of the
accrual service are the four that `models/accrual.go` names; a second is
positive, headers are naturals; a number has at least one bit, and there are not
more bookings of one user than half the numbers of that many bits).  TLC evaluates them in the runs.

**Sums and Ledger.**  A balance is a sum over the rows of its user, and the
community modules define a sum by folding a set in an order that CHOOSE picks.
The definition says only that *some* term comes off; that *any* does
(`SumTakesOut`) takes an induction over finite sets, and the induction theorems
are out of the provers' reach.  LedgerProofs goes round them: if a statement fails
of some finite subset, it fails of a smallest one (`SmallestOf`; the strict
subset ordering of finite sets is well founded), and there the equation of the
fold gives the contradiction.  With that, `Books` is inductive: the types, every row
has a registered owner (else a new user would come with a history), a table has
finitely many rows (else its sum means nothing), no balance below zero, and
Conservation.  Each operation adds one term to one sum or changes none.
Conservation of Store follows by refinement: its tables are Ledger's.

**Store.**  None of the interesting properties is inductive by itself.  A
withdrawal compares the balance in one statement and debits in a later one, and
that is safe only because (a) it holds the row's lock from the comparison to the
commit, (b) whoever else would change the row needs that lock (`LocksExclude`),
and (c) the row it has locked is the newest one (`LockedRowIsCurrent`), since
REPEATABLE READ refuses a lock on a row that a later commit has changed.  `Inv`
is the conjunction of these with what each kind of transaction has checked:
the balance, the free number, the open order.  The unique index plays the part
of the lock between users.  That `Inv` is inductive is one lemma per action
(`WithdrawLockInv`, `ApplyCommitInv`, ...) with one step per conjunct, joined in
`NextInv`.  At each commit the guards of Ledger's action are conjuncts of `Inv`,
so a commit maps to that action and every other step to a stutter; the tables
of Store are those of Ledger, and the refinement mapping is the identity.
`AnswersAreTrue` is proved inductive relative to `Inv`.

That calls do not wait for each other in a circle is shown by TLC for one user and
few calls (EveryCallAnswers of store_fair) and by WaitsGoForward for any number.
`WaitsFor` says for each statement which calls it may have to wait for, and
`BlockedWaits` that a statement that cannot go on and cannot fail to serialize has
one.  `Stage` orders the calls by how far they are: before the first lock; a result
that holds its order; one that asks for the user; a withdrawal that holds its user
and inserts; what only has to commit.  Whoever is waited for is at a later stage.
`Inv` is needed because a debit and the update of an order ask for a lock that the
call has already: LocksExclude says that nobody else has it.

**LoyaltyApi.**  What a client is told is decided when the handler's call returns
and told later, with other requests in between, so the properties, which speak of
codes, are not inductive.  `IInv` speaks of the outcome and of the code
that will come of it alike (`Tells`).  It says that what was told is true of the
tables (`OutcomesAreTrue`), that a login, an order and a payment are given out
once (`OutcomesAreUnique`), that every row was asked for by a request that is
still open, was accepted or got a 500 (`RowsWereAskedFor`), that the tables still
cover what a read showed (`ViewsStayTrue`), and that a read covers what was
answered before it arrived (`ViewsCoverWhatTheyFollow`).  The proof first says
what a step does to the requests and to the tables (the `...Effect` lemmas);
most conjuncts then follow from three facts: what was decided stays (`Kept`), nothing
new is told unless a handler returns (`ToldEarlier`), and the tables only grow
(`TablesGrow`).  HistoryExplainsBalance needs more than growth: that the list of
withdrawals adds up to the column `withdrawn`, which is Conservation, hence
`Books` in `IInv` and the sums again (`ListAddsUp`).

**Sync.**  That a status never changes after it is final, and then agrees with
the accrual service, needs a fact about memory: an answer that is held and final
is what the service says for ever, and whatever is held was uploaded
(`MemoryIsTrue`).  `SyncInv` adds the types; there is one lemma per action.

**AccrualProcessor.**  The refinement mapping forgets where an order is: `held` is
the union of the batch, the channel and the workers' orders, `fetched` the answers
of workers in "apply".  So a send, a take, a dropped batch or a failure is
`Forget`, perhaps of nothing; a list, an answer and a write are
`List`, `Fetch` and `Record`.  `Inv` says that the batch is empty when the poller
lists (so that the list alone adds to memory), that the free slots are still free
(JobsFit), and that a worker has an order where it uses one.  An instance of
SyncProofs under the mapping (`SP`) supplies `SyncInv`, with which a write finds
its order uploaded.  TypeOK also says that `older` orders just the open orders
(`OrderedByAge`): orders that are made the newest by an upload, a list or a
write are ordered with the rest (`NewestAreOrdered`), and those that become final
leave the rest in their order (`OthersAreOrdered`).

**PauseGate.**  `Inv` says that the pause's timer is armed or its callback is on the
way, that a timer that has fired was due (hence a callback that finds its own
deadline ends a pause that is over), that whoever sleeps has a pause, and that
until the shutdown the pause reaches as far as any 429 asked whose `Retry-After`
fits (`PauseIsLongEnough`).  The last needs arithmetic: a product that fits does
not wrap (`FittingRetryAfter`), so `setPauseUntil` is called with the time that was
asked for (`WishIsUntil`); the rounded deadline is later than that
(`RoundedIsLater`), and replacing a deadline by one that is not earlier loses
nothing, also when the new one has wrapped.

**Lifecycle.**  Each step is a step of Sync or leaves its variables alone
(`StepSimulated`; the end of a process is `Forget`), so what SyncProofs proves
holds across restarts.  `PhaseInv` says what the phases of `run` mean: no listener,
pool or processor before the schema is current, no open listener after the
shutdown, and nobody waiting when a stop without an error closes the pool.

**The functions of MCParts.**  Each loop of the code is a fold here, and the
community modules define a fold by a recursive function on the subsets of the
indices.  That there is such a function (`FoldExists`) is shown for folds whose
step stays in a set, by induction on the number of elements; the induction is over
the set of numbers of which the claim holds (`AllNaturals`, from the least one
that is missing).  On a sequence the indices come off one by one from an end
(`FoldInOrder`), so that a loop is the sequence of its states (`LoopByTurns`,
`TotalByTerms`, `BookedRowByRow`, `AnsweredByCalls`) and its invariant a claim about each of them.

- Luhn: after the bytes from i on, the sum is that of the last digit and of the
  weights of the others, the flag says whether their number is even, and the sum
  is positive if one of them is not zero (`LoopIsTotal`).
- Money: the provers know of powers only their value for a given exponent; that
  2^e doubles (`PowersDouble`) is derived from the count of the parts of 1 .. e.
  Hence every number has a last place (`LastBitExists`), a smaller number has no
  larger one (`UlpIsBelow`), and a rounded number is off by half of it
  (`NearestIsNear`).  The invariant of the bookings fixes the last place u of
  twice their total: after k of them the balance and the sum withdrawn are off
  by k * u at most, so none exceeds twice the total, and the next result is
  off by half a u for the amount and half a u for itself (`BookedIsKept`).  The
  bound on the number of bookings keeps that error below the total's own range.
- Config has no loop: a text is what was chosen of the three sources, trimmed
  and given a scheme, and the validation lets nothing else through.
- Transport: after i calls the writer is either plain, with the chunks so far as
  its body, or compressed, with the header before them, and its size is that of
  its body (`AnsweredIsTaken`); Close adds the trailer, and the client finds
  the chunks between the two.
- Password: the loop's `t` is an exclusive or of codes, which is the set of them
  only if none occurs twice.  None does: going back from two equal ones, step by
  step, the first code would be equal to a later one and a salt with its index
  would be a code (`ChainIsDistinct`).  Each code names the password, so the keys
  of two passwords differ in their first block.

The theorems about the operators are for every input (texts of any length, up to
2 ^ (Bits - 1) bookings of any amounts, any settings, any number of calls, any iterations and key length); those about Spec
carry them over to what the run enumerates, without its bounds.

**Model-checked only.**  Liveness (every `~>`, and EveryCallAnswers), which is out
of the prover's reach under fairness.  Every other property of a passing run is
stated by a theorem.


## 5. What is abstracted

- Amounts are natural numbers in Schema, Ledger, Store and LoyaltyApi.  The
  columns are DOUBLE PRECISION and the Go values `float64`; what rounding does to
  sums is in Money, apart from the concurrency.  It shows that balances stay
  within an error of one last place for each booking and never fall below zero; also
  that exactness is not to be had: in doubles 0.1 + 0.7 < 0.8, so a user who
  earned both may be refused a payment of 0.8.
- A user is its login and a password hash the password it was made from
  (that this is sound is what StoredPasswordIsKnown says of `password.go`).  A token
  is named by the request that it was issued to; a client bears only tokens it was given.
- Time passes only in PauseGate.  In AccrualProcessor the pause has three
  states.  Both implement Pause, which is why the fewer states suffice there.
  `updated_at` is which of two open orders has the older one (`older`); the rows
  of one list get the same time, and neither is older.
- The accrual service says only the four statuses that `models/accrual.go`
  names.  For any other text the code falls back to NEW.
- In Config a text is a record of what the code tells apart in it.  The error for
  positional arguments (`config.go:98`) is left out: Config starts more often than
  the program, and StartIsUsable holds of all those starts.  In Transport
  gzip is a header, the chunks and a trailer; no handler flushes, and none calls
  WriteHeader twice, so a script has it only first.  `accepts` is the test of
  `gzip.go:13`, whether the text `gzip` occurs in Accept-Encoding; a client that
  writes it to refuse it (`gzip;q=0`) counts as accepting, as it does for the code.
  In Password
  HMAC-SHA256 is a free constructor.
- In Lifecycle a processor that meets a closed pool gets an error and forgets the
  order, and the migration has one version.
- Retries for 40P01 and 53300 are like failures that end the call, which changes
  nothing.  A deadlock (40P01) of the locks that Store models does not arise for
  any users and calls (WaitsGoForward); store_fair has one user and one upload,
  and alone would not say so.  Store leaves out what CreateOrder holds within its
  one statement: the number it inserts, for which other uploads of that number
  wait, and then the key of its user, for which a withdrawal's `FOR UPDATE` may
  wait.  This closes no circle either: the upload waits last for its user, hence
  for a withdrawal that has locked the user and waits for no upload, since it only
  inserts a withdrawal and updates that row.  This last step is an argument, not
  a proof.  CreateUser is one INSERT.
- Reads of the repository are one statement each and are read from the tables
  in one step.
- A lost answer is, for the client, the same as a failure: the request has
  taken effect or not and the client has no code that tells.
- JSON, the attributes of cookies, and log lines other than the status and the
  size of an answer.


## 6. Findings

- **store_upload_race** (`postgres.go:97`).  Two uploads of one number at the
  same time: `ON CONFLICT DO NOTHING` returns no row, and the SELECT in the
  same statement reads the statement's snapshot, in which the other's row is
  missing.  The loser gets `sql.ErrNoRows` and the client 500, where the
  repository's README promises 200 or 409.  The tables are right all the same
  (AnswersAreTrue), and a repetition of the request is answered correctly.
- **accrual_pause_breached** (`accrualprocessor.go:103`).  The comments say that
  a 429 sets a global pause that is checked before a request is made.  The
  check and the request are apart, and the attempts within `withRetry` do not
  check it again, so requests are sent during a pause.
- **api_bearer** (`jwt.go:112`).  The prefix `bearer` has six bytes and what
  follows is cut off at the seventh: the header `Bearer` alone makes the handler
  panic and the connection is closed instead of the documented 401.

Smaller remarks, which no run reports as violated.  A worker that received its
429 before the shutdown sets the pause after the shutdown has cleared it, and
`Run` then waits for it (the new timer fires, so ShutdownCompletes and PauseEnds
hold).  `setPauseUntil` rounds every deadline up, and one that is already in the
past makes a timer too.  A `Retry-After` above 9 223 372 036 seconds (2^63 - 1 ns)
wraps in `client.go:84`: the pause it asks for is not kept, and if the wrapped
deadline is in the past, as that of the header 7 in pause_gate is, workers go on
at once.  HonoursRetryAfter leaves such answers out; that their deadlines do no
harm to the pauses of others is part of it.  Nothing waits for `processor.Run`, and the deferred
`stop()` that cancels its context after an error of the server runs when the
pool is already closed, so a stop for that reason always breaks off what the
workers do; EventuallyRecorded shows that the next start takes it up.  Withdraw
answers 409 and 400, which the list of its codes in the repository's README
does not mention.


## 7. What is not modelled

- `logger/`: it opens a file and writes lines that nothing reads.
- The insides of what the program uses: pgx and PostgreSQL beyond the locks,
  snapshots and indexes that `postgres.go` asks for, golang-migrate beyond its
  mark, net/http beyond `ListenAndServe` and `Shutdown`, JWT's signature, gzip,
  SHA-256.
- Layout: JSON bodies, cookies' attributes, wording of errors.
- `OrderByNumber` of the repository, which no code calls.


## 8. The plan

Done: every component but the logger.

Left, in this order:

1. Lifecycle with two programs over one database at the same time, as during a
   rolling restart: Sync already allows for answers fetched by another program.
2. Store: the reads as calls with a snapshot of their own.
