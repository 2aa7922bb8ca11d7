--------------------------- MODULE AccrualProcessor ---------------------------
(***************************************************************************)
(* internal/service/accrualprocessor.go: Run polls the repository for      *)
(* orders that are not final and puts them into a bounded channel; workers *)
(* take them, ask the accrual service and apply what it answers; a 429     *)
(* pauses all of them.                                                     *)
(*                                                                         *)
(* External: the accrual service, whose knowledge of an order only moves   *)
(* towards a final status and which may answer any request with a 429 or   *)
(* an error; the repository, whose writes are single steps here (Store     *)
(* shows that they are).                                                   *)
(*                                                                         *)
(* Time is left out.  pauseUntil and pauseTimer are pause: "none" when     *)
(* pauseUntil is zero, "running" before the deadline, "expired" after it   *)
(* while the timer's callback has yet to take the mutex.  PauseGate has    *)
(* the deadlines and the timers, and both specifications implement Pause.  *)
(***************************************************************************)
EXTENDS AccrualStatus, Integers, Sequences, SequencesExt, FiniteSets

CONSTANTS Workers,    \* one per concurrency
          BatchSize,  \* batchSize, the capacity of jobs
          MaxAttempts \* retryAttempts

ASSUME OrdersAssumption == IsFiniteSet(Orders) /\ "none" \notin Orders
ASSUME BatchAssumption == BatchSize \in Nat \ {0}
ASSUME AttemptsAssumption == MaxAttempts \in Nat \ {0}

VARIABLES
  status,    \* of the orders in the database, "none" before the upload
  older,     \* the pairs of open orders of which one has an older updated_at
  service,   \* what the accrual service knows of an order
  cancelled, \* ctx is done
  jobs, closed,           \* the channel
  poller, free, batch,    \* Run and processBatch
  worker, job, tries, result,
  pause

database == <<status, older>>
channel == <<jobs, closed>>
run == <<poller, free, batch>>
workers == <<worker, job, tries, result>>
vars == <<database, service, cancelled, channel, run, workers, pause>>

Open(o) == status[o] # "none" /\ ~IsFinal(status[o])
OpenOrders == {o \in Orders : Open(o)}

\* updated_at puts the open orders in a sequence, in which some may be equal.
OrderedByAge ==
  /\ older \subseteq OpenOrders \X OpenOrders
  /\ \A p, q, o \in OpenOrders :
       <<p, o>> \in older => <<o, p>> \notin older /\ (<<p, q>> \in older \/ <<q, o>> \in older)

TypeOK ==
  /\ status \in [Orders -> {"none"} \cup OrderStatuses]
  /\ OrderedByAge
  /\ service \in [Orders -> {"none"} \cup AccrualStatuses]
  /\ cancelled \in BOOLEAN /\ closed \in BOOLEAN
  /\ jobs \in Seq(Orders) /\ Len(jobs) <= BatchSize
  /\ poller \in {"poll", "list", "send", "select", "close", "join", "done"}
  /\ free \in 0 .. BatchSize /\ batch \in Seq(Orders)
  /\ worker \in [Workers -> {"take", "gate", "waiting", "check", "request",
                             "backoff", "limited", "apply", "done"}]
  /\ job \in [Workers -> Orders \cup {"none"}]
  /\ tries \in [Workers -> 1 .. MaxAttempts]
  /\ result \in [Workers -> {"none"} \cup OrderStatuses]
  /\ pause \in {"none", "running", "expired"}

Init ==
  /\ status = [o \in Orders |-> "none"] /\ older = {}
  /\ service = [o \in Orders |-> "none"]
  /\ cancelled = FALSE
  /\ jobs = <<>> /\ closed = FALSE
  /\ poller = "poll" /\ free = 0 /\ batch = <<>>
  /\ worker = [w \in Workers |-> "take"]
  /\ job = [w \in Workers |-> "none"]
  /\ tries = [w \in Workers |-> 1]
  /\ result = [w \in Workers |-> "none"]
  /\ pause = "none"

-----------------------------------------------------------------------------
(* Around the processor *)

\* What is left of the order in time without some orders, and when these are
\* updated: they get one updated_at, which is newer than all others.
Without(orders) == {pair \in older : pair[1] \notin orders /\ pair[2] \notin orders}
Newest(orders) == Without(orders) \cup ((OpenOrders \ orders) \X orders)

Upload(o) ==
  /\ status[o] = "none"
  /\ status' = [status EXCEPT ![o] = "NEW"]
  /\ older' = Newest({o})
  /\ UNCHANGED <<service, cancelled, channel, run, workers, pause>>

Calculate(o) ==
  /\ \E s \in Later(service[o]) : service' = [service EXCEPT ![o] = s]
  /\ UNCHANGED <<database, cancelled, channel, run, workers, pause>>

Cancel ==
  /\ ~cancelled /\ cancelled' = TRUE
  /\ UNCHANGED <<database, service, channel, run, workers, pause>>

-----------------------------------------------------------------------------
(* Run and processBatch *)

\* Mutant: the list is asked for a whole batch.
PollWholeBatch ==
  /\ poller = "poll"
  /\ free' = IF pause = "running" \/ Len(jobs) = BatchSize THEN 0 ELSE BatchSize
  /\ poller' = IF free' = 0 THEN "select" ELSE "list"
  /\ UNCHANGED <<database, service, cancelled, channel, batch, workers, pause>>

Poll ==
  /\ poller = "poll"
  /\ free' = IF pause = "running" THEN 0 ELSE BatchSize - Len(jobs)
  /\ poller' = IF free' = 0 THEN "select" ELSE "list"
  /\ UNCHANGED <<database, service, cancelled, channel, batch, workers, pause>>

\* Orders whose row a worker's transaction has locked may be skipped.
LockedOrders == {o \in Orders : \E w \in Workers : worker[w] = "apply" /\ job[w] = o}

\* The oldest of the open orders, at most free of them, but for the skipped ones.
Oldest(skipped) ==
  {orders \in SUBSET (OpenOrders \ skipped) :
     /\ Cardinality(orders) <= free
     /\ Cardinality(orders) = free \/ orders = OpenOrders \ skipped
     /\ \A p \in OpenOrders \ skipped, o \in orders : <<p, o>> \in older => p \in orders}

\* Mutant: updated_at is not set by the list.
ListKeepsOrder ==
  /\ poller = "list"
  /\ \E oldest \in Oldest({}) : batch' \in SetToSeqs(oldest)
  /\ free' = 0 /\ poller' = "send"
  /\ UNCHANGED <<database, service, cancelled, channel, workers, pause>>

\* The oldest orders become the newest; RETURNING orders them as it likes.
List ==
  /\ poller = "list"
  /\ \E skipped \in SUBSET LockedOrders : \E oldest \in Oldest(skipped) :
       /\ older' = Newest(oldest)
       /\ \/ batch' \in SetToSeqs(oldest) /\ poller' = "send"
          \/ batch' = <<>> /\ poller' = "select"  \* the commit's answer was lost
  /\ free' = 0
  /\ UNCHANGED <<status, service, cancelled, channel, workers, pause>>

ListFails ==
  /\ poller = "list"
  /\ free' = 0 /\ poller' = "select"
  /\ UNCHANGED <<database, service, cancelled, channel, batch, workers, pause>>

\* A full channel ends the batch; what was not sent waits for a later list.
Send ==
  /\ poller = "send" /\ batch # <<>>
  /\ IF Len(jobs) < BatchSize
       THEN /\ jobs' = Append(jobs, Head(batch))
            /\ batch' = Tail(batch)
            /\ UNCHANGED poller
       ELSE /\ batch' = <<>> /\ poller' = "select"
            /\ UNCHANGED jobs
  /\ UNCHANGED <<database, service, cancelled, closed, free, workers, pause>>

BatchEnds ==
  /\ poller = "send"
  /\ batch = <<>> \/ cancelled
  /\ batch' = <<>> /\ poller' = "select"
  /\ UNCHANGED <<database, service, cancelled, channel, free, workers, pause>>

Tick ==
  /\ poller = "select"
  /\ poller' = "poll"
  /\ UNCHANGED <<database, service, cancelled, channel, free, batch, workers, pause>>

Awake == [w \in Workers |-> IF worker[w] = "waiting" THEN "gate" ELSE worker[w]]

\* Mutant: no Broadcast.
ShutdownSilently ==
  /\ poller = "select" /\ cancelled
  /\ pause' = "none"
  /\ poller' = "close"
  /\ UNCHANGED <<database, service, cancelled, channel, free, batch, workers>>

\* The first half of the shutdown, under the mutex.
Shutdown ==
  /\ poller = "select" /\ cancelled
  /\ pause' = "none"
  /\ worker' = Awake
  /\ poller' = "close"
  /\ UNCHANGED <<database, service, cancelled, channel, free, batch, job, tries, result>>

Close ==
  /\ poller = "close"
  /\ closed' = TRUE /\ poller' = "join"
  /\ UNCHANGED <<database, service, cancelled, jobs, free, batch, workers, pause>>

Join ==
  /\ poller = "join"
  /\ \A w \in Workers : worker[w] = "done"
  /\ poller' = "done"
  /\ UNCHANGED <<database, service, cancelled, channel, free, batch, workers, pause>>

-----------------------------------------------------------------------------
(* worker and processOrder *)

WorkerGoes(w, pc) == worker' = [worker EXCEPT ![w] = pc]

\* The order is forgotten; range takes the next.
WorkerEnds(w, pc) ==
  /\ WorkerGoes(w, pc)
  /\ job' = [job EXCEPT ![w] = "none"]
  /\ tries' = [tries EXCEPT ![w] = 1]
  /\ result' = [result EXCEPT ![w] = "none"]

Take(w) ==
  /\ worker[w] = "take" /\ jobs # <<>>
  /\ WorkerGoes(w, "gate")
  /\ job' = [job EXCEPT ![w] = Head(jobs)]
  /\ jobs' = Tail(jobs)
  /\ UNCHANGED <<database, service, cancelled, closed, run, tries, result, pause>>

TakeClosed(w) ==
  /\ worker[w] = "take" /\ jobs = <<>> /\ closed
  /\ WorkerGoes(w, "done")
  /\ UNCHANGED <<database, service, cancelled, channel, run, job, tries, result, pause>>

\* isPausedLocked and pauseCond.Wait, under the mutex.
Gate(w) ==
  /\ worker[w] = "gate"
  /\ WorkerGoes(w, IF pause = "running" THEN "waiting" ELSE "check")
  /\ UNCHANGED <<database, service, cancelled, channel, run, job, tries, result, pause>>

\* The context is looked at, and the request sent.
Check(w) ==
  /\ worker[w] = "check"
  /\ IF cancelled THEN WorkerEnds(w, "done")
                  ELSE WorkerGoes(w, "request") /\ UNCHANGED <<job, tries, result>>
  /\ UNCHANGED <<database, service, cancelled, channel, run, pause>>

AnswerStatus(w) ==
  /\ worker[w] = "request" /\ service[job[w]] # "none"
  /\ result' = [result EXCEPT ![w] = ToOrderStatus(service[job[w]])]
  /\ WorkerGoes(w, "apply")
  /\ UNCHANGED <<database, service, cancelled, channel, run, job, tries, pause>>

AnswerLimited(w) ==
  /\ worker[w] = "request"
  /\ WorkerGoes(w, "limited")
  /\ UNCHANGED <<database, service, cancelled, channel, run, job, tries, result, pause>>

\* Mutant: the attempts are not limited.
AnswerTemporaryUnlimited(w) ==
  /\ worker[w] = "request"
  /\ WorkerGoes(w, "backoff")
  /\ tries' = [tries EXCEPT ![w] = @ + 1]
  /\ UNCHANGED <<database, service, cancelled, channel, run, job, result, pause>>

AnswerTemporary(w) ==
  /\ worker[w] = "request"
  /\ IF tries[w] < MaxAttempts
       THEN /\ WorkerGoes(w, "backoff")
            /\ tries' = [tries EXCEPT ![w] = @ + 1]
            /\ UNCHANGED <<job, result>>
       ELSE WorkerEnds(w, "take")
  /\ UNCHANGED <<database, service, cancelled, channel, run, pause>>

\* 204 and any answer or error that is not retried: nothing is applied.
AnswerNothing(w) ==
  /\ worker[w] = "request"
  /\ WorkerEnds(w, "take")
  /\ UNCHANGED <<database, service, cancelled, channel, run, pause>>

\* The delay between two attempts ends, or the context does.
Backoff(w) ==
  /\ worker[w] = "backoff"
  /\ \/ WorkerGoes(w, "request") /\ UNCHANGED <<job, tries, result>>
     \/ cancelled /\ WorkerEnds(w, "take")
  /\ UNCHANGED <<database, service, cancelled, channel, run, pause>>

\* A running pause is prolonged or kept, any other is started.
SetPauseUntil(w) ==
  /\ worker[w] = "limited"
  /\ pause' = "running"
  /\ WorkerEnds(w, "take")
  /\ UNCHANGED <<database, service, cancelled, channel, run>>

\* Mutant: the result is applied to a final order too.
ApplyAlways(w) ==
  /\ worker[w] = "apply"
  /\ LET o == job[w]
     IN  /\ status' = [status EXCEPT ![o] = result[w]]
         /\ older' = IF IsFinal(result[w]) THEN Without({o}) ELSE Newest({o})
  /\ WorkerEnds(w, "take")
  /\ UNCHANGED <<service, cancelled, channel, run, pause>>

ApplyAccrualResult(w) ==
  /\ worker[w] = "apply"
  /\ LET o == job[w]
     IN  IF IsFinal(status[o])
           THEN UNCHANGED database
           ELSE /\ status' = [status EXCEPT ![o] = result[w]]
                /\ older' = IF IsFinal(result[w]) THEN Without({o}) ELSE Newest({o})
  /\ WorkerEnds(w, "take")
  /\ UNCHANGED <<service, cancelled, channel, run, pause>>

ApplyFails(w) ==
  /\ worker[w] = "apply"
  /\ WorkerEnds(w, "take")
  /\ UNCHANGED <<database, service, cancelled, channel, run, pause>>

-----------------------------------------------------------------------------
(* The pause timer *)

Expire ==
  /\ pause = "running"
  /\ pause' = "expired"
  /\ UNCHANGED <<database, service, cancelled, channel, run, workers>>

\* Mutant: the callback does not broadcast.
FireSilently ==
  /\ pause = "expired"
  /\ pause' = "none"
  /\ UNCHANGED <<database, service, cancelled, channel, run, workers>>

Fire ==
  /\ pause = "expired"
  /\ pause' = "none"
  /\ worker' = Awake
  /\ UNCHANGED <<database, service, cancelled, channel, run, job, tries, result>>

-----------------------------------------------------------------------------
PollerStep ==
  Poll \/ List \/ ListFails \/ Send \/ BatchEnds \/ Tick \/ Shutdown \/ Close \/ Join

WorkerStep(w) ==
  \/ Take(w) \/ TakeClosed(w) \/ Gate(w) \/ Check(w)
  \/ AnswerStatus(w) \/ AnswerLimited(w) \/ AnswerTemporary(w) \/ AnswerNothing(w)
  \/ Backoff(w) \/ SetPauseUntil(w) \/ ApplyAccrualResult(w) \/ ApplyFails(w)

Next ==
  \/ \E o \in Orders : Upload(o) \/ Calculate(o)
  \/ Cancel \/ PollerStep \/ Expire \/ Fire
  \/ \E w \in Workers : WorkerStep(w)

Spec == Init /\ [][Next]_vars

\* The goroutines are scheduled and the timer runs.  A select with two ready
\* cases does not refuse one of them for ever, nor does the mutex the timer's
\* callback.
Scheduling ==
  /\ WF_vars(PollerStep) /\ SF_vars(Shutdown)
  /\ \A w \in Workers : WF_vars(WorkerStep(w))
  /\ WF_vars(Expire) /\ SF_vars(Fire)

\* The database and the accrual service do not fail for ever, nor on the same
\* order for ever: asked again and again, they answer.
Environment ==
  /\ \A o \in Orders :
       /\ SF_vars(List /\ o \in ToSet(batch'))
       /\ SF_vars(\E w \in Workers : job[w] = o /\ AnswerStatus(w))
       /\ SF_vars(\E w \in Workers : job[w] = o /\ ApplyAccrualResult(w))

FairSpec == Spec /\ Scheduling

-----------------------------------------------------------------------------
(* Properties *)

\* The free slots counted before the list was asked for are still there when
\* its orders are sent, so no order that was made the newest is dropped for
\* want of room.
JobsFit ==
  /\ Len(jobs) + free <= BatchSize
  /\ Len(jobs) + Len(batch) <= BatchSize

\* The orders and the answers that are in memory.
HeldOrders == ToSet(batch) \cup ToSet(jobs) \cup {job[w] : w \in {v \in Workers : job[v] # "none"}}

FetchedAnswers ==
  {[order |-> job[w], status |-> result[w]] : w \in {v \in Workers : worker[v] = "apply"}}

S == INSTANCE Sync WITH held <- HeldOrders, fetched <- FetchedAnswers
P == INSTANCE Pause WITH waiting <- {w \in Workers : worker[w] = "waiting"}

\* Whatever the poller and the workers do to an order, a step of Sync does: only
\* open orders are taken into memory, only the answers for them are recorded, a
\* copy that is applied late finds a final status and leaves it.
SyncSpec == S!SyncSpec

\* Whatever happens to the pause and to those who wait in it, a step of Pause
\* does: nobody begins to wait without a timer, and no pause ends with a sleeper
\* left behind, neither at its deadline nor at the shutdown.
PauseSpec == P!PauseSpec

\* Once the context is done Run returns: no worker is left waiting for a pause,
\* for a job or in a chain of retries.
ShutdownCompletes == cancelled ~> poller = "done"

\* An uploaded order whose calculation is over becomes final, whatever other
\* orders stay open and whichever requests fail, unless the program stops.  This
\* alone of the properties asks anything of the environment.
EventuallyFinal ==
  Environment =>
    \A o \in Orders : Open(o) /\ IsFinal(service[o]) ~> IsFinal(status[o]) \/ cancelled

\* accrualprocessor.go:84 and 89: a worker that meets a 429 "sets a global
\* pause", and the pause is checked "before the request is made".
NoRequestInPause ==
  [][\A w \in Workers : worker[w] # "request" /\ worker'[w] = "request"
       => pause # "running"]_vars
=============================================================================
