---------------------------- MODULE AccrualProofs ----------------------------
(***************************************************************************)
(* Theorems about AccrualProcessor, for any orders, workers, capacity of   *)
(* the channel and number of attempts: the poller and the workers, in      *)
(* whatever order they go, do nothing that Sync and Pause do not.          *)
(*                                                                         *)
(* Inv is inductive.  TypeInv, what else TypeOK says, is inductive         *)
(* relative to it; no other theorem here needs the order of updated_at.    *)
(***************************************************************************)
EXTENDS AccrualProcessor, FiniteSetTheorems, SequenceTheorems, TLAPS

SP == INSTANCE SyncProofs WITH held <- HeldOrders, fetched <- FetchedAnswers

\* What the channel and the poller hold.
QueueInv ==
  /\ jobs \in Seq(Orders) /\ batch \in Seq(Orders)
  /\ poller \in {"poll", "list", "send", "select", "close", "join", "done"}
  /\ free \in 0 .. BatchSize
  /\ poller # "list" => free = 0
  /\ poller # "send" => batch = <<>>
  /\ JobsFit

\* A worker that asks has an order, one that applies has an answer too.
WorkerInv ==
  /\ worker \in [Workers -> {"take", "gate", "waiting", "check", "request",
                             "backoff", "limited", "apply", "done"}]
  /\ job \in [Workers -> Orders \cup {"none"}]
  /\ result \in [Workers -> {"none"} \cup OrderStatuses]
  /\ \A w \in Workers : worker[w] \notin {"take", "done"} => job[w] # "none"
  /\ \A w \in Workers : worker[w] = "apply" => result[w] # "none"

Inv ==
  /\ SP!SyncInv
  /\ QueueInv
  /\ WorkerInv

-----------------------------------------------------------------------------
(* The queue *)

LEMMA InitQueue == Init => QueueInv
BY BatchAssumption DEF Init, QueueInv, JobsFit

\* A list is a sequence of as many open orders as there is room for.
LEMMA ListedOrders ==
  ASSUME free \in 0 .. BatchSize,
         NEW skipped, NEW oldest \in Oldest(skipped), NEW list \in SetToSeqs(oldest)
  PROVE  /\ list \in Seq(Orders) /\ Len(list) <= free
         /\ ToSet(list) \subseteq OpenOrders
<1>1. oldest \subseteq OpenOrders /\ OpenOrders \subseteq Orders
  BY DEF Oldest, OpenOrders
<1>2. Cardinality(oldest) \in Nat /\ Cardinality(oldest) <= free
  <2>1. oldest \in SUBSET Orders
    BY <1>1
  <2>2. IsFiniteSet(oldest)
    BY <2>1, OrdersAssumption, FS_Subset
  <2> QED
    BY <2>2, FS_CardinalityType DEF Oldest
<1>3. list \in [1 .. Cardinality(oldest) -> oldest]
  BY DEF SetToSeqs
<1>4. list \in Seq(oldest)
  BY <1>2, <1>3
<1>5. Len(list) = Cardinality(oldest)
  BY <1>2, <1>3, <1>4
<1>6. list \in Seq(Orders)
  BY <1>1, <1>2, <1>3
<1>7. ToSet(list) \subseteq oldest
  BY <1>3 DEF ToSet
<1> QED
  BY <1>1, <1>2, <1>5, <1>6, <1>7

\* Poll finds the channel as it is and the batch empty, so what it counts is
\* there when List's orders are sent: in between, workers only make room.
LEMMA QueueNext == QueueInv /\ [Next]_vars => QueueInv'
<1> SUFFICES ASSUME QueueInv, [Next]_vars PROVE QueueInv'
  OBVIOUS
<1> USE BatchAssumption DEF QueueInv, JobsFit, channel, run
<1>1. Len(jobs) \in Nat
  OBVIOUS
<1>2. CASE UNCHANGED vars
  BY <1>2 DEF vars
<1>3. CASE Poll
  BY <1>1, <1>3 DEF Poll
<1>4. CASE List
  <2>1. PICK skipped \in SUBSET LockedOrders : \E oldest \in Oldest(skipped) :
          \/ batch' \in SetToSeqs(oldest) /\ poller' = "send"
          \/ batch' = <<>> /\ poller' = "select"
    BY <1>4 DEF List
  <2>2. PICK oldest \in Oldest(skipped) :
          \/ batch' \in SetToSeqs(oldest) /\ poller' = "send"
          \/ batch' = <<>> /\ poller' = "select"
    BY <2>1
  <2>3. free' = 0 /\ UNCHANGED channel
    BY <1>4 DEF List
  <2>4. CASE batch' \in SetToSeqs(oldest) /\ poller' = "send"
    <3>1. batch' \in Seq(Orders) /\ Len(batch') <= free
      BY <2>4, ListedOrders
    <3>2. Len(batch') \in Nat
      BY <3>1
    <3> QED
      BY <1>1, <2>3, <2>4, <3>1, <3>2
  <2>5. CASE batch' = <<>> /\ poller' = "select"
    BY <1>1, <2>3, <2>5
  <2> QED
    BY <2>2, <2>4, <2>5
<1>5. CASE Send
  <2>1. CASE Len(jobs) < BatchSize
    <3>1. Head(batch) \in Orders /\ Tail(batch) \in Seq(Orders) /\ Len(Tail(batch)) = Len(batch) - 1
      BY <1>5 DEF Send
    <3>2. Append(jobs, Head(batch)) \in Seq(Orders)
          /\ Len(Append(jobs, Head(batch))) = Len(jobs) + 1
      BY <3>1
    <3>3. poller = "send" /\ UNCHANGED <<poller, free>>
          /\ jobs' = Append(jobs, Head(batch)) /\ batch' = Tail(batch)
      BY <1>5, <2>1 DEF Send
    <3>4. Len(batch) \in Nat /\ free = 0
      BY <3>3
    <3>5. Len(batch') = Len(batch) - 1 /\ Len(jobs') = Len(jobs) + 1
      BY <3>1, <3>2, <3>3
    <3>6. free' = 0 /\ Len(jobs) + Len(batch) <= BatchSize
      BY <3>3, <3>4
    <3>7. Len(jobs') + free' <= BatchSize /\ Len(jobs') + Len(batch') <= BatchSize
      <4> HIDE DEF QueueInv
      <4> QED
        BY <1>1, <2>1, <3>4, <3>5, <3>6
    <3>8. batch' \in Seq(Orders) /\ jobs' \in Seq(Orders)
      BY <3>1, <3>2, <3>3
    <3> QED
      BY <3>3, <3>4, <3>6, <3>7, <3>8
  <2>2. CASE ~(Len(jobs) < BatchSize)
    BY <1>1, <1>5, <2>2 DEF Send
  <2> QED
    BY <2>1, <2>2
<1>6. CASE ListFails \/ BatchEnds \/ Tick \/ Shutdown \/ Close \/ Join
  <2>1. CASE BatchEnds
    BY <1>1, <2>1 DEF BatchEnds
  <2>2. CASE ListFails \/ Tick \/ Shutdown
    BY <1>1, <2>2 DEF ListFails, Tick, Shutdown
  <2>3. CASE Close \/ Join
    BY <1>1, <2>3 DEF Close, Join
  <2> QED
    BY <1>6, <2>1, <2>2, <2>3
<1>7. CASE Cancel \/ Expire \/ Fire
  BY <1>1, <1>7 DEF Cancel, Expire, Fire
<1>8. ASSUME NEW o \in Orders, Upload(o) \/ Calculate(o) PROVE QueueInv'
  BY <1>1, <1>8 DEF Upload, Calculate
<1>9. ASSUME NEW w \in Workers, Take(w) PROVE QueueInv'
  <2>1. Tail(jobs) \in Seq(Orders) /\ Len(Tail(jobs)) = Len(jobs) - 1
    BY <1>9 DEF Take
  <2>2. jobs' = Tail(jobs) /\ UNCHANGED run
    BY <1>9 DEF Take
  <2> QED
    BY <1>1, <2>1, <2>2
<1>10. ASSUME NEW w \in Workers, WorkerStep(w), ~Take(w) PROVE QueueInv'
  <2>1. UNCHANGED <<jobs, run>>
    BY <1>10 DEF WorkerStep, TakeClosed, Gate, Check, AnswerStatus, AnswerLimited,
         AnswerTemporary, AnswerNothing, Backoff, SetPauseUntil, ApplyAccrualResult, ApplyFails
  <2> QED
    BY <1>1, <2>1
<1> QED
  BY <1>2, <1>3, <1>4, <1>5, <1>6, <1>7, <1>8, <1>9, <1>10 DEF Next, PollerStep

-----------------------------------------------------------------------------
(* The workers *)

LEMMA InitWorkers == Init => WorkerInv
BY DEF Init, WorkerInv

LEMMA WorkerNext == QueueInv /\ WorkerInv /\ [Next]_vars => WorkerInv'
<1> SUFFICES ASSUME QueueInv, WorkerInv, [Next]_vars PROVE WorkerInv'
  OBVIOUS
<1> USE DEF WorkerInv, workers
<1>1. CASE UNCHANGED vars
  BY <1>1 DEF vars
<1>2. CASE Shutdown \/ Fire
  BY <1>2 DEF Shutdown, Fire, Awake
<1>3. CASE UNCHANGED workers
  BY <1>3
<1>4. ASSUME NEW w \in Workers, Take(w) PROVE WorkerInv'
  <2>1. Head(jobs) \in Orders /\ Head(jobs) # "none"
    BY <1>4, OrdersAssumption DEF Take, QueueInv
  <2> QED
    BY <1>4, <2>1 DEF Take, WorkerGoes
<1>5. ASSUME NEW w \in Workers, AnswerStatus(w) PROVE WorkerInv'
  <2>1. ToOrderStatus(service[job[w]]) \in OrderStatuses \ {"none"}
    BY DEF ToOrderStatus, OrderStatuses
  <2> QED
    BY <1>5, <2>1 DEF AnswerStatus, WorkerGoes
<1>6. ASSUME NEW w \in Workers, TakeClosed(w) \/ Gate(w) \/ AnswerLimited(w)
      PROVE  WorkerInv'
  BY <1>6 DEF TakeClosed, Gate, AnswerLimited, WorkerGoes
<1>7. ASSUME NEW w \in Workers,
             \/ Check(w) \/ AnswerTemporary(w) \/ AnswerNothing(w) \/ Backoff(w)
             \/ SetPauseUntil(w) \/ ApplyAccrualResult(w) \/ ApplyFails(w)
      PROVE  WorkerInv'
  <2>1. CASE WorkerEnds(w, "take") \/ WorkerEnds(w, "done")
    BY <2>1 DEF WorkerEnds, WorkerGoes
  <2>2. CASE /\ worker[w] \in {"check", "request", "backoff"}
             /\ WorkerGoes(w, "request") \/ WorkerGoes(w, "backoff")
             /\ UNCHANGED <<job, result>>
    BY <2>2 DEF WorkerGoes
  <2> QED
    BY <1>7, <2>1, <2>2
    DEF Check, AnswerTemporary, AnswerNothing, Backoff, SetPauseUntil,
        ApplyAccrualResult, ApplyFails
<1> QED
  BY <1>1, <1>2, <1>3, <1>4, <1>5, <1>6, <1>7
  DEF Next, PollerStep, WorkerStep, Upload, Calculate, Cancel, Poll, List, ListFails, Send,
      BatchEnds, Tick, Close, Join, Expire

-----------------------------------------------------------------------------
(* The pause *)

LEMMA PauseSimulated == WorkerInv /\ [Next]_vars => [P!PauseNext]_(P!pauseVars)
<1> SUFFICES ASSUME WorkerInv, [Next]_vars PROVE [P!PauseNext]_(P!pauseVars)
  OBVIOUS
<1> USE DEF WorkerInv, P!pauseVars, P!PauseNext
<1>1. CASE UNCHANGED <<worker, pause>>
  BY <1>1
<1>2. CASE Shutdown \/ Fire
  BY <1>2 DEF Shutdown, Fire, Awake, P!Wake
<1>3. CASE Expire
  BY <1>3 DEF Expire, workers, P!Expire
<1>4. ASSUME NEW w \in Workers, Gate(w) PROVE [P!PauseNext]_(P!pauseVars)
  BY <1>4 DEF Gate, WorkerGoes, P!Wait
<1>5. ASSUME NEW w \in Workers, SetPauseUntil(w) PROVE [P!PauseNext]_(P!pauseVars)
  BY <1>5 DEF SetPauseUntil, WorkerEnds, WorkerGoes, P!Set
<1>6. ASSUME NEW w \in Workers, WorkerStep(w), ~Gate(w), ~SetPauseUntil(w)
      PROVE  UNCHANGED P!pauseVars
  <2>1. /\ UNCHANGED pause /\ worker[w] # "waiting"
        /\ \E pc \in {"take", "done", "gate", "check", "request", "backoff", "limited", "apply"} :
             WorkerGoes(w, pc)
    BY <1>6 DEF WorkerStep, WorkerEnds, Take, TakeClosed, Check, AnswerStatus, AnswerLimited,
                AnswerTemporary, AnswerNothing, Backoff, ApplyAccrualResult, ApplyFails
  <2> QED
    BY <2>1 DEF WorkerGoes
<1> QED
  BY <1>1, <1>2, <1>3, <1>4, <1>5, <1>6
  DEF Next, PollerStep, vars, workers, Upload, Calculate, Cancel, Poll, List, ListFails, Send,
      BatchEnds, Tick, Close, Join

\* Whoever waits in the program's pause has a wakeup to come.
THEOREM ImplementsPause == Spec => PauseSpec
<1>1. Init => P!PauseInit
  BY DEF Init, P!PauseInit
<1>2. Init => QueueInv /\ WorkerInv
  BY InitQueue, InitWorkers
<1>3. QueueInv /\ WorkerInv /\ [Next]_vars => (QueueInv /\ WorkerInv)'
  BY QueueNext, WorkerNext
<1> QED
  BY <1>1, <1>2, <1>3, PauseSimulated, PTL DEF Spec, PauseSpec, P!PauseSpec

-----------------------------------------------------------------------------
(* The orders *)

\* The orders of the workers.
WorkerOrders == {job[w] : w \in {v \in Workers : job[v] # "none"}}

LEMMA Forgets ==
  ASSUME UNCHANGED <<status, service>>,
         HeldOrders' \subseteq HeldOrders, FetchedAnswers' \subseteq FetchedAnswers
  PROVE  S!SyncNext
BY DEF S!SyncNext, S!Forget

\* A worker that goes on with its order, or drops it, has nothing new in memory.
LEMMA WorkerForgets ==
  ASSUME WorkerInv, UNCHANGED <<status, service, batch, jobs>>,
         NEW w \in Workers, NEW pc, pc # "apply",
         \/ WorkerEnds(w, pc)
         \/ WorkerGoes(w, pc) /\ UNCHANGED <<job, result>>
  PROVE  /\ WorkerOrders' \subseteq WorkerOrders
         /\ FetchedAnswers' \subseteq FetchedAnswers
         /\ S!SyncNext
<1> USE DEF WorkerInv, WorkerEnds, WorkerGoes
<1>1. ASSUME NEW v \in Workers
      PROVE  /\ job'[v] # "none" => job[v] = job'[v]
             /\ worker'[v] = "apply" =>
                  worker[v] = "apply" /\ job[v] = job'[v] /\ result[v] = result'[v]
  OBVIOUS
<1>2. WorkerOrders' \subseteq WorkerOrders
  BY <1>1 DEF WorkerOrders
<1>3. FetchedAnswers' \subseteq FetchedAnswers
  BY <1>1 DEF FetchedAnswers
<1>4. HeldOrders' \subseteq HeldOrders
  BY <1>2 DEF HeldOrders, WorkerOrders
<1> QED
  BY <1>2, <1>3, <1>4, Forgets

\* What the poller takes into memory is open.
LEMMA ListSimulated ==
  ASSUME QueueInv, List
  PROVE  S!SyncNext
<1>1. batch = <<>> /\ free \in 0 .. BatchSize
  BY DEF QueueInv, List
<1>2. UNCHANGED <<status, service, jobs, worker, job, result>>
  BY DEF List, channel, workers
<1>3. ToSet(batch') \subseteq OpenOrders
  <2>1. PICK skipped \in SUBSET LockedOrders :
          \E oldest \in Oldest(skipped) : batch' \in SetToSeqs(oldest) \/ batch' = <<>>
    BY DEF List
  <2>2. PICK oldest \in Oldest(skipped) : batch' \in SetToSeqs(oldest) \/ batch' = <<>>
    BY <2>1
  <2>3. CASE batch' = <<>>
    BY <2>3 DEF ToSet
  <2> QED
    BY <1>1, <2>2, <2>3, ListedOrders
<1>4. ToSet(batch) = {}
  BY <1>1 DEF ToSet
<1>5. HeldOrders' = HeldOrders \cup ToSet(batch')
  BY <1>2, <1>4 DEF HeldOrders
<1>6. FetchedAnswers' = FetchedAnswers
  BY <1>2 DEF FetchedAnswers
<1>7. S!List(ToSet(batch'))
  BY <1>2, <1>3, <1>5, <1>6 DEF S!List, S!Open, S!IsFinal, OpenOrders, Open, IsFinal
<1>8. ToSet(batch') \in SUBSET Orders
  BY <1>3 DEF OpenOrders
<1> QED
  BY <1>7, <1>8 DEF S!SyncNext

\* From the batch into the channel.
LEMMA SendSimulated ==
  ASSUME QueueInv, Send
  PROVE  S!SyncNext
<1>1. UNCHANGED <<status, service, worker, job, result>>
  BY DEF Send, database, workers
<1>2. ToSet(batch') \cup ToSet(jobs') \subseteq ToSet(batch) \cup ToSet(jobs)
  <2>1. CASE jobs' = jobs /\ batch' = <<>>
    BY <2>1 DEF ToSet
  <2>2. CASE jobs' = Append(jobs, Head(batch)) /\ batch' = Tail(batch) /\ batch # <<>>
    BY <2>2 DEF ToSet, QueueInv
  <2> QED
    BY <2>1, <2>2 DEF Send
<1>3. HeldOrders' \subseteq HeldOrders
  BY <1>1, <1>2 DEF HeldOrders
<1>4. FetchedAnswers' \subseteq FetchedAnswers
  BY <1>1 DEF FetchedAnswers
<1> QED
  BY <1>1, <1>3, <1>4, Forgets

\* From the channel to a worker.
LEMMA TakeSimulated ==
  ASSUME QueueInv, WorkerInv, NEW w \in Workers, Take(w)
  PROVE  S!SyncNext
<1>1. UNCHANGED <<status, service, batch, result>>
  BY DEF Take, database, run
<1>2. Head(jobs) \in ToSet(jobs) /\ ToSet(jobs') \subseteq ToSet(jobs)
  BY DEF Take, QueueInv, ToSet
<1>3. job' = [job EXCEPT ![w] = Head(jobs)] /\ worker' = [worker EXCEPT ![w] = "gate"]
  BY DEF Take, WorkerGoes
<1>4. WorkerOrders' \subseteq WorkerOrders \cup {Head(jobs)}
  BY <1>3 DEF WorkerInv, WorkerOrders
<1>5. HeldOrders' \subseteq HeldOrders
  BY <1>1, <1>2, <1>4 DEF HeldOrders, WorkerOrders
<1>6. FetchedAnswers' \subseteq FetchedAnswers
  BY <1>1, <1>3 DEF FetchedAnswers, WorkerInv
<1> QED
  BY <1>1, <1>5, <1>6, Forgets

\* What the accrual service answers is what it knows of an order in memory.
LEMMA AnswerSimulated ==
  ASSUME WorkerInv, NEW w \in Workers, AnswerStatus(w)
  PROVE  S!SyncNext
<1> DEFINE a == [order |-> job[w], status |-> ToOrderStatus(service[job[w]])]
<1>1. /\ worker[w] = "request" /\ service[job[w]] # "none"
      /\ result' = [result EXCEPT ![w] = ToOrderStatus(service[job[w]])]
      /\ worker' = [worker EXCEPT ![w] = "apply"]
      /\ UNCHANGED <<status, service, jobs, batch, job>>
  BY DEF AnswerStatus, WorkerGoes, database, channel, run
<1>2. job[w] \in Orders /\ job[w] # "none"
  BY <1>1 DEF WorkerInv
<1>3. HeldOrders' = HeldOrders /\ job[w] \in HeldOrders
  BY <1>1, <1>2 DEF HeldOrders
<1>4. FetchedAnswers' = FetchedAnswers \cup {a}
  <2>1. job'[w] = job[w] /\ result'[w] = a.status /\ worker'[w] = "apply"
    BY <1>1 DEF WorkerInv
  <2>2. ASSUME NEW v \in Workers, v # w
        PROVE  worker'[v] = worker[v] /\ job'[v] = job[v] /\ result'[v] = result[v]
    BY <1>1, <2>2 DEF WorkerInv
  <2>3. a \in FetchedAnswers'
    BY <2>1 DEF FetchedAnswers
  <2>4. FetchedAnswers' \subseteq FetchedAnswers \cup {a}
    BY <2>1, <2>2 DEF FetchedAnswers
  <2>5. FetchedAnswers \subseteq FetchedAnswers'
    BY <1>1, <2>2 DEF FetchedAnswers
  <2> QED
    BY <2>3, <2>4, <2>5
<1>5. S!Fetch(job[w])
  BY <1>1, <1>3, <1>4 DEF S!Fetch, S!ToOrderStatus, ToOrderStatus
<1> QED
  BY <1>2, <1>5 DEF S!SyncNext

\* The answer of a worker that ends is forgotten, unless another has the same.
LEMMA EndForgets ==
  ASSUME WorkerInv, NEW w \in Workers, worker[w] = "apply", WorkerEnds(w, "take"),
         UNCHANGED <<jobs, batch>>
  PROVE  /\ FetchedAnswers' \in
              {FetchedAnswers, FetchedAnswers \ {[order |-> job[w], status |-> result[w]]}}
         /\ HeldOrders' \in {HeldOrders, HeldOrders \ {job[w]}}
<1> USE DEF WorkerInv
<1>1. ASSUME NEW v \in Workers, v # w
      PROVE  worker'[v] = worker[v] /\ job'[v] = job[v] /\ result'[v] = result[v]
  BY <1>1 DEF WorkerEnds, WorkerGoes
<1>2. worker'[w] = "take" /\ job'[w] = "none" /\ job[w] # "none"
  BY DEF WorkerEnds, WorkerGoes
<1> DEFINE a == [order |-> job[w], status |-> result[w]]
<1>3. FetchedAnswers' \subseteq FetchedAnswers /\ FetchedAnswers \ {a} \subseteq FetchedAnswers'
  BY <1>1, <1>2 DEF FetchedAnswers
<1>4. WorkerOrders' \subseteq WorkerOrders /\ WorkerOrders \ {job[w]} \subseteq WorkerOrders'
  BY <1>1, <1>2 DEF WorkerOrders
<1>5. HeldOrders' \subseteq HeldOrders /\ HeldOrders \ {job[w]} \subseteq HeldOrders'
  BY <1>4 DEF HeldOrders, WorkerOrders
<1> QED
  BY <1>3, <1>5

\* An answer is recorded unless the order is final.
LEMMA ApplySimulated ==
  ASSUME SP!SyncInv, WorkerInv, NEW w \in Workers, ApplyAccrualResult(w)
  PROVE  S!SyncNext
<1> DEFINE a == [order |-> job[w], status |-> result[w]]
<1>1. worker[w] = "apply" /\ WorkerEnds(w, "take") /\ UNCHANGED <<service, jobs, batch>>
  BY DEF ApplyAccrualResult, channel, run
<1>2. a \in FetchedAnswers
  BY <1>1 DEF FetchedAnswers
<1>3. status[job[w]] # "none"
  BY <1>2 DEF SP!SyncInv, SP!MemoryIsTrue
<1>4. status' = IF S!Open(job[w]) THEN [status EXCEPT ![job[w]] = result[w]] ELSE status
  BY <1>3 DEF ApplyAccrualResult, database, S!Open, S!IsFinal, IsFinal
<1>5. S!Record(a)
  BY <1>1, <1>2, <1>4, EndForgets DEF S!Record
<1> QED
  BY <1>2, <1>5 DEF S!SyncNext

\* Every step is one of Sync or leaves its variables alone.
LEMMA StepSimulated == Inv /\ [Next]_vars => [S!SyncNext]_(S!syncVars)
<1> SUFFICES ASSUME Inv, [Next]_vars PROVE [S!SyncNext]_(S!syncVars)
  OBVIOUS
<1> USE DEF Inv
<1>1. CASE UNCHANGED <<status, service, jobs, batch, worker, job, result>>
  BY <1>1 DEF S!syncVars, HeldOrders, FetchedAnswers
<1>2. ASSUME NEW o \in Orders, Upload(o) PROVE S!SyncNext
  <2>1. UNCHANGED <<service, HeldOrders, FetchedAnswers>>
    BY <1>2 DEF Upload, channel, run, workers, HeldOrders, FetchedAnswers
  <2>2. status[o] = "none" /\ status' = [status EXCEPT ![o] = "NEW"]
    BY <1>2 DEF Upload
  <2>3. S!Upload(o)
    BY <2>1, <2>2 DEF S!Upload, S!memory
  <2> QED
    BY <2>3 DEF S!SyncNext
<1>3. ASSUME NEW o \in Orders, Calculate(o) PROVE S!SyncNext
  <2>1. UNCHANGED <<status, HeldOrders, FetchedAnswers>>
    BY <1>3 DEF Calculate, database, channel, run, workers, HeldOrders, FetchedAnswers
  <2>2. S!Later(service[o]) = Later(service[o])
    BY DEF S!Later, Later
  <2>3. S!Calculate(o)
    BY <1>3, <2>1, <2>2 DEF Calculate, S!Calculate, S!memory
  <2> QED
    BY <2>3 DEF S!SyncNext
<1>4. CASE Shutdown \/ Fire
  <2>1. worker' = Awake /\ UNCHANGED <<status, service, jobs, batch, job, result>>
    BY <1>4 DEF Shutdown, Fire, database, channel, run
  <2>2. \A v \in Workers : worker'[v] = "apply" => worker[v] = "apply"
    BY <2>1 DEF Awake
  <2>3. HeldOrders' \subseteq HeldOrders /\ FetchedAnswers' \subseteq FetchedAnswers
    BY <2>1, <2>2 DEF HeldOrders, FetchedAnswers
  <2> QED
    BY <2>1, <2>3, Forgets
<1>5. CASE BatchEnds
  <2>1. batch' = <<>> /\ UNCHANGED <<status, service, jobs, worker, job, result>>
    BY <1>5 DEF BatchEnds, database, channel, workers
  <2>2. HeldOrders' \subseteq HeldOrders /\ FetchedAnswers' \subseteq FetchedAnswers
    BY <2>1 DEF HeldOrders, FetchedAnswers, ToSet
  <2> QED
    BY <2>1, <2>2, Forgets
<1>6. ASSUME NEW w \in Workers,
             \/ TakeClosed(w) \/ Gate(w) \/ Check(w) \/ AnswerLimited(w)
             \/ AnswerTemporary(w) \/ AnswerNothing(w) \/ Backoff(w)
             \/ SetPauseUntil(w) \/ ApplyFails(w)
      PROVE  S!SyncNext
  <2>1. /\ UNCHANGED <<status, service, batch, jobs>>
        /\ \E pc \in {"take", "done", "waiting", "check", "request", "backoff", "limited"} :
             \/ WorkerEnds(w, pc)
             \/ WorkerGoes(w, pc) /\ UNCHANGED <<job, result>>
    BY <1>6 DEF TakeClosed, Gate, Check, AnswerLimited, AnswerTemporary, AnswerNothing,
                Backoff, SetPauseUntil, ApplyFails, database, channel, run
  <2> QED
    BY <2>1, WorkerForgets
<1>7. ASSUME NEW w \in Workers, Take(w) \/ AnswerStatus(w) \/ ApplyAccrualResult(w)
      PROVE  S!SyncNext
  BY <1>7, TakeSimulated, AnswerSimulated, ApplySimulated
<1>8. CASE List \/ Send
  BY <1>8, ListSimulated, SendSimulated
<1>9. CASE Cancel \/ Poll \/ ListFails \/ Tick \/ Close \/ Join \/ Expire
  BY <1>1, <1>9 DEF Cancel, Poll, ListFails, Tick, Close, Join, Expire,
                    database, channel, run, workers
<1> QED
  BY <1>1, <1>2, <1>3, <1>4, <1>5, <1>6, <1>7, <1>8, <1>9
  DEF Next, PollerStep, WorkerStep, vars, database, channel, run, workers

\* What SyncProofs says of a step of Sync, it says of these.
LEMMA SyncStep ==
  [S!SyncNext]_(S!syncVars) => [SP!SyncNext]_(SP!syncVars)
<1>1. \A t : S!Later(t) = SP!Later(t) /\ S!ToOrderStatus(t) = SP!ToOrderStatus(t)
  BY DEF S!Later, SP!Later, S!ToOrderStatus, SP!ToOrderStatus
<1>2. \A o : S!Open(o) <=> SP!Open(o)
  BY DEF S!Open, SP!Open, S!IsFinal, SP!IsFinal
<1>3. S!memory = SP!memory /\ S!syncVars = SP!syncVars
  BY DEF S!memory, SP!memory, S!syncVars, SP!syncVars
<1>4. ASSUME NEW o \in Orders
      PROVE  /\ S!Upload(o) => SP!Upload(o)
             /\ S!Calculate(o) => SP!Calculate(o)
             /\ S!Fetch(o) => SP!Fetch(o)
  <2>1. S!Upload(o) => SP!Upload(o)
    BY DEF S!Upload, SP!Upload, S!memory, SP!memory
  <2>2. S!Calculate(o) => SP!Calculate(o)
    BY <1>1 DEF S!Calculate, SP!Calculate, S!memory, SP!memory
  <2>3. S!Fetch(o) => SP!Fetch(o)
    BY <1>1 DEF S!Fetch, SP!Fetch
  <2> QED
    BY <2>1, <2>2, <2>3
<1>5. ASSUME NEW orders \in SUBSET Orders PROVE S!List(orders) => SP!List(orders)
  BY <1>2 DEF S!List, SP!List
<1>6. ASSUME NEW a \in FetchedAnswers PROVE S!Record(a) => SP!Record(a)
  BY <1>2 DEF S!Record, SP!Record
<1>7. S!Forget => SP!Forget
  BY DEF S!Forget, SP!Forget
<1> QED
  BY <1>3, <1>4, <1>5, <1>6, <1>7 DEF S!SyncNext, SP!SyncNext, S!syncVars, SP!syncVars

LEMMA InitSimulated == Init => S!SyncInit /\ SP!SyncInit
BY DEF Init, S!SyncInit, SP!SyncInit, HeldOrders, FetchedAnswers, ToSet

\* The inductive invariant.
THEOREM InvHolds == Spec => []Inv
<1>1. Init => Inv
  BY InitSimulated, SP!SyncInitInv, StatusesAssumption, InitQueue, InitWorkers DEF Inv
<1>2. Inv /\ [Next]_vars => Inv'
  BY StepSimulated, SyncStep, SP!SyncNextInv, StatusesAssumption, QueueNext, WorkerNext
  DEF Inv
<1> QED
  BY <1>1, <1>2, PTL DEF Spec

\* No order that the list made the newest is dropped for want of room.
THEOREM JobsFitHolds == Spec => []JobsFit
<1>1. Inv => JobsFit
  BY DEF Inv, QueueInv
<1> QED
  BY <1>1, InvHolds, PTL

-----------------------------------------------------------------------------
(* The types, and the order of updated_at *)

TypeInv ==
  /\ OrderedByAge
  /\ cancelled \in BOOLEAN /\ closed \in BOOLEAN
  /\ tries \in [Workers -> 1 .. MaxAttempts]
  /\ pause \in {"none", "running", "expired"}

\* Orders that are made the newest, uploaded now or open before, are ordered with
\* the others.
LEMMA NewestAreOrdered ==
  ASSUME OrderedByAge, NEW orders, OpenOrders' = OpenOrders \cup orders,
         older' = Newest(orders)
  PROVE  OrderedByAge'
<1>1. ASSUME NEW p, NEW o
      PROVE  <<p, o>> \in older' <=>
               \/ <<p, o>> \in older /\ p \notin orders /\ o \notin orders
               \/ p \in OpenOrders \ orders /\ o \in orders
  BY DEF Newest, Without
<1>2. older' \subseteq OpenOrders' \X OpenOrders'
  BY DEF OrderedByAge, Newest, Without
<1>3. ASSUME NEW p \in OpenOrders', NEW q \in OpenOrders', NEW o \in OpenOrders',
             <<p, o>> \in older'
      PROVE  <<o, p>> \notin older' /\ (<<p, q>> \in older' \/ <<q, o>> \in older')
  BY <1>1, <1>3 DEF OrderedByAge
<1> QED
  BY <1>2, <1>3 DEF OrderedByAge

\* Orders that become final leave the others in their order.
LEMMA OthersAreOrdered ==
  ASSUME OrderedByAge, NEW orders, OpenOrders' = OpenOrders \ orders,
         older' = Without(orders)
  PROVE  OrderedByAge'
<1>1. ASSUME NEW p, NEW o
      PROVE  <<p, o>> \in older' <=> <<p, o>> \in older /\ p \notin orders /\ o \notin orders
  BY DEF Without
<1>2. older' \subseteq OpenOrders' \X OpenOrders'
  BY DEF OrderedByAge, Without
<1>3. ASSUME NEW p \in OpenOrders', NEW q \in OpenOrders', NEW o \in OpenOrders',
             <<p, o>> \in older'
      PROVE  <<o, p>> \notin older' /\ (<<p, q>> \in older' \/ <<q, o>> \in older')
  BY <1>1, <1>3 DEF OrderedByAge
<1> QED
  BY <1>2, <1>3 DEF OrderedByAge

\* A status that a worker writes opens the order or closes it.
LEMMA OrdersAfterApply ==
  ASSUME Inv, OrderedByAge, NEW w \in Workers, ApplyAccrualResult(w)
  PROVE  OrderedByAge'
<1>1. CASE UNCHANGED database
  BY <1>1 DEF database, OrderedByAge, OpenOrders, Open
<1>2. CASE ~UNCHANGED database
  <2> DEFINE o == job[w]
  <2>1. /\ worker[w] = "apply"
        /\ status' = [status EXCEPT ![o] = result[w]]
        /\ older' = IF IsFinal(result[w]) THEN Without({o}) ELSE Newest({o})
    BY <1>2 DEF ApplyAccrualResult
  <2>2. o \in Orders /\ result[w] # "none" /\ status \in [Orders -> {"none"} \cup OrderStatuses]
    BY <2>1 DEF Inv, WorkerInv, SP!SyncInv, SP!SyncTypeOK, SP!OrderStatuses, OrderStatuses
  <2>3. CASE IsFinal(result[w])
    <3>1. OpenOrders' = OpenOrders \ {o}
      BY <2>1, <2>2, <2>3 DEF OpenOrders, Open
    <3> QED
      BY <2>1, <2>3, <3>1, OthersAreOrdered
  <2>4. CASE ~IsFinal(result[w])
    <3>1. OpenOrders' = OpenOrders \cup {o}
      BY <2>1, <2>2, <2>4 DEF OpenOrders, Open
    <3> QED
      BY <2>1, <2>4, <3>1, NewestAreOrdered
  <2> QED
    BY <2>3, <2>4
<1> QED
  BY <1>1, <1>2

LEMMA OrdersNext == Inv /\ OrderedByAge /\ [Next]_vars => OrderedByAge'
<1> SUFFICES ASSUME Inv, OrderedByAge, [Next]_vars PROVE OrderedByAge'
  OBVIOUS
<1>1. CASE UNCHANGED database
  BY <1>1 DEF database, OrderedByAge, OpenOrders, Open
<1>2. ASSUME NEW o \in Orders, Upload(o) PROVE OrderedByAge'
  <2>1. status' = [status EXCEPT ![o] = "NEW"] /\ older' = Newest({o})
    BY <1>2 DEF Upload
  <2>2. OpenOrders' = OpenOrders \cup {o}
    BY <2>1 DEF OpenOrders, Open, IsFinal, Inv, SP!SyncInv, SP!SyncTypeOK
  <2> QED
    BY <2>1, <2>2, NewestAreOrdered
<1>3. CASE List
  <2>1. PICK skipped \in SUBSET LockedOrders :
          \E oldest \in Oldest(skipped) : older' = Newest(oldest)
    BY <1>3 DEF List
  <2>2. PICK oldest \in Oldest(skipped) : older' = Newest(oldest)
    BY <2>1
  <2>3. OpenOrders' = OpenOrders \cup oldest
    BY <1>3 DEF List, OpenOrders, Open, Oldest
  <2> QED
    BY <2>2, <2>3, NewestAreOrdered
<1>4. ASSUME NEW w \in Workers, ApplyAccrualResult(w) PROVE OrderedByAge'
  BY <1>4, OrdersAfterApply
<1>5. ASSUME NEW w \in Workers, WorkerStep(w), ~ApplyAccrualResult(w)
      PROVE  UNCHANGED database
  BY <1>5 DEF WorkerStep, Take, TakeClosed, Gate, Check, AnswerStatus, AnswerLimited,
              AnswerTemporary, AnswerNothing, Backoff, SetPauseUntil, ApplyFails
<1> QED
  BY <1>1, <1>2, <1>3, <1>4, <1>5
  DEF Next, PollerStep, vars, Calculate, Cancel, Poll, ListFails, Send, BatchEnds, Tick,
      Shutdown, Close, Join, Expire, Fire

\* A request is counted only up to the limit.
LEMMA CountsNext ==
  TypeInv /\ [Next]_vars => tries' \in [Workers -> 1 .. MaxAttempts]
<1> SUFFICES ASSUME TypeInv, [Next]_vars PROVE tries' \in [Workers -> 1 .. MaxAttempts]
  OBVIOUS
<1> USE AttemptsAssumption DEF TypeInv
<1>1. CASE UNCHANGED tries
  BY <1>1
<1>2. ASSUME NEW w \in Workers, NEW pc, WorkerEnds(w, pc)
      PROVE  tries' \in [Workers -> 1 .. MaxAttempts]
  BY <1>2 DEF WorkerEnds
<1>3. ASSUME NEW w \in Workers, AnswerTemporary(w)
      PROVE  tries' \in [Workers -> 1 .. MaxAttempts]
  <2>1. CASE tries[w] < MaxAttempts
    BY <1>3, <2>1 DEF AnswerTemporary
  <2>2. CASE ~(tries[w] < MaxAttempts)
    BY <1>2, <1>3, <2>2 DEF AnswerTemporary
  <2> QED
    BY <2>1, <2>2
<1>4. ASSUME NEW w \in Workers, WorkerStep(w), ~AnswerTemporary(w)
      PROVE  UNCHANGED tries \/ WorkerEnds(w, "take") \/ WorkerEnds(w, "done")
  BY <1>4 DEF WorkerStep, Take, TakeClosed, Gate, Check, AnswerStatus, AnswerLimited,
              AnswerNothing, Backoff, SetPauseUntil, ApplyAccrualResult, ApplyFails
<1> QED
  BY <1>1, <1>2, <1>3, <1>4
  DEF Next, PollerStep, vars, workers, Upload, Calculate, Cancel, Poll, List, ListFails, Send,
      BatchEnds, Tick, Shutdown, Close, Join, Expire, Fire

LEMMA FlagsNext ==
  TypeInv /\ [Next]_vars => /\ cancelled' \in BOOLEAN /\ closed' \in BOOLEAN
                           /\ pause' \in {"none", "running", "expired"}
<1> SUFFICES ASSUME TypeInv, [Next]_vars
             PROVE  /\ cancelled' \in BOOLEAN /\ closed' \in BOOLEAN
                    /\ pause' \in {"none", "running", "expired"}
  OBVIOUS
<1>1. CASE UNCHANGED vars
  BY <1>1 DEF vars, channel, TypeInv
<1>2. CASE Cancel \/ Close \/ Shutdown \/ Expire \/ Fire
  BY <1>2 DEF Cancel, Close, Shutdown, Expire, Fire, channel, TypeInv
<1>3. CASE Poll \/ List \/ ListFails \/ Send \/ BatchEnds \/ Tick \/ Join
  BY <1>3 DEF Poll, List, ListFails, Send, BatchEnds, Tick, Join, channel, TypeInv
<1>4. ASSUME NEW o \in Orders, Upload(o) \/ Calculate(o)
      PROVE  UNCHANGED <<cancelled, closed, pause>>
  BY <1>4 DEF Upload, Calculate, channel
<1>5. ASSUME NEW w \in Workers, WorkerStep(w)
      PROVE  UNCHANGED <<cancelled, closed>> /\ pause' \in {pause, "running"}
  BY <1>5 DEF WorkerStep, Take, TakeClosed, Gate, Check, AnswerStatus, AnswerLimited,
              AnswerTemporary, AnswerNothing, Backoff, SetPauseUntil, ApplyAccrualResult,
              ApplyFails, channel
<1> QED
  BY <1>1, <1>2, <1>3, <1>4, <1>5 DEF Next, PollerStep, TypeInv

\* Every variable has its type: updated_at puts just the open orders in an order,
\* the channel never holds more than its capacity, and no request is tried more
\* often than the limit allows.
THEOREM TypeCorrect == Spec => []TypeOK
<1>1. Init => TypeInv
  <2>1. Init => OpenOrders = {} /\ older = {}
    BY DEF Init, OpenOrders, Open
  <2>2. Init => OrderedByAge
    BY <2>1 DEF OrderedByAge
  <2>3. 1 \in 1 .. MaxAttempts
    BY AttemptsAssumption
  <2>4. Init => tries \in [Workers -> 1 .. MaxAttempts]
    BY <2>3 DEF Init
  <2>5. Init => /\ cancelled \in BOOLEAN /\ closed \in BOOLEAN
                /\ pause \in {"none", "running", "expired"}
    BY DEF Init
  <2> QED
    BY <2>2, <2>4, <2>5 DEF TypeInv
<1>2. Inv /\ TypeInv /\ [Next]_vars => TypeInv'
  BY OrdersNext, CountsNext, FlagsNext DEF TypeInv
<1>3. Inv /\ TypeInv => TypeOK
  <2>1. ASSUME Inv PROVE Len(jobs) <= BatchSize
    BY <2>1, BatchAssumption DEF Inv, QueueInv, JobsFit
  <2> QED
    BY <2>1 DEF Inv, TypeInv, TypeOK, QueueInv, WorkerInv, SP!SyncInv, SP!SyncTypeOK,
                SP!OrderStatuses, OrderStatuses
<1> QED
  BY <1>1, <1>2, <1>3, InvHolds, PTL DEF Spec

-----------------------------------------------------------------------------
(* The abstract specification *)

\* However the poller and the workers interleave, they do to the orders what
\* Sync does.
THEOREM ImplementsSync == Spec => SyncSpec
<1>1. Init => S!SyncInit
  BY InitSimulated
<1> QED
  BY <1>1, StepSimulated, InvHolds, PTL DEF Spec, SyncSpec, S!SyncSpec

\* So a final status is the one that the accrual service decided, although an
\* order may be with two workers and its answers are applied late.
THEOREM FinalAgreesHolds == Spec => []S!FinalAgrees
<1>1. Inv => S!FinalAgrees
  BY DEF Inv, SP!SyncInv, SP!FinalAgrees, SP!IsFinal, S!FinalAgrees, S!IsFinal
<1> QED
  BY <1>1, InvHolds, PTL
=============================================================================
