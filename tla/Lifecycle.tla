------------------------------ MODULE Lifecycle ------------------------------
(***************************************************************************)
(* cmd/gophermart/main.go: the program from its start to its end, again    *)
(* and again over one database.  run() migrates the schema, opens a pool,  *)
(* starts the processor, which nothing waits for, and the server, and on a *)
(* signal or an error of the server unwinds its defers.                    *)
(*                                                                         *)
(* The processor is Sync (AccrualProcessor implements it); a request is    *)
(* the upload of an order.  A crash may come at any step and leaves the    *)
(* database alone.                                                         *)
(*                                                                         *)
(* External: golang-migrate marks the version dirty, executes the script   *)
(* and removes the mark, in three commits, and refuses a dirty version.    *)
(***************************************************************************)
EXTENDS Sync, Naturals

CONSTANT MaxStops \* bound: signals, failures and crashes

ASSUME StopsAssumption == MaxStops \in Nat

VARIABLES
  schema,    \* of the database
  phase,     \* of run
  cancelled, \* rootCtx is done
  pool, listener, processor,
  request,   \* the upload of an order that a client is waiting for
  err,       \* what run will return
  answered,  \* history: the orders whose upload was acknowledged
  stops

process == <<phase, cancelled, pool, listener, processor, err>>
clients == <<request, answered>>
vars == <<syncVars, schema, process, clients, stops>>

TypeOK ==
  /\ SyncTypeOK
  /\ schema \in {"empty", "dirty", "current"}
  /\ phase \in {"down", "migrating", "applying", "connecting", "serving",
                "draining", "closing"}
  /\ cancelled \in BOOLEAN
  /\ pool \in {"none", "open", "closed"}
  /\ listener \in {"none", "open", "closed"}
  /\ processor \in {"none", "running", "returned"}
  /\ request \in [Orders -> {"none", "active", "stored"}]
  /\ err \in {"nil", "error"}
  /\ answered \subseteq Orders
  /\ stops \in 0 .. MaxStops

Init ==
  /\ SyncInit
  /\ schema = "empty"
  /\ phase = "down" /\ cancelled = FALSE
  /\ pool = "none" /\ listener = "none" /\ processor = "none"
  /\ request = [o \in Orders |-> "none"]
  /\ err = "nil"
  /\ answered = {} /\ stops = 0

\* Something that will end the program.
Stops == stops < MaxStops /\ stops' = stops + 1

-----------------------------------------------------------------------------
(* run, up to the server *)

Start ==
  /\ phase = "down" /\ phase' = "migrating"
  /\ UNCHANGED <<syncVars, schema, cancelled, pool, listener, processor, err,
                 clients, stops>>

\* run returns: what is in memory is gone, and the clients' connections with it.
ProcessEnds ==
  /\ phase' = "down" /\ cancelled' = FALSE
  /\ pool' = "none" /\ listener' = "none" /\ processor' = "none"
  /\ request' = [o \in Orders |-> "none"]
  /\ err' = "nil"
  /\ held' = {} /\ fetched' = {}
  /\ UNCHANGED <<status, service, answered>>

\* Mutant: a dirty version is taken for the current one.
MigrateDirty ==
  /\ phase = "migrating"
  /\ \/ schema = "empty" /\ schema' = "dirty" /\ phase' = "applying"
     \/ schema # "empty" /\ phase' = "connecting" /\ UNCHANGED schema
  /\ UNCHANGED <<syncVars, cancelled, pool, listener, processor, err, clients, stops>>

\* The mark, or ErrNoChange.
Migrate ==
  /\ phase = "migrating"
  /\ \/ schema = "empty" /\ schema' = "dirty" /\ phase' = "applying"
     \/ schema = "current" /\ phase' = "connecting" /\ UNCHANGED schema
  /\ UNCHANGED <<syncVars, cancelled, pool, listener, processor, err, clients, stops>>

\* The script, and the mark removed.
MigrationApplied ==
  /\ phase = "applying"
  /\ schema' = "current" /\ phase' = "connecting"
  /\ UNCHANGED <<syncVars, cancelled, pool, listener, processor, err, clients, stops>>

\* ErrDirty ends every start from then on; any other error ends this one.
MigrationFails ==
  /\ \/ phase = "migrating" /\ schema = "dirty" /\ UNCHANGED stops
     \/ phase \in {"migrating", "applying"} /\ Stops
  /\ ProcessEnds
  /\ UNCHANGED schema

Connect ==
  /\ phase = "connecting" /\ ~cancelled
  /\ phase' = "serving" /\ pool' = "open" /\ processor' = "running"
  /\ UNCHANGED <<syncVars, schema, cancelled, listener, err, clients, stops>>

\* The ping's context is a child of rootCtx.
ConnectFails ==
  /\ phase = "connecting"
  /\ \/ cancelled /\ UNCHANGED stops
     \/ ~cancelled /\ Stops
  /\ ProcessEnds
  /\ UNCHANGED schema

-----------------------------------------------------------------------------
(* The server's goroutine, and the select that waits for it *)

\* Mutant: ListenAndServe does not know of a Shutdown before it.
ListenLate ==
  /\ phase \in {"serving", "draining", "closing"} /\ listener = "none"
  /\ listener' = "open"
  /\ UNCHANGED <<syncVars, schema, phase, cancelled, pool, processor, err, clients, stops>>

\* After a Shutdown ListenAndServe returns at once.
Listen ==
  /\ phase = "serving" /\ listener = "none"
  /\ listener' = "open"
  /\ UNCHANGED <<syncVars, schema, phase, cancelled, pool, processor, err, clients, stops>>

NoLonger == IF listener = "open" THEN "closed" ELSE listener

\* The address is in use, or Accept fails: run returns at once.
ServerErr ==
  /\ phase = "serving" /\ Stops
  /\ phase' = "closing" /\ listener' = NoLonger /\ err' = "error"
  /\ UNCHANGED <<syncVars, schema, cancelled, pool, processor, clients>>

Signal ==
  /\ phase # "down" /\ ~cancelled /\ Stops
  /\ cancelled' = TRUE
  /\ UNCHANGED <<syncVars, schema, phase, pool, listener, processor, err, clients>>

\* Shutdown closes the listener and then waits for the requests.
Shutdown ==
  /\ phase = "serving" /\ cancelled
  /\ phase' = "draining" /\ listener' = NoLonger
  /\ UNCHANGED <<syncVars, schema, cancelled, pool, processor, err, clients, stops>>

Idle == \A o \in Orders : request[o] = "none"

\* Mutant: Close in place of Shutdown: nothing is waited for.
DrainedAtOnce ==
  /\ phase = "draining"
  /\ phase' = "closing"
  /\ UNCHANGED <<syncVars, schema, cancelled, pool, listener, processor, err, clients, stops>>

Drained ==
  /\ phase = "draining" /\ Idle
  /\ phase' = "closing"
  /\ UNCHANGED <<syncVars, schema, cancelled, pool, listener, processor, err, clients, stops>>

DrainTimeout ==
  /\ phase = "draining" /\ ~Idle
  /\ phase' = "closing" /\ err' = "error"
  /\ UNCHANGED <<syncVars, schema, cancelled, pool, listener, processor, clients, stops>>

\* The defers run backwards: the pool is closed before stop() ends rootCtx, and
\* with it the program.
CloseDB ==
  /\ phase = "closing" /\ pool = "open"
  /\ pool' = "closed"
  /\ UNCHANGED <<syncVars, schema, phase, cancelled, listener, processor, err, clients, stops>>

\* Mutant: the processor is waited for, whose context ends only afterwards.
ExitAfterProcessor ==
  /\ phase = "closing" /\ pool = "closed" /\ processor = "returned"
  /\ ProcessEnds
  /\ UNCHANGED <<schema, stops>>

Exit ==
  /\ phase = "closing" /\ pool = "closed"
  /\ ProcessEnds
  /\ UNCHANGED <<schema, stops>>

Crash ==
  /\ phase # "down" /\ Stops
  /\ ProcessEnds
  /\ UNCHANGED schema

-----------------------------------------------------------------------------
(* A request *)

\* A connection that is kept alive ends with the wait of Shutdown, or with the
\* program.
Connected ==
  \/ listener = "open"
  \/ listener = "closed" /\ (phase = "draining" \/ err = "error")

Receive(o) ==
  /\ Connected /\ request[o] = "none"
  /\ request' = [request EXCEPT ![o] = "active"]
  /\ UNCHANGED <<syncVars, schema, process, answered, stops>>

\* The order is new, or was uploaded before.
Store(o) ==
  /\ request[o] = "active" /\ pool = "open"
  /\ request' = [request EXCEPT ![o] = "stored"]
  /\ \/ Upload(o)
     \/ status[o] # "none" /\ UNCHANGED syncVars
  /\ UNCHANGED <<schema, process, answered, stops>>

\* The database answers with an error, before or after the commit, and the client
\* is told so; it may try again.
StoreFails(o) ==
  /\ request[o] \in {"active", "stored"}
  /\ request' = [request EXCEPT ![o] = "none"]
  /\ UNCHANGED <<syncVars, schema, process, answered, stops>>

\* Mutant: the answer does not wait for the store.
RespondFirst(o) ==
  /\ request[o] \in {"active", "stored"}
  /\ request' = [request EXCEPT ![o] = "none"]
  /\ answered' = answered \cup {o}
  /\ UNCHANGED <<syncVars, schema, process, stops>>

Respond(o) ==
  /\ request[o] = "stored"
  /\ request' = [request EXCEPT ![o] = "none"]
  /\ answered' = answered \cup {o}
  /\ UNCHANGED <<syncVars, schema, process, stops>>

-----------------------------------------------------------------------------
(* The processor, and the accrual service *)

Processing == processor = "running" /\ UNCHANGED <<schema, process, clients, stops>>

ProcessorLists(orders) == Processing /\ pool = "open" /\ List(orders)

ProcessorFetches(o) == Processing /\ Fetch(o)

ProcessorRecords(a) == Processing /\ pool = "open" /\ Record(a)

ProcessorForgets == Processing /\ Forget

\* Run returns some time after rootCtx is done, if the program lives that long.
ProcessorReturns ==
  /\ processor = "running" /\ cancelled
  /\ processor' = "returned"
  /\ held' = {} /\ fetched' = {}
  /\ UNCHANGED <<status, service, schema, phase, cancelled, pool, listener, err,
                 clients, stops>>

Calculated(o) == Calculate(o) /\ UNCHANGED <<schema, process, clients, stops>>

-----------------------------------------------------------------------------
RunStep ==
  \/ Start \/ Migrate \/ MigrationApplied \/ MigrationFails
  \/ Connect \/ ConnectFails
  \/ Shutdown \/ Drained \/ DrainTimeout \/ CloseDB \/ Exit

Next ==
  \/ RunStep \/ Listen \/ ServerErr \/ Signal \/ Crash
  \/ \E o \in Orders :
       Receive(o) \/ Store(o) \/ StoreFails(o) \/ Respond(o)
  \/ \E orders \in SUBSET Orders : ProcessorLists(orders)
  \/ \E o \in Orders : ProcessorFetches(o) \/ Calculated(o)
  \/ \E a \in fetched : ProcessorRecords(a)
  \/ ProcessorForgets \/ ProcessorReturns

Spec == Init /\ [][Next]_vars

\* The program is started again whenever it has ended, and run is scheduled.
Restarts == WF_vars(RunStep)

\* What AccrualProcessor!EventuallyFinal says of the processor while it runs.
Processed ==
  \A o \in Orders :
    /\ SF_vars(\E orders \in SUBSET Orders : o \in orders /\ ProcessorLists(orders))
    /\ SF_vars(ProcessorFetches(o))
    /\ SF_vars(\E a \in fetched : a.order = o /\ a.status = service[o] /\ ProcessorRecords(a))

FairSpec == Spec /\ Restarts /\ Processed

-----------------------------------------------------------------------------
(* Properties *)

\* No request and no worker ever meets a schema that is not the program's: a
\* crash in the middle of a migration leaves a mark at which every later start
\* ends.
ServesCurrentSchema == listener = "open" \/ processor = "running" => schema = "current"

\* A stop that reports success has answered every request before it closed the
\* pool, although the listener is opened by another goroutine than the one that
\* shuts it, and a request may arrive until then.
DrainedBeforeClosed == pool = "closed" /\ err = "nil" => Idle

\* What was acknowledged before a stop or a crash is there after it.
AnsweredIsStored == \A o \in answered : status[o] # "none"

\* A stop ends, whether a signal or the server caused it, however long a request
\* takes and although the processor may hang.
StopEnds == cancelled \/ phase = "closing" ~> phase = "down"

\* An order whose calculation is over becomes final, wherever a stop or a crash
\* found it, in the list, in the channel or with its answer in a worker's hand,
\* unless a migration was broken off.
EventuallyRecorded ==
  \A o \in Orders :
    Open(o) /\ IsFinal(service[o]) ~> IsFinal(status[o]) \/ schema = "dirty"
=============================================================================
