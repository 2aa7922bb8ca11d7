--------------------------- MODULE LifecycleProofs ---------------------------
(***************************************************************************)
(* Theorems about Lifecycle, for any set of orders and any number of       *)
(* signals, failures and crashes.  Every step is a step of Sync or none    *)
(* (StepSimulated), so what SyncProofs proves holds across restarts; what  *)
(* the phases of run mean is PhaseInv.                                     *)
(***************************************************************************)
EXTENDS Lifecycle, SyncProofs

\* What holds in the phases of run.
PhaseInv ==
  /\ phase \in {"connecting", "serving", "draining", "closing"} => schema = "current"
  /\ phase \in {"down", "migrating", "applying", "connecting"} =>
       listener = "none" /\ pool = "none" /\ processor = "none"
  /\ phase \in {"draining", "closing"} => listener # "open"
  /\ phase \notin {"draining", "closing"} => err = "nil" /\ pool # "closed"
  /\ phase = "draining" => err = "nil" /\ pool # "closed"
  /\ phase = "closing" /\ err = "nil" => Idle

\* An answer follows its store.
StoredIsThere == \A o \in Orders : request[o] = "stored" => status[o] # "none"

Inv == SyncInv /\ TypeOK /\ PhaseInv /\ StoredIsThere /\ AnsweredIsStored

-----------------------------------------------------------------------------
\* The end of a process is the loss of everything in memory.
LEMMA EndForgets == ProcessEnds => SyncNext
BY DEF ProcessEnds, SyncNext, Forget

\* Every step is one of Sync or leaves its variables alone.
LEMMA StepSimulated == [Next]_vars => [SyncNext]_syncVars
<1> SUFFICES ASSUME [Next]_vars PROVE [SyncNext]_syncVars
  OBVIOUS
<1>1. CASE UNCHANGED vars
  BY <1>1 DEF vars
<1>2. CASE RunStep
  BY <1>2, EndForgets
  DEF RunStep, Start, Migrate, MigrationApplied, MigrationFails, Connect, ConnectFails,
      Shutdown, Drained, DrainTimeout, CloseDB, Exit
<1>3. CASE Listen \/ ServerErr \/ Signal \/ Crash
  BY <1>3, EndForgets DEF Listen, ServerErr, Signal, Crash
<1>4. ASSUME NEW o \in Orders, Receive(o) \/ Store(o) \/ StoreFails(o) \/ Respond(o)
      PROVE  [SyncNext]_syncVars
  BY <1>4 DEF Receive, Store, StoreFails, Respond, SyncNext
<1>5. ASSUME NEW orders \in SUBSET Orders, ProcessorLists(orders)
      PROVE  [SyncNext]_syncVars
  BY <1>5 DEF ProcessorLists, SyncNext
<1>6. ASSUME NEW o \in Orders, ProcessorFetches(o) \/ Calculated(o)
      PROVE  [SyncNext]_syncVars
  BY <1>6 DEF ProcessorFetches, Calculated, SyncNext
<1>7. ASSUME NEW a \in fetched, ProcessorRecords(a) PROVE [SyncNext]_syncVars
  BY <1>7 DEF ProcessorRecords, SyncNext
<1>8. CASE ProcessorForgets \/ ProcessorReturns
  BY <1>8 DEF ProcessorForgets, ProcessorReturns, SyncNext, Forget
<1> QED
  BY <1>1, <1>2, <1>3, <1>4, <1>5, <1>6, <1>7, <1>8 DEF Next

\* The program, stopped and started again, is a processor of orders all the same.
THEOREM ImplementsSync == Spec => SyncSpec
<1>1. Init => SyncInit
  BY DEF Init
<1> QED
  BY <1>1, StepSimulated, PTL DEF Spec, SyncSpec

\* Whatever stops the program and whenever it is started again, no answer that
\* comes late changes a final status or takes an order back.
THEOREM StatusAdvancesAlways == Spec => StatusAdvances
BY ImplementsSync, StatusAdvancesHolds, PTL

-----------------------------------------------------------------------------
LEMMA InitInv == Init => Inv
<1> SUFFICES ASSUME Init PROVE Inv
  OBVIOUS
<1>1. SyncInv
  BY SyncInitInv DEF Init
<1>2. 0 \in 0 .. MaxStops
  BY StopsAssumption
<1>3. TypeOK
  BY <1>1, <1>2 DEF Init, TypeOK, SyncInv
<1> QED
  BY <1>1, <1>3 DEF Init, Inv, PhaseInv, StoredIsThere, AnsweredIsStored

\* The steps of run, of the server and of the processor keep the types.
LEMMA TypeNext ==
  ASSUME Inv, [Next]_vars, SyncInv'
  PROVE  TypeOK'
<1> USE DEF Inv, TypeOK, clients, process
<1>1. SyncTypeOK'
  BY DEF SyncInv
<1> HIDE DEF SyncInv
<1>2. Stops => stops' \in 0 .. MaxStops
  BY StopsAssumption DEF Stops
<1>3. CASE UNCHANGED vars
  BY <1>1, <1>3 DEF vars
<1>4. CASE RunStep
  BY <1>1, <1>2, <1>4
  DEF RunStep, Start, Migrate, MigrationApplied, MigrationFails, Connect, ConnectFails,
      Shutdown, Drained, DrainTimeout, CloseDB, Exit, ProcessEnds, NoLonger
<1>5. CASE Listen \/ ServerErr \/ Signal \/ Crash
  BY <1>1, <1>2, <1>5 DEF Listen, ServerErr, Signal, Crash, ProcessEnds, NoLonger
<1>6. ASSUME NEW o \in Orders, Receive(o) \/ Store(o) \/ StoreFails(o) \/ Respond(o)
      PROVE  TypeOK'
  BY <1>1, <1>6 DEF Receive, Store, StoreFails, Respond
<1>7. CASE Processing
  BY <1>1, <1>7 DEF Processing
<1>8. CASE ProcessorReturns
  BY <1>1, <1>8 DEF ProcessorReturns
<1>9. ASSUME NEW o \in Orders, Calculated(o) PROVE TypeOK'
  BY <1>1, <1>9 DEF Calculated
<1> QED
  BY <1>3, <1>4, <1>5, <1>6, <1>7, <1>8, <1>9
  DEF Next, ProcessorLists, ProcessorFetches, ProcessorRecords, ProcessorForgets

\* The phases mean what they should.
LEMMA PhaseNext == Inv /\ [Next]_vars => PhaseInv'
<1> SUFFICES ASSUME Inv, [Next]_vars PROVE PhaseInv'
  OBVIOUS
<1> USE DEF Inv, TypeOK, PhaseInv, clients, process
<1>1. CASE UNCHANGED vars
  BY <1>1 DEF vars, Idle
<1>2. ASSUME ProcessEnds PROVE PhaseInv'
  BY <1>2 DEF ProcessEnds
<1>3. CASE Start \/ Migrate \/ MigrationApplied
  BY <1>3 DEF Start, Migrate, MigrationApplied
<1>4. CASE MigrationFails \/ ConnectFails \/ Exit \/ Crash
  BY <1>2, <1>4 DEF MigrationFails, ConnectFails, Exit, Crash
<1>5. CASE Connect
  BY <1>5 DEF Connect
<1>6. CASE Shutdown \/ ServerErr
  BY <1>6 DEF Shutdown, ServerErr, NoLonger
<1>7. CASE Drained \/ DrainTimeout \/ CloseDB
  BY <1>7 DEF Drained, DrainTimeout, CloseDB, Idle
<1>8. CASE Listen \/ Signal
  BY <1>8 DEF Listen, Signal, Idle
<1>9. ASSUME NEW o \in Orders, Receive(o) PROVE PhaseInv'
  <2>1. ~(phase = "closing" /\ err = "nil")
    BY <1>9 DEF Receive, Connected
  <2> QED
    BY <1>9, <2>1 DEF Receive
<1>10. ASSUME NEW o \in Orders, Store(o) \/ StoreFails(o) \/ Respond(o) PROVE PhaseInv'
  <2>1. request[o] # "none" /\ UNCHANGED <<schema, process>>
    BY <1>10 DEF Store, StoreFails, Respond
  <2>2. ~(phase = "closing" /\ err = "nil")
    BY <2>1 DEF Idle
  <2> QED
    BY <2>1, <2>2
<1>11. CASE Processing
  BY <1>11 DEF Processing, Idle
<1>12. CASE ProcessorReturns
  BY <1>12 DEF ProcessorReturns, Idle
<1>13. ASSUME NEW o \in Orders, Calculated(o) PROVE PhaseInv'
  BY <1>13 DEF Calculated, Idle
<1> QED
  BY <1>1, <1>3, <1>4, <1>5, <1>6, <1>7, <1>8, <1>9, <1>10, <1>11, <1>12, <1>13
  DEF Next, RunStep, ProcessorLists, ProcessorFetches, ProcessorRecords, ProcessorForgets

\* A request is stored, and acknowledged, only when its order is.
LEMMA RequestNext == Inv /\ [Next]_vars => StoredIsThere' /\ AnsweredIsStored'
<1> SUFFICES ASSUME Inv, [Next]_vars PROVE StoredIsThere' /\ AnsweredIsStored'
  OBVIOUS
<1> USE DEF Inv, TypeOK, StoredIsThere, AnsweredIsStored, clients
<1>1. \A o \in Orders : status[o] # "none" => status'[o] # "none"
  BY StepSimulated, UploadedStays
<1>2. CASE UNCHANGED clients
  BY <1>1, <1>2
<1>3. ASSUME ProcessEnds PROVE StoredIsThere' /\ AnsweredIsStored'
  BY <1>1, <1>3 DEF ProcessEnds
<1>4. ASSUME NEW o \in Orders, Receive(o) \/ StoreFails(o)
      PROVE  StoredIsThere' /\ AnsweredIsStored'
  BY <1>1, <1>4 DEF Receive, StoreFails
<1>5. ASSUME NEW o \in Orders, Store(o) PROVE StoredIsThere' /\ AnsweredIsStored'
  <2>1. status'[o] # "none"
    BY <1>1, <1>5 DEF Store, Upload, SyncTypeOK
  <2> QED
    BY <1>1, <1>5, <2>1 DEF Store
<1>6. ASSUME NEW o \in Orders, Respond(o) PROVE StoredIsThere' /\ AnsweredIsStored'
  BY <1>1, <1>6 DEF Respond
<1>7. CASE RunStep
  BY <1>2, <1>3, <1>7
  DEF RunStep, Start, Migrate, MigrationApplied, MigrationFails, Connect, ConnectFails,
      Shutdown, Drained, DrainTimeout, CloseDB, Exit
<1>8. CASE Listen \/ ServerErr \/ Signal \/ Crash \/ ProcessorReturns
  BY <1>2, <1>3, <1>8 DEF Listen, ServerErr, Signal, Crash, ProcessorReturns
<1>9. CASE Processing \/ \E o \in Orders : Calculated(o)
  BY <1>2, <1>9 DEF Processing, Calculated
<1>10. CASE UNCHANGED vars
  BY <1>2, <1>10 DEF vars
<1> QED
  BY <1>4, <1>5, <1>6, <1>7, <1>8, <1>9, <1>10
  DEF Next, ProcessorLists, ProcessorFetches, ProcessorRecords, ProcessorForgets

LEMMA NextInv == Inv /\ [Next]_vars => Inv'
<1> SUFFICES ASSUME Inv, [Next]_vars PROVE Inv'
  OBVIOUS
<1>1. SyncInv'
  BY StepSimulated, SyncNextInv DEF Inv
<1>2. TypeOK'
  BY <1>1, TypeNext
<1> QED
  BY <1>1, <1>2, PhaseNext, RequestNext DEF Inv

\* The inductive invariant.
THEOREM InvHolds == Spec => []Inv
BY InitInv, NextInv, PTL DEF Spec

\* The variables keep their types.
THEOREM TypeCorrect == Spec => []TypeOK
<1>1. Inv => TypeOK
  BY DEF Inv
<1> QED
  BY <1>1, InvHolds, PTL

\* Requests and workers meet the program's own schema only.
THEOREM ServesCurrentSchemaHolds == Spec => []ServesCurrentSchema
<1>1. Inv => ServesCurrentSchema
  BY DEF Inv, TypeOK, PhaseInv, ServesCurrentSchema
<1> QED
  BY <1>1, InvHolds, PTL

\* A stop that reports success has answered every request.
THEOREM DrainedBeforeClosedHolds == Spec => []DrainedBeforeClosed
<1>1. Inv => DrainedBeforeClosed
  BY DEF Inv, TypeOK, PhaseInv, DrainedBeforeClosed
<1> QED
  BY <1>1, InvHolds, PTL

\* What was acknowledged is there, whatever happened since.
THEOREM AnsweredIsStoredHolds == Spec => []AnsweredIsStored
<1>1. Inv => AnsweredIsStored
  BY DEF Inv
<1> QED
  BY <1>1, InvHolds, PTL
=============================================================================
