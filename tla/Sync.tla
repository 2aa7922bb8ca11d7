-------------------------------- MODULE Sync --------------------------------
(***************************************************************************)
(* What the accrual processor does to the orders, whoever does it and in   *)
(* whatever order: open orders are taken into memory, the accrual service  *)
(* is asked about those in memory, and an answer, however old, is recorded *)
(* unless the order is final.  What is in memory may be forgotten at any   *)
(* time, and more than one copy of it may be around.                       *)
(*                                                                         *)
(* AccrualProcessor implements this with a channel and workers; Lifecycle  *)
(* puts it into a program that is stopped, crashes and starts again.       *)
(***************************************************************************)
EXTENDS AccrualStatus

VARIABLES
  status,  \* of the orders in the database, "none" before the upload
  service, \* what the accrual service knows of an order
  held,    \* the orders in memory: in a batch, in the channel, with a worker
  fetched  \* the answers in memory that are not recorded yet

memory == <<held, fetched>>
syncVars == <<status, service, held, fetched>>

Open(o) == status[o] # "none" /\ ~IsFinal(status[o])

Answers == [order : Orders, status : OrderStatuses]

SyncTypeOK ==
  /\ status \in [Orders -> {"none"} \cup OrderStatuses]
  /\ service \in [Orders -> {"none"} \cup AccrualStatuses]
  /\ held \subseteq Orders
  /\ fetched \subseteq Answers

SyncInit ==
  /\ status = [o \in Orders |-> "none"]
  /\ service = [o \in Orders |-> "none"]
  /\ held = {} /\ fetched = {}

-----------------------------------------------------------------------------
Upload(o) ==
  /\ status[o] = "none"
  /\ status' = [status EXCEPT ![o] = "NEW"]
  /\ UNCHANGED <<service, memory>>

Calculate(o) ==
  /\ \E s \in Later(service[o]) : service' = [service EXCEPT ![o] = s]
  /\ UNCHANGED <<status, memory>>

\* Mutant: the list returns what nobody has asked about yet.
ListNew(orders) ==
  /\ orders \subseteq {o \in Orders : status[o] = "NEW"}
  /\ held' = held \cup orders
  /\ UNCHANGED <<status, service, fetched>>

\* The list returns open orders.
List(orders) ==
  /\ orders \subseteq {o \in Orders : Open(o)}
  /\ held' = held \cup orders
  /\ UNCHANGED <<status, service, fetched>>

\* A full channel, an error, a 429, the end of the program.
Forget ==
  /\ held' \in SUBSET held
  /\ fetched' \in SUBSET fetched
  /\ UNCHANGED <<status, service>>

\* The accrual service answers.
Fetch(o) ==
  /\ o \in held /\ service[o] # "none"
  /\ fetched' = fetched \cup {[order |-> o, status |-> ToOrderStatus(service[o])]}
  /\ UNCHANGED <<status, service, held>>

\* Mutant: an answer is recorded over a final status too.
RecordAlways(a) ==
  /\ a \in fetched
  /\ status' = [status EXCEPT ![a.order] = a.status]
  /\ fetched' \in {fetched, fetched \ {a}}
  /\ held' \in {held, held \ {a.order}}
  /\ UNCHANGED service

Record(a) ==
  /\ a \in fetched
  /\ status' = IF Open(a.order) THEN [status EXCEPT ![a.order] = a.status] ELSE status
  /\ fetched' \in {fetched, fetched \ {a}}
  /\ held' \in {held, held \ {a.order}}
  /\ UNCHANGED service

-----------------------------------------------------------------------------
SyncNext ==
  \/ \E o \in Orders : Upload(o) \/ Calculate(o) \/ Fetch(o)
  \/ \E orders \in SUBSET Orders : List(orders)
  \/ \E a \in fetched : Record(a)
  \/ Forget

SyncSpec == SyncInit /\ [][SyncNext]_syncVars

-----------------------------------------------------------------------------
(* Properties *)

\* What is in memory is an uploaded order, and a final answer in memory is what
\* the accrual service says for ever.
MemoryIsTrue ==
  /\ \A o \in held : status[o] # "none"
  /\ \A a \in fetched :
       /\ status[a.order] # "none" /\ a.status # "NEW"
       /\ service[a.order] # "none"
       /\ IsFinal(a.status) => service[a.order] = a.status

\* A final status is the one the accrual service decided.
FinalAgrees == \A o \in Orders : IsFinal(status[o]) => status[o] = service[o]

\* Although the same order may be in memory twice, and its answers are recorded
\* late and in any order, none changes a final status or takes an order back to
\* NEW, and it becomes final only as the accrual service decided.
StatusAdvances ==
  [][\A o \in Orders : status'[o] # status[o] =>
       \/ status[o] = "none"
       \/ /\ Open(o) /\ status'[o] # "NEW"
          /\ IsFinal(status'[o]) => status'[o] = service[o]]_syncVars
=============================================================================
