----------------------------- MODULE SyncProofs -----------------------------
(***************************************************************************)
(* Theorems about Sync, for any set of orders and whatever the accrual     *)
(* service may say.  SyncInv is inductive.  It is proved action by action, *)
(* so that Lifecycle, whose steps are steps of Sync or none, can use it.   *)
(***************************************************************************)
EXTENDS Sync, TLAPS

\* What is in memory is true, and so are the final statuses.
SyncInv == SyncTypeOK /\ MemoryIsTrue /\ FinalAgrees

\* What one step does to the statuses.
Advances ==
  \A o \in Orders : status'[o] # status[o] =>
    \/ status[o] = "none"
    \/ /\ Open(o) /\ status'[o] # "NEW"
       /\ IsFinal(status'[o]) => status'[o] = service[o]

-----------------------------------------------------------------------------
\* An answer of the accrual service is never NEW, and final only if its own
\* status is.
LEMMA AnswerMeansService ==
  ASSUME NEW s \in AccrualStatuses
  PROVE  /\ ToOrderStatus(s) \in OrderStatuses \ {"NEW"}
         /\ IsFinal(ToOrderStatus(s)) => s = ToOrderStatus(s)
BY StatusesAssumption DEF ToOrderStatus, OrderStatuses, IsFinal

\* The accrual service does not change its mind about a final status.
LEMMA FinalIsLast ==
  ASSUME NEW s \in {"none"} \cup AccrualStatuses, NEW t \in Later(s)
  PROVE  t \in AccrualStatuses /\ t # "none" /\ ~IsFinal(s)
BY StatusesAssumption DEF Later, IsFinal

LEMMA SyncInitInv == SyncInit => SyncInv
BY DEF SyncInit, SyncInv, SyncTypeOK, MemoryIsTrue, FinalAgrees, IsFinal

-----------------------------------------------------------------------------
(* Every action keeps SyncInv. *)

LEMMA UploadInv ==
  ASSUME SyncInv, NEW o \in Orders, Upload(o)
  PROVE  SyncInv'
<1> USE DEF SyncInv, Upload, memory
<1>1. SyncTypeOK'
  BY DEF SyncTypeOK, OrderStatuses
<1>2. MemoryIsTrue'
  BY DEF SyncTypeOK, MemoryIsTrue, Answers
<1>3. FinalAgrees'
  BY DEF SyncTypeOK, FinalAgrees, IsFinal
<1> QED
  BY <1>1, <1>2, <1>3

LEMMA CalculateInv ==
  ASSUME SyncInv, NEW o \in Orders, Calculate(o)
  PROVE  SyncInv'
<1> USE DEF SyncInv, memory
<1>1. PICK t \in Later(service[o]) : service' = [service EXCEPT ![o] = t]
  BY DEF Calculate
<1>2. UNCHANGED <<status, held, fetched>>
  BY DEF Calculate
<1>3. t \in AccrualStatuses /\ t # "none" /\ ~IsFinal(service[o])
  BY <1>1, FinalIsLast DEF SyncTypeOK
<1>4. SyncTypeOK'
  BY <1>1, <1>2, <1>3 DEF SyncTypeOK
<1>5. MemoryIsTrue'
  BY <1>1, <1>2, <1>3 DEF SyncTypeOK, MemoryIsTrue, Answers
<1>6. FinalAgrees'
  BY <1>1, <1>2, <1>3 DEF SyncTypeOK, FinalAgrees
<1> QED
  BY <1>4, <1>5, <1>6

LEMMA ListInv ==
  ASSUME SyncInv, NEW orders \in SUBSET Orders, List(orders)
  PROVE  SyncInv'
<1> USE DEF SyncInv, List
<1>1. SyncTypeOK'
  BY DEF SyncTypeOK
<1>2. MemoryIsTrue'
  BY DEF MemoryIsTrue, Open
<1>3. FinalAgrees'
  BY DEF FinalAgrees
<1> QED
  BY <1>1, <1>2, <1>3

LEMMA ForgetInv == SyncInv /\ Forget => SyncInv'
BY DEF SyncInv, Forget, SyncTypeOK, MemoryIsTrue, FinalAgrees

LEMMA FetchInv ==
  ASSUME SyncInv, NEW o \in Orders, Fetch(o)
  PROVE  SyncInv'
<1> USE DEF SyncInv, Fetch
<1> DEFINE a == [order |-> o, status |-> ToOrderStatus(service[o])]
<1>1. service[o] \in AccrualStatuses
  BY DEF SyncTypeOK
<1>2. a \in Answers /\ a.status # "NEW" /\ (IsFinal(a.status) => service[o] = a.status)
  BY <1>1, AnswerMeansService DEF Answers
<1>3. SyncTypeOK'
  BY <1>2 DEF SyncTypeOK
<1>4. MemoryIsTrue'
  BY <1>2 DEF SyncTypeOK, MemoryIsTrue
<1>5. FinalAgrees'
  BY DEF FinalAgrees
<1> QED
  BY <1>3, <1>4, <1>5

LEMMA RecordInv ==
  ASSUME SyncInv, NEW a \in fetched, Record(a)
  PROVE  SyncInv'
<1> USE DEF SyncInv, Record
<1>1. /\ a \in Answers /\ a.order \in Orders /\ a.status \in OrderStatuses
      /\ a.status # "none"
  BY DEF SyncTypeOK, Answers, OrderStatuses
<1>2. SyncTypeOK'
  BY <1>1 DEF SyncTypeOK
<1>3. \A o \in Orders : status[o] # "none" => status'[o] # "none"
  BY <1>1 DEF SyncTypeOK
<1>4. held' \subseteq held /\ fetched' \subseteq fetched /\ service' = service
  OBVIOUS
<1>5. MemoryIsTrue'
  BY <1>3, <1>4 DEF MemoryIsTrue, SyncTypeOK, Answers
<1>6. FinalAgrees'
  BY <1>1 DEF FinalAgrees, MemoryIsTrue, SyncTypeOK
<1> QED
  BY <1>2, <1>5, <1>6

LEMMA SyncNextInv == SyncInv /\ [SyncNext]_syncVars => SyncInv'
<1>1. ASSUME SyncInv, UNCHANGED syncVars PROVE SyncInv'
  BY <1>1 DEF syncVars, SyncInv, SyncTypeOK, MemoryIsTrue, FinalAgrees
<1> QED
  BY <1>1, UploadInv, CalculateInv, ListInv, ForgetInv, FetchInv, RecordInv
  DEF SyncNext

\* The invariant: what is in memory is true, and so are the final statuses.
THEOREM SyncInvHolds == SyncSpec => []SyncInv
BY SyncInitInv, SyncNextInv, PTL DEF SyncSpec

\* A status that is final is the one that the accrual service decided.
THEOREM FinalAgreesHolds == SyncSpec => []FinalAgrees
<1>1. SyncInv => FinalAgrees
  BY DEF SyncInv
<1> QED
  BY <1>1, SyncInvHolds, PTL

-----------------------------------------------------------------------------
\* Only an upload and a record change a status.
LEMMA StepAdvances == SyncInv /\ [SyncNext]_syncVars => Advances
<1> SUFFICES ASSUME SyncInv, [SyncNext]_syncVars PROVE Advances
  OBVIOUS
<1>1. CASE status' = status
  BY <1>1 DEF Advances
<1>2. ASSUME NEW o \in Orders, Upload(o) PROVE Advances
  BY <1>2 DEF Upload, Advances, SyncInv, SyncTypeOK
<1>3. ASSUME NEW a \in fetched, Record(a) PROVE Advances
  <2>1. /\ a.order \in Orders /\ a.status # "NEW"
        /\ IsFinal(a.status) => service[a.order] = a.status
    BY DEF SyncInv, SyncTypeOK, MemoryIsTrue, Answers
  <2> QED
    BY <1>3, <2>1 DEF Record, Advances, SyncInv, SyncTypeOK
<1> QED
  BY <1>1, <1>2, <1>3 DEF SyncNext, Calculate, Fetch, List, Forget, syncVars

\* An uploaded order stays uploaded.
LEMMA UploadedStays ==
  ASSUME SyncInv, [SyncNext]_syncVars, NEW o \in Orders, status[o] # "none"
  PROVE  status'[o] # "none"
<1>1. CASE status' = status
  BY <1>1
<1>2. ASSUME NEW p \in Orders, Upload(p) PROVE status'[o] # "none"
  BY <1>2 DEF Upload, SyncInv, SyncTypeOK
<1>3. ASSUME NEW a \in fetched, Record(a) PROVE status'[o] # "none"
  <2>1. a.status # "none"
    BY DEF SyncInv, SyncTypeOK, Answers, OrderStatuses
  <2> QED
    BY <1>3, <2>1 DEF Record, SyncInv, SyncTypeOK
<1> QED
  BY <1>1, <1>2, <1>3 DEF SyncNext, Calculate, Fetch, List, Forget, syncVars

\* However late and in whatever order answers are recorded, a status advances,
\* and becomes final only as the accrual service decided.
THEOREM StatusAdvancesHolds == SyncSpec => StatusAdvances
<1>1. SyncInv /\ [SyncNext]_syncVars
        => [\A o \in Orders : status'[o] # status[o] =>
              \/ status[o] = "none"
              \/ /\ Open(o) /\ status'[o] # "NEW"
                 /\ IsFinal(status'[o]) => status'[o] = service[o]]_syncVars
  BY StepAdvances DEF Advances
<1> QED
  BY <1>1, SyncInvHolds, PTL DEF SyncSpec, StatusAdvances
=============================================================================
