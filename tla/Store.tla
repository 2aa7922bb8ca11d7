-------------------------------- MODULE Store --------------------------------
(***************************************************************************)
(* internal/repository/postgres.go: the calls that write, each as the      *)
(* statements it sends to PostgreSQL, interleaved with every other call.   *)
(*                                                                         *)
(* A call is one invocation with its arguments, so two calls with the same *)
(* arguments (a client that repeats a request, two workers with the same   *)
(* order) differ in their id.  pc is how far the call has come; a call at  *)
(* one of Answers has returned.                                            *)
(*                                                                         *)
(* External, modelled from how the code uses it: PostgreSQL.  A            *)
(* transaction reads the snapshot of its first statement.  A row lock      *)
(* (FOR UPDATE, or the one an UPDATE takes) lasts to the end of the        *)
(* transaction, so who holds what follows from pc.  Locking or updating a  *)
(* row that a later commit has changed is a serialization failure (40001)  *)
(* under REPEATABLE READ.  missed[c] is the set of rows changed by commits *)
(* that the snapshot of c does not show.                                   *)
(***************************************************************************)
EXTENDS Schema

CONSTANTS Withdraws,   \* the calls of CreateWithdrawal
          Applies,     \* the calls of ApplyAccrualResult
          Uploads,     \* the calls of CreateOrder
          MaxAttempts  \* retryAttempts

Calls == Withdraws \cup Applies \cup Uploads
Rows == Users \cup Numbers

ASSUME CallsAssumption ==
  /\ Withdraws \subseteq [op : {"withdraw"}, id : Nat, user : Users,
                          number : Numbers, sum : Sums]
  /\ Applies \subseteq [op : {"apply"}, id : Nat, number : Numbers,
                        status : Statuses, accrual : Accruals]
  /\ Uploads \subseteq [op : {"upload"}, id : Nat, user : Users, number : Numbers]

ASSUME AttemptsAssumption == MaxAttempts \in Nat \ {0}

VARIABLES pc, attempt, missed

vars == <<users, orders, withdrawals, pc, attempt, missed>>

InTransaction == {"select", "insert", "debit", "update", "credit", "commit"}
InStatement == {"upload", "found"}
Answers == {"ok", "error", "insufficient", "exists",
            "created", "mine", "other", "norows"}

TypeOK ==
  /\ TablesTypeOK
  /\ pc \in [Calls -> {"idle", "retry"} \cup InTransaction
                       \cup InStatement \cup Answers]
  /\ attempt \in [Calls -> 1 .. MaxAttempts]
  /\ missed \in [Calls -> SUBSET Rows]

Init ==
  /\ TablesInit
  /\ pc = [c \in Calls |-> "idle"]
  /\ attempt = [c \in Calls |-> 1]
  /\ missed = [c \in Calls |-> {}]

-----------------------------------------------------------------------------
(* PostgreSQL *)

Active(c) == pc[c] \in InTransaction

Holds(c, r) ==
  \/ c \in Withdraws /\ pc[c] \in {"insert", "debit", "commit"} /\ r = c.user
  \/ c \in Applies /\ pc[c] \in {"update", "credit", "commit"} /\ r = c.number
  \/ /\ c \in Applies /\ pc[c] = "commit" /\ c.status = "PROCESSED"
     /\ r = orders[c.number].user

\* Mutant: SELECT without FOR UPDATE.
NeverLocked(c, r) == FALSE

LockedByOther(c, r) == \E d \in Calls \ {c} : Holds(d, r)

\* The row can be locked or updated at once.
Granted(c, r) == r \notin missed[c] /\ ~LockedByOther(c, r)

\* The call goes on to its next statement.
Goes(c, next) ==
  /\ pc' = [pc EXCEPT ![c] = next]
  /\ UNCHANGED <<tables, attempt, missed>>

\* The first statement takes the snapshot.
Begins(c, first) ==
  /\ pc[c] \in {"idle", "retry"}
  /\ Goes(c, first)

\* The call returns and its transaction, if it has one, is rolled back.
Returns(c, answer) ==
  /\ pc' = [pc EXCEPT ![c] = answer]
  /\ missed' = [missed EXCEPT ![c] = {}]
  /\ UNCHANGED <<tables, attempt>>

\* Mutant: the attempts are counted and never compared with the limit.
FailureCountedOnly(c, r) ==
  /\ r \in missed[c]
  /\ missed' = [missed EXCEPT ![c] = {}]
  /\ pc' = [pc EXCEPT ![c] = "retry"]
  /\ attempt' = [attempt EXCEPT ![c] = @ + 1]
  /\ UNCHANGED tables

\* Mutant: the attempts are not counted.
FailureNotCounted(c, r) ==
  /\ r \in missed[c]
  /\ missed' = [missed EXCEPT ![c] = {}]
  /\ pc' = [pc EXCEPT ![c] = "retry"]
  /\ UNCHANGED <<tables, attempt>>

\* 40001: rolled back, and withRetry tries again up to its limit.
SerializationFailure(c, r) ==
  /\ r \in missed[c]
  /\ missed' = [missed EXCEPT ![c] = {}]
  /\ IF attempt[c] < MaxAttempts
       THEN /\ pc' = [pc EXCEPT ![c] = "retry"]
            /\ attempt' = [attempt EXCEPT ![c] = @ + 1]
       ELSE /\ pc' = [pc EXCEPT ![c] = "error"]
            /\ UNCHANGED attempt
  /\ UNCHANGED tables

\* Every other open transaction now has a snapshot that lacks these rows.
Revealed(c, rows) ==
  missed' = [d \in Calls |-> IF d # c /\ Active(d) THEN missed[d] \cup rows ELSE {}]

\* The commit took effect, and the caller is told so, or not: the connection
\* may break before the acknowledgement arrives, and that is not retried.
Commits(c, rows) ==
  /\ pc' = [pc EXCEPT ![c] = "ok"] \/ pc' = [pc EXCEPT ![c] = "error"]
  /\ Revealed(c, rows)
  /\ UNCHANGED attempt

\* A lost connection, a cancelled context, any error that is not retried.
Fails(c) ==
  /\ pc[c] \in {"retry"} \cup InTransaction \cup InStatement
  /\ Returns(c, "error")

-----------------------------------------------------------------------------
(* CreateUser: a single INSERT; a login that exists changes nothing. *)

CreateUser(u) ==
  /\ ~Registered(u)
  /\ UserCreated(u)
  /\ UNCHANGED <<pc, attempt, missed>>

-----------------------------------------------------------------------------
(* CreateWithdrawal, called for the user of a token. *)

WithdrawBegin(c) == Registered(c.user) /\ Begins(c, "select")

\* Mutant: the balance is not compared with the sum.
WithdrawLockUnchecked(c) ==
  /\ pc[c] = "select"
  /\ Granted(c, c.user)
  /\ Goes(c, "insert")

\* SELECT current_balance ... FOR UPDATE, and the comparison that follows.
WithdrawLock(c) ==
  /\ pc[c] = "select"
  /\ Granted(c, c.user)
  /\ IF users[c.user].current < c.sum
       THEN Returns(c, "insufficient")
       ELSE Goes(c, "insert")

WithdrawConflict(c) == pc[c] = "select" /\ SerializationFailure(c, c.user)

\* Another transaction has inserted the number and may still commit it.
NumberPending(c) ==
  \E d \in Withdraws \ {c} : pc[d] \in {"debit", "commit"} /\ d.number = c.number

\* The unique index is checked against what is committed, not the snapshot.
WithdrawInsert(c) ==
  /\ pc[c] = "insert"
  /\ ~NumberPending(c)
  /\ IF withdrawals[c.number] # NoRow
       THEN Returns(c, "exists")
       ELSE Goes(c, "debit")

WithdrawDebit(c) ==
  /\ pc[c] = "debit"
  /\ Granted(c, c.user)
  /\ Goes(c, "commit")

WithdrawCommit(c) ==
  /\ pc[c] = "commit"
  /\ WithdrawalCreated(c.user, c.number, c.sum)
  /\ Commits(c, {c.user})

CreateWithdrawal(c) ==
  \/ WithdrawBegin(c) \/ WithdrawLock(c) \/ WithdrawConflict(c)
  \/ WithdrawInsert(c) \/ WithdrawDebit(c) \/ WithdrawCommit(c)

-----------------------------------------------------------------------------
(* ApplyAccrualResult, called for an order that a list returned. *)

ApplyBegin(c) == Uploaded(c.number) /\ Begins(c, "select")

\* Mutant: the early return for a final status is missing.
ApplyLockUnchecked(c) ==
  /\ pc[c] = "select"
  /\ Granted(c, c.number)
  /\ Goes(c, "update")

\* SELECT user_id, status ... FOR UPDATE, and the test for a final status.
ApplyLock(c) ==
  /\ pc[c] = "select"
  /\ Granted(c, c.number)
  /\ IF IsFinal(orders[c.number].status)
       THEN Returns(c, "ok")
       ELSE Goes(c, "update")

ApplyUpdate(c) ==
  /\ pc[c] = "update"
  /\ Granted(c, c.number)
  /\ Goes(c, IF c.status = "PROCESSED" THEN "credit" ELSE "commit")

ApplyCredit(c) ==
  /\ pc[c] = "credit"
  /\ Granted(c, orders[c.number].user)
  /\ Goes(c, "commit")

ApplyConflict(c) ==
  \/ pc[c] = "select" /\ SerializationFailure(c, c.number)
  \/ pc[c] = "credit" /\ SerializationFailure(c, orders[c.number].user)

ApplyCommit(c) ==
  /\ pc[c] = "commit"
  /\ AccrualApplied(c.number, c.status, c.accrual)
  /\ Commits(c, {c.number} \cup
                IF c.status = "PROCESSED" THEN {orders[c.number].user} ELSE {})

ApplyAccrualResult(c) ==
  \/ ApplyBegin(c) \/ ApplyLock(c) \/ ApplyUpdate(c) \/ ApplyCredit(c)
  \/ ApplyConflict(c) \/ ApplyCommit(c)

-----------------------------------------------------------------------------
(* CreateOrder: one statement, INSERT ... ON CONFLICT DO NOTHING and a     *)
(* SELECT of the same number.  The insert looks at what is committed, the  *)
(* SELECT at the snapshot taken when the statement began: "found" says     *)
(* that this snapshot has the order.                                       *)

UploadBegin(c) ==
  /\ Registered(c.user)
  /\ Begins(c, IF Uploaded(c.number) THEN "found" ELSE "upload")

UploadFound(c) ==
  /\ pc[c] = "found"
  /\ Returns(c, IF orders[c.number].user = c.user THEN "mine" ELSE "other")

\* The foreign key locks the user FOR KEY SHARE, which only the FOR UPDATE of
\* a withdrawal excludes.
LockedByWithdrawal(u) == \E d \in Withdraws : Holds(d, u)

\* Mutant: ON CONFLICT DO UPDATE, the number goes to whoever comes last.
UploadReplaces(c) ==
  /\ pc[c] = "upload"
  /\ ~LockedByWithdrawal(c.user)
  /\ OrderCreated(c.user, c.number)
  /\ pc' = [pc EXCEPT ![c] = "created"] \/ pc' = [pc EXCEPT ![c] = "error"]
  /\ UNCHANGED <<attempt, missed>>

UploadInsert(c) ==
  /\ pc[c] = "upload"
  /\ ~Uploaded(c.number)
  /\ ~LockedByWithdrawal(c.user)
  /\ OrderCreated(c.user, c.number)
  /\ pc' = [pc EXCEPT ![c] = "created"] \/ pc' = [pc EXCEPT ![c] = "error"]
  /\ UNCHANGED <<attempt, missed>>

\* Inserted by another call after the snapshot: DO NOTHING returns no row, and
\* neither does the SELECT (sql.ErrNoRows).
UploadNotSeen(c) ==
  /\ pc[c] = "upload"
  /\ Uploaded(c.number)
  /\ Returns(c, "norows")

CreateOrder(c) ==
  UploadBegin(c) \/ UploadInsert(c) \/ UploadFound(c) \/ UploadNotSeen(c)

-----------------------------------------------------------------------------
(* ListOrdersForProcessing: sets updated_at of some orders that are not    *)
(* final and that no transaction has locked (SKIP LOCKED).  Which ones, up *)
(* to a limit and oldest first, is the concern of AccrualProcessor; here   *)
(* any may be touched.  Its transaction waits for nothing and its locks    *)
(* can only delay an ApplyAccrualResult, so it is one step.                *)

ListOrdersForProcessing(batch) ==
  /\ batch # {}
  /\ \A n \in batch : /\ Uploaded(n) /\ ~IsFinal(orders[n].status)
                      /\ \A d \in Calls : ~Holds(d, n)
  /\ missed' = [d \in Calls |-> IF Active(d) THEN missed[d] \cup batch ELSE {}]
  /\ UNCHANGED <<tables, pc, attempt>>

-----------------------------------------------------------------------------
CallStep(c) ==
  \/ c \in Withdraws /\ CreateWithdrawal(c)
  \/ c \in Applies /\ ApplyAccrualResult(c)
  \/ c \in Uploads /\ CreateOrder(c)

Next ==
  \/ \E u \in Users : CreateUser(u)
  \/ \E c \in Withdraws : CreateWithdrawal(c)
  \/ \E c \in Applies : ApplyAccrualResult(c)
  \/ \E c \in Uploads : CreateOrder(c)
  \/ \E c \in Calls : Fails(c)
  \/ \E batch \in SUBSET Numbers : ListOrdersForProcessing(batch)

Spec == Init /\ [][Next]_vars

\* A call that has begun runs on: goroutines and database sessions are
\* scheduled, a free lock is granted.  Nothing obliges a call to be made, and
\* nothing obliges a failure.
Started(c) == pc[c] # "idle"

Fairness == \A c \in Calls : WF_vars(Started(c) /\ CallStep(c))

FairSpec == Spec /\ Fairness

-----------------------------------------------------------------------------
(* What the repository promises, and the parts of the invariant behind it. *)

\* A row is locked by one transaction at a time.
LocksExclude ==
  \A c, d \in Calls, r \in Rows : Holds(c, r) /\ Holds(d, r) => c = d

\* What a transaction has locked is what its snapshot shows, so no later
\* statement on that row can fail to serialize.
LockedRowIsCurrent == \A c \in Calls, r \in Rows : Holds(c, r) => r \notin missed[c]

\* The balance that was compared with the sum still suffices when it is
\* debited, whatever committed in between.
CheckedBalanceStays ==
  \A c \in Withdraws : pc[c] \in {"insert", "debit", "commit"} =>
    Registered(c.user) /\ users[c.user].current >= c.sum

\* Between its INSERT and its commit a withdrawal is alone with its number.
InsertedNumberIsFree ==
  \A c \in Withdraws : pc[c] \in {"debit", "commit"} =>
    withdrawals[c.number] = NoRow /\ ~NumberPending(c)

\* An order that was not final when ApplyAccrualResult locked it is not final
\* when the result is committed: of two workers that hold the same order, the
\* second finds it final.
CheckedOrderStaysOpen ==
  \A c \in Applies : pc[c] \in {"update", "credit", "commit"} =>
    Uploaded(c.number) /\ ~IsFinal(orders[c.number].status)

\* A call is at a statement of its own operation, its row exists since it
\* began, and every order has its user.
CallsAtTheirRows ==
  /\ \A c \in Withdraws :
       /\ pc[c] \in {"idle", "retry", "select", "insert", "debit", "commit",
                    "ok", "error", "insufficient", "exists"}
       /\ pc[c] # "idle" => Registered(c.user)
  /\ \A c \in Applies :
       /\ pc[c] \in {"idle", "retry", "select", "update", "credit", "commit",
                    "ok", "error"}
       /\ pc[c] # "idle" => Uploaded(c.number)
       /\ pc[c] = "credit" => c.status = "PROCESSED"
  /\ \A c \in Uploads :
       /\ pc[c] \in {"idle", "upload", "found", "created", "mine", "other",
                    "norows", "error"}
       /\ pc[c] # "idle" => Registered(c.user)
       /\ pc[c] = "found" => Uploaded(c.number)
  /\ \A n \in Numbers : Uploaded(n) => Registered(orders[n].user)

\* What the callers were told stays true: a withdrawal answered 200 is on
\* record and is the only one of its number so answered; a number answered
\* "already used" is used; an upload was accepted from one user at most, and
\* the others were told whose it is; a final result that was applied left the
\* order final.
AnswersAreTrue ==
  /\ \A c \in Withdraws :
       /\ pc[c] = "ok" =>
            /\ withdrawals[c.number] = [user |-> c.user, sum |-> c.sum]
            /\ \A d \in Withdraws \ {c} : d.number = c.number => pc[d] # "ok"
       /\ pc[c] = "exists" => withdrawals[c.number] # NoRow
  /\ \A c \in Uploads :
       /\ pc[c] = "created" =>
            \A d \in Uploads \ {c} : d.number = c.number => pc[d] # "created"
       /\ pc[c] \in {"created", "mine", "other"} => Uploaded(c.number)
       /\ pc[c] \in {"created", "mine"} => orders[c.number].user = c.user
       /\ pc[c] = "other" => orders[c.number].user # c.user
  /\ \A c \in Applies :
       pc[c] = "ok" /\ IsFinal(c.status) => IsFinal(orders[c.number].status)

\* The inductive invariant: what a transaction has checked holds until it
\* commits, because nobody else gets a lock it holds.
Inv ==
  /\ TypeOK
  /\ CallsAtTheirRows
  /\ LocksExclude
  /\ LockedRowIsCurrent
  /\ CheckedBalanceStays
  /\ InsertedNumberIsFree
  /\ CheckedOrderStaysOpen

\* The repository is a Ledger: each commit is one step of it, every other step
\* none.
L == INSTANCE Ledger
LedgerSpec == L!Spec
Conservation == L!Conservation
NonNegative == L!NonNegative
FinalIsForever == L!FinalIsForever
BalanceMovesWithItsRow == L!BalanceMovesWithItsRow

\* No call hangs: locks are released, waiting calls do not wait for each other
\* in a circle, and retries end.
EveryCallAnswers == \A c \in Calls : Started(c) ~> pc[c] \in Answers

\* README.md, POST /api/user/orders: an upload of a number that is already
\* there answers 200 to its owner and 409 to others, so the repository always
\* finds out whose it is.
UploadIsDecided == \A c \in Uploads : pc[c] # "norows"
=============================================================================
