----------------------------- MODULE StoreProofs -----------------------------
(***************************************************************************)
(* Theorems about Store, for any sets of users, order numbers, amounts and *)
(* calls and any number of attempts.  Inv is inductive (NextInv); the      *)
(* guards of Ledger's actions follow from it at each commit (StepSimulated)*)
(* and so do the action properties.  AnswersKept adds what the callers     *)
(* were told.                                                              *)
(***************************************************************************)
EXTENDS Store, TLAPS

-----------------------------------------------------------------------------
(* Facts about the constants *)

\* The arguments of a call; the operation in its record keeps the three sets
\* of calls apart.
LEMMA CallTypes ==
  /\ \A c \in Withdraws : /\ c \in Calls /\ c \notin Applies /\ c \notin Uploads
                          /\ c.user \in Users /\ c.number \in Numbers
                          /\ c.sum \in Sums /\ c.sum \in Int /\ c.sum > 0
  /\ \A c \in Applies : /\ c \in Calls /\ c \notin Withdraws /\ c \notin Uploads
                        /\ c.number \in Numbers
                        /\ c.status \in Statuses /\ c.accrual \in Accruals
                        /\ AccrualValue(c.accrual) \in Int
                        /\ AccrualValue(c.accrual) >= 0
  /\ \A c \in Uploads : /\ c \in Calls /\ c \notin Withdraws /\ c \notin Applies
                        /\ c.user \in Users /\ c.number \in Numbers
<1>1. /\ \A c \in Withdraws : c.op = "withdraw"
      /\ \A c \in Applies : c.op = "apply"
      /\ \A c \in Uploads : c.op = "upload"
  BY CallsAssumption
<1>2. ASSUME NEW c \in Withdraws
      PROVE  /\ c \in Calls /\ c \notin Applies /\ c \notin Uploads
             /\ c.user \in Users /\ c.number \in Numbers
             /\ c.sum \in Sums /\ c.sum \in Int /\ c.sum > 0
  <2>1. c.user \in Users /\ c.number \in Numbers /\ c.sum \in Sums
    BY CallsAssumption
  <2>2. \A sum \in Sums : sum \in Int /\ sum > 0
    BY AmountsAssumption DEF Sums
  <2> QED
    BY <1>1, <2>1, <2>2 DEF Calls
<1>3. ASSUME NEW c \in Applies
      PROVE  /\ c \in Calls /\ c \notin Withdraws /\ c \notin Uploads
             /\ c.number \in Numbers
             /\ c.status \in Statuses /\ c.accrual \in Accruals
             /\ AccrualValue(c.accrual) \in Int
             /\ AccrualValue(c.accrual) >= 0
  <2>1. c.number \in Numbers /\ c.status \in Statuses /\ c.accrual \in Accruals
    BY CallsAssumption
  <2>2. \A a \in Accruals : AccrualValue(a) \in Int /\ AccrualValue(a) >= 0
    BY AmountsAssumption DEF Accruals, AccrualValue
  <2> QED
    BY <1>1, <2>1, <2>2 DEF Calls
<1>4. ASSUME NEW c \in Uploads
      PROVE  /\ c \in Calls /\ c \notin Withdraws /\ c \notin Applies
             /\ c.user \in Users /\ c.number \in Numbers
  <2>1. c.user \in Users /\ c.number \in Numbers
    BY CallsAssumption
  <2> QED
    BY <1>1, <2>1 DEF Calls
<1> QED
  BY <1>2, <1>3, <1>4

\* Moving an amount keeps a user row a user row.
LEMMA RowsAddUp ==
  ASSUME NEW row \in UserRow, NEW amount \in Int
  PROVE  /\ Credited(row, amount) \in UserRow
         /\ Credited(row, amount).current = row.current + amount
         /\ Debited(row, amount) \in UserRow
         /\ Debited(row, amount).current = row.current - amount
BY DEF UserRow, Credited, Debited

\* A null is not a row.
LEMMA RowIsNotNull ==
  /\ \A row \in UserRow : row # NoRow
  /\ \A row \in OrderRow : row # NoRow
  /\ \A row \in WithdrawalRow : row # NoRow
BY NullsAssumption

-----------------------------------------------------------------------------
(* The invariant holds initially, and every action keeps it. *)

\* Nothing is registered, uploaded or locked when the tables are empty.
LEMMA InitInv == Init => Inv
<1> SUFFICES ASSUME Init PROVE Inv
  OBVIOUS
<1>1. TypeOK
  BY AttemptsAssumption DEF Init, TablesInit, TypeOK, TablesTypeOK
<1>2. \A c \in Calls : pc[c] = "idle"
  BY DEF Init
<1>3. \A n \in Numbers : ~Uploaded(n)
  BY DEF Init, TablesInit, Uploaded
<1> QED
  BY <1>1, <1>2, <1>3, CallTypes
  DEF Inv, CallsAtTheirRows, LocksExclude, LockedRowIsCurrent, Holds,
      CheckedBalanceStays, InsertedNumberIsFree, CheckedOrderStaysOpen

\* A new user has no rows and no locks.
LEMMA CreateUserInv ==
  ASSUME Inv, NEW u \in Users, CreateUser(u)
  PROVE  Inv'
<1> USE CallTypes DEF Inv, TypeOK, TablesTypeOK, CreateUser, UserCreated, UserRow
<1>1. TypeOK'
  BY DEF InTransaction, InStatement, Answers
<1>2. CallsAtTheirRows'
  BY DEF CallsAtTheirRows, Registered, Uploaded
<1>3. LocksExclude'
  BY DEF LocksExclude, Holds, Granted, LockedByOther, Rows
<1>4. LockedRowIsCurrent'
  BY DEF LockedRowIsCurrent, Holds, Granted
<1>5. CheckedBalanceStays'
  BY DEF CheckedBalanceStays, Registered, CallsAtTheirRows, UserRow
<1>6. InsertedNumberIsFree'
  BY DEF InsertedNumberIsFree, NumberPending
<1>7. CheckedOrderStaysOpen'
  BY DEF CheckedOrderStaysOpen, Uploaded
<1> QED
  BY <1>1, <1>2, <1>3, <1>4, <1>5, <1>6, <1>7

\* Taking a snapshot locks nothing.
LEMMA WithdrawBeginInv ==
  ASSUME Inv, NEW c \in Withdraws, WithdrawBegin(c)
  PROVE  Inv'
<1> USE CallTypes DEF Inv, TypeOK, TablesTypeOK, WithdrawBegin, Begins, Goes, tables
<1>1. TypeOK'
  BY DEF InTransaction, InStatement, Answers
<1>2. CallsAtTheirRows'
  BY DEF CallsAtTheirRows, Registered, Uploaded
<1>3. LocksExclude'
  BY DEF LocksExclude, Holds, Granted, LockedByOther, Rows
<1>4. LockedRowIsCurrent'
  BY DEF LockedRowIsCurrent, Holds, Granted
<1>5. CheckedBalanceStays'
  BY DEF CheckedBalanceStays, Registered, CallsAtTheirRows, UserRow
<1>6. InsertedNumberIsFree'
  BY DEF InsertedNumberIsFree, NumberPending
<1>7. CheckedOrderStaysOpen'
  BY DEF CheckedOrderStaysOpen, Uploaded
<1> QED
  BY <1>1, <1>2, <1>3, <1>4, <1>5, <1>6, <1>7

\* The lock is granted on a row that is free and current, and the balance read
\* under it is the committed one.
LEMMA WithdrawLockInv ==
  ASSUME Inv, NEW c \in Withdraws, WithdrawLock(c)
  PROVE  Inv'
<1> USE CallTypes DEF Inv, TypeOK, TablesTypeOK, WithdrawLock, Goes, Returns, tables
<1>1. TypeOK'
  BY DEF InTransaction, InStatement, Answers
<1>2. CallsAtTheirRows'
  BY DEF CallsAtTheirRows, Registered, Uploaded
<1>3. LocksExclude'
  BY DEF LocksExclude, Holds, Granted, LockedByOther, Rows
<1>4. LockedRowIsCurrent'
  BY DEF LockedRowIsCurrent, Holds, Granted
<1>5. CheckedBalanceStays'
  BY DEF CheckedBalanceStays, Registered, CallsAtTheirRows, UserRow
<1>6. InsertedNumberIsFree'
  BY DEF InsertedNumberIsFree, NumberPending
<1>7. CheckedOrderStaysOpen'
  BY DEF CheckedOrderStaysOpen, Uploaded
<1> QED
  BY <1>1, <1>2, <1>3, <1>4, <1>5, <1>6, <1>7

\* A serialization failure leaves no lock behind.
LEMMA WithdrawConflictInv ==
  ASSUME Inv, NEW c \in Withdraws, WithdrawConflict(c)
  PROVE  Inv'
<1> USE CallTypes DEF Inv, TypeOK, TablesTypeOK, WithdrawConflict, SerializationFailure, tables
<1>1. TypeOK'
  <2>1. missed' \in [Calls -> SUBSET Rows]
    OBVIOUS
  <2>2. attempt' \in [Calls -> 1 .. MaxAttempts]
    BY AttemptsAssumption
  <2>3. /\ pc' = [pc EXCEPT ![c] = "retry"] \/ pc' = [pc EXCEPT ![c] = "error"]
        /\ UNCHANGED <<users, orders, withdrawals>>
    OBVIOUS
  <2> QED
    BY <2>1, <2>2, <2>3 DEF InTransaction, InStatement, Answers
<1>2. CallsAtTheirRows'
  BY DEF CallsAtTheirRows, Registered, Uploaded
<1>3. LocksExclude'
  BY DEF LocksExclude, Holds, Granted, LockedByOther, Rows
<1>4. LockedRowIsCurrent'
  BY DEF LockedRowIsCurrent, Holds, Granted
<1>5. CheckedBalanceStays'
  BY DEF CheckedBalanceStays, Registered, CallsAtTheirRows, UserRow
<1>6. InsertedNumberIsFree'
  BY DEF InsertedNumberIsFree, NumberPending
<1>7. CheckedOrderStaysOpen'
  BY DEF CheckedOrderStaysOpen, Uploaded
<1> QED
  BY <1>1, <1>2, <1>3, <1>4, <1>5, <1>6, <1>7

\* The INSERT succeeds only with a number that nobody has or is about to have.
LEMMA WithdrawInsertInv ==
  ASSUME Inv, NEW c \in Withdraws, WithdrawInsert(c)
  PROVE  Inv'
<1> USE CallTypes DEF Inv, TypeOK, TablesTypeOK, WithdrawInsert, Goes, Returns, tables
<1>1. TypeOK'
  BY DEF InTransaction, InStatement, Answers
<1>2. CallsAtTheirRows'
  BY DEF CallsAtTheirRows, Registered, Uploaded
<1>3. LocksExclude'
  BY DEF LocksExclude, Holds, Granted, LockedByOther, Rows
<1>4. LockedRowIsCurrent'
  BY DEF LockedRowIsCurrent, Holds, Granted
<1>5. CheckedBalanceStays'
  BY DEF CheckedBalanceStays, Registered, CallsAtTheirRows, UserRow
<1>6. InsertedNumberIsFree'
  BY DEF InsertedNumberIsFree, NumberPending
<1>7. CheckedOrderStaysOpen'
  BY DEF CheckedOrderStaysOpen, Uploaded
<1> QED
  BY <1>1, <1>2, <1>3, <1>4, <1>5, <1>6, <1>7

\* The UPDATE needs no lock that the SELECT did not take.
LEMMA WithdrawDebitInv ==
  ASSUME Inv, NEW c \in Withdraws, WithdrawDebit(c)
  PROVE  Inv'
<1> USE CallTypes DEF Inv, TypeOK, TablesTypeOK, WithdrawDebit, Goes, tables
<1>1. TypeOK'
  BY DEF InTransaction, InStatement, Answers
<1>2. CallsAtTheirRows'
  BY DEF CallsAtTheirRows, Registered, Uploaded
<1>3. LocksExclude'
  BY DEF LocksExclude, Holds, Granted, LockedByOther, Rows
<1>4. LockedRowIsCurrent'
  BY DEF LockedRowIsCurrent, Holds, Granted
<1>5. CheckedBalanceStays'
  BY DEF CheckedBalanceStays, Registered, CallsAtTheirRows, UserRow
<1>6. InsertedNumberIsFree'
  BY DEF InsertedNumberIsFree, NumberPending
<1>7. CheckedOrderStaysOpen'
  BY DEF CheckedOrderStaysOpen, Uploaded
<1> QED
  BY <1>1, <1>2, <1>3, <1>4, <1>5, <1>6, <1>7

\* A commit changes a row only its own transaction had locked, so no other check
\* is undone.
LEMMA WithdrawCommitInv ==
  ASSUME Inv, NEW c \in Withdraws, WithdrawCommit(c)
  PROVE  Inv'
<1> USE CallTypes DEF Inv, TypeOK, TablesTypeOK, WithdrawCommit, WithdrawalCreated, Commits, Revealed, Debited
<1>a. /\ c \in Calls /\ c.user \in Users /\ c.number \in Numbers
      /\ users[c.user] # NoRow /\ users[c.user] \in UserRow
  BY DEF CheckedBalanceStays, Registered
<1>b. /\ Debited(users[c.user], c.sum) \in UserRow
      /\ Debited(users[c.user], c.sum) # NoRow
  BY <1>a, RowsAddUp, RowIsNotNull
<1>c. /\ users' = [users EXCEPT ![c.user] = Debited(users[c.user], c.sum)]
      /\ withdrawals' = [withdrawals EXCEPT ![c.number] = [user |-> c.user, sum |-> c.sum]]
      /\ UNCHANGED <<orders, attempt>>
      /\ pc' = [pc EXCEPT ![c] = "ok"] \/ pc' = [pc EXCEPT ![c] = "error"]
  BY DEF WithdrawalCreated
<1>d. Holds(c, c.user)
  BY DEF Holds
<1>1. TypeOK'
  <2>1. users' \in [Users -> UserRow \cup {NoRow}]
    BY <1>a, <1>b, <1>c
  <2>2. [user |-> c.user, sum |-> c.sum] \in WithdrawalRow
    BY DEF WithdrawalRow
  <2>3. withdrawals' \in [Numbers -> WithdrawalRow \cup {NoRow}]
    BY <1>c, <2>2
  <2>4. missed' \in [Calls -> SUBSET Rows]
    BY <1>a DEF Rows
  <2> QED
    BY <1>c, <2>1, <2>3, <2>4 DEF InTransaction, InStatement, Answers
<1>2. CallsAtTheirRows'
  <2>1. \A u \in Users : users[u] # NoRow => users'[u] # NoRow
    BY <1>a, <1>b, <1>c
  <2> QED
    BY <1>a, <1>c, <2>1 DEF CallsAtTheirRows, Registered, Uploaded, TablesTypeOK, OrderRow
<1>3. LocksExclude'
  BY DEF LocksExclude, Holds, Granted, LockedByOther, Rows
<1>4. LockedRowIsCurrent'
  <2> SUFFICES ASSUME NEW d \in Calls, NEW r \in Rows, Holds(d, r)'
               PROVE  r \notin missed'[d]
    BY DEF LockedRowIsCurrent
  <2>1. d # c /\ Holds(d, r)
    BY <1>a, <1>c DEF Holds
  <2>2. r # c.user
    BY <1>a, <1>d, <2>1 DEF LocksExclude
  <2> QED
    BY <2>1, <2>2 DEF LockedRowIsCurrent
<1>5. CheckedBalanceStays'
  <2> SUFFICES ASSUME NEW d \in Withdraws, pc'[d] \in {"insert", "debit", "commit"}
               PROVE  users'[d.user] # NoRow /\ users'[d.user].current >= d.sum
    BY DEF CheckedBalanceStays, Registered
  <2>1. d # c /\ pc[d] \in {"insert", "debit", "commit"}
    BY <1>a, <1>c
  <2>2. d.user # c.user
    BY <1>a, <1>d, <2>1 DEF LocksExclude, Holds, Rows
  <2>3. users'[d.user] = users[d.user]
    BY <1>a, <1>c, <2>2
  <2> QED
    BY <2>1, <2>3 DEF CheckedBalanceStays, Registered
<1>6. InsertedNumberIsFree'
  BY DEF InsertedNumberIsFree, NumberPending
<1>7. CheckedOrderStaysOpen'
  BY DEF CheckedOrderStaysOpen, Uploaded
<1> QED
  BY <1>1, <1>2, <1>3, <1>4, <1>5, <1>6, <1>7

\* Taking a snapshot locks nothing.
LEMMA ApplyBeginInv ==
  ASSUME Inv, NEW c \in Applies, ApplyBegin(c)
  PROVE  Inv'
<1> USE CallTypes DEF Inv, TypeOK, TablesTypeOK, ApplyBegin, Begins, Goes, tables
<1>1. TypeOK'
  BY DEF InTransaction, InStatement, Answers
<1>2. CallsAtTheirRows'
  BY DEF CallsAtTheirRows, Registered, Uploaded
<1>3. LocksExclude'
  BY DEF LocksExclude, Holds, Granted, LockedByOther, Rows
<1>4. LockedRowIsCurrent'
  BY DEF LockedRowIsCurrent, Holds, Granted
<1>5. CheckedBalanceStays'
  BY DEF CheckedBalanceStays, Registered, CallsAtTheirRows, UserRow
<1>6. InsertedNumberIsFree'
  BY DEF InsertedNumberIsFree, NumberPending
<1>7. CheckedOrderStaysOpen'
  BY DEF CheckedOrderStaysOpen, Uploaded
<1> QED
  BY <1>1, <1>2, <1>3, <1>4, <1>5, <1>6, <1>7

\* The lock is granted on an order that is free, current and not final.
LEMMA ApplyLockInv ==
  ASSUME Inv, NEW c \in Applies, ApplyLock(c)
  PROVE  Inv'
<1> USE CallTypes DEF Inv, TypeOK, TablesTypeOK, ApplyLock, Goes, Returns, tables
<1>1. TypeOK'
  BY DEF InTransaction, InStatement, Answers
<1>2. CallsAtTheirRows'
  BY DEF CallsAtTheirRows, Registered, Uploaded
<1>3. LocksExclude'
  BY DEF LocksExclude, Holds, Granted, LockedByOther, Rows
<1>4. LockedRowIsCurrent'
  BY DEF LockedRowIsCurrent, Holds, Granted
<1>5. CheckedBalanceStays'
  BY DEF CheckedBalanceStays, Registered, CallsAtTheirRows, UserRow
<1>6. InsertedNumberIsFree'
  BY DEF InsertedNumberIsFree, NumberPending
<1>7. CheckedOrderStaysOpen'
  <2>1. Uploaded(c.number)
    BY DEF CallsAtTheirRows
  <2>2. CASE IsFinal(orders[c.number].status)
    BY <2>2 DEF CheckedOrderStaysOpen, Uploaded
  <2>3. CASE ~IsFinal(orders[c.number].status)
    BY <2>1, <2>3 DEF CheckedOrderStaysOpen, Uploaded
  <2> QED
    BY <2>2, <2>3
<1> QED
  BY <1>1, <1>2, <1>3, <1>4, <1>5, <1>6, <1>7

\* The UPDATE of the order needs no further lock.
LEMMA ApplyUpdateInv ==
  ASSUME Inv, NEW c \in Applies, ApplyUpdate(c)
  PROVE  Inv'
<1> USE CallTypes DEF Inv, TypeOK, TablesTypeOK, ApplyUpdate, Goes, tables
<1>1. TypeOK'
  BY DEF InTransaction, InStatement, Answers
<1>2. CallsAtTheirRows'
  BY DEF CallsAtTheirRows, Registered, Uploaded
<1>3. LocksExclude'
  BY DEF LocksExclude, Holds, Granted, LockedByOther, Rows
<1>4. LockedRowIsCurrent'
  BY DEF LockedRowIsCurrent, Holds, Granted
<1>5. CheckedBalanceStays'
  BY DEF CheckedBalanceStays, Registered, CallsAtTheirRows, UserRow
<1>6. InsertedNumberIsFree'
  BY DEF InsertedNumberIsFree, NumberPending
<1>7. CheckedOrderStaysOpen'
  BY DEF CheckedOrderStaysOpen, Uploaded
<1> QED
  BY <1>1, <1>2, <1>3, <1>4, <1>5, <1>6, <1>7

\* The credit locks the user of the order as well.
LEMMA ApplyCreditInv ==
  ASSUME Inv, NEW c \in Applies, ApplyCredit(c)
  PROVE  Inv'
<1> USE CallTypes DEF Inv, TypeOK, TablesTypeOK, ApplyCredit, Goes, tables
<1>1. TypeOK'
  BY DEF InTransaction, InStatement, Answers
<1>2. CallsAtTheirRows'
  BY DEF CallsAtTheirRows, Registered, Uploaded
<1>3. LocksExclude'
  BY DEF LocksExclude, Holds, Granted, LockedByOther, Rows
<1>4. LockedRowIsCurrent'
  BY DEF LockedRowIsCurrent, Holds, Granted
<1>5. CheckedBalanceStays'
  BY DEF CheckedBalanceStays, Registered, CallsAtTheirRows, UserRow
<1>6. InsertedNumberIsFree'
  BY DEF InsertedNumberIsFree, NumberPending
<1>7. CheckedOrderStaysOpen'
  BY DEF CheckedOrderStaysOpen, Uploaded
<1> QED
  BY <1>1, <1>2, <1>3, <1>4, <1>5, <1>6, <1>7

\* A serialization failure leaves no lock behind.
LEMMA ApplyConflictInv ==
  ASSUME Inv, NEW c \in Applies, ApplyConflict(c)
  PROVE  Inv'
<1> USE CallTypes DEF Inv, TypeOK, TablesTypeOK, ApplyConflict, SerializationFailure, tables
<1>1. TypeOK'
  <2>1. missed' \in [Calls -> SUBSET Rows]
    OBVIOUS
  <2>2. attempt' \in [Calls -> 1 .. MaxAttempts]
    BY AttemptsAssumption
  <2>3. /\ pc' = [pc EXCEPT ![c] = "retry"] \/ pc' = [pc EXCEPT ![c] = "error"]
        /\ UNCHANGED <<users, orders, withdrawals>>
    OBVIOUS
  <2> QED
    BY <2>1, <2>2, <2>3 DEF InTransaction, InStatement, Answers
<1>2. CallsAtTheirRows'
  BY DEF CallsAtTheirRows, Registered, Uploaded
<1>3. LocksExclude'
  BY DEF LocksExclude, Holds, Granted, LockedByOther, Rows
<1>4. LockedRowIsCurrent'
  BY DEF LockedRowIsCurrent, Holds, Granted
<1>5. CheckedBalanceStays'
  BY DEF CheckedBalanceStays, Registered, CallsAtTheirRows, UserRow
<1>6. InsertedNumberIsFree'
  BY DEF InsertedNumberIsFree, NumberPending
<1>7. CheckedOrderStaysOpen'
  BY DEF CheckedOrderStaysOpen, Uploaded
<1> QED
  BY <1>1, <1>2, <1>3, <1>4, <1>5, <1>6, <1>7

\* A commit makes final only an order that nobody else had locked, and a credit
\* lowers no balance.
LEMMA ApplyCommitInv ==
  ASSUME Inv, NEW c \in Applies, ApplyCommit(c)
  PROVE  Inv'
<1> USE CallTypes DEF Inv, TypeOK, TablesTypeOK, ApplyCommit, AccrualApplied, Commits, Revealed, Credited
<1> DEFINE owner == orders[c.number].user
           value == AccrualValue(c.accrual)
           row == [user |-> owner, status |-> c.status, accrual |-> c.accrual]
<1>a. /\ c \in Calls /\ c.number \in Numbers
      /\ orders[c.number] # NoRow /\ orders[c.number] \in OrderRow
      /\ owner \in Users /\ users[owner] # NoRow /\ users[owner] \in UserRow
  BY DEF CheckedOrderStaysOpen, CallsAtTheirRows, Uploaded, Registered, OrderRow
<1>b. /\ Credited(users[owner], value) \in UserRow
      /\ Credited(users[owner], value) # NoRow
      /\ Credited(users[owner], value).current >= users[owner].current
  BY <1>a, RowsAddUp, RowIsNotNull DEF UserRow
<1>c. row \in OrderRow /\ row # NoRow /\ row.user = owner
  BY <1>a, RowIsNotNull DEF OrderRow
<1>d. /\ orders' = [orders EXCEPT ![c.number] = row]
      /\ \/ users' = [users EXCEPT ![owner] = Credited(users[owner], value)]
         \/ users' = users
      /\ c.status # "PROCESSED" => users' = users
      /\ UNCHANGED <<withdrawals, attempt>>
      /\ pc' = [pc EXCEPT ![c] = "ok"] \/ pc' = [pc EXCEPT ![c] = "error"]
  BY DEF AccrualApplied
<1>e. Holds(c, c.number) /\ (c.status = "PROCESSED" => Holds(c, owner))
  BY DEF Holds
<1>f. \A n \in Numbers : orders[n] # NoRow
         => orders'[n] # NoRow /\ orders'[n].user = orders[n].user
  BY <1>a, <1>c, <1>d
<1>g. \A u \in Users : users[u] # NoRow
         => users'[u] # NoRow /\ users'[u].current >= users[u].current
  BY <1>a, <1>b, <1>d DEF UserRow
<1>h. ASSUME NEW d \in Calls, NEW r \in Rows, Holds(d, r)'
      PROVE  d # c /\ Holds(d, r)
  <2>1. d # c
    BY <1>a, <1>d, <1>h DEF Holds
  <2>2. pc'[d] = pc[d] /\ (d \in Applies /\ pc[d] = "commit"
                             => orders'[d.number].user = orders[d.number].user)
    BY <1>a, <1>d, <1>f, <2>1 DEF CheckedOrderStaysOpen, Uploaded
  <2> QED
    BY <1>h, <2>1, <2>2 DEF Holds
<1>1. TypeOK'
  <2>1. users' \in [Users -> UserRow \cup {NoRow}]
    BY <1>a, <1>b, <1>d
  <2>2. orders' \in [Numbers -> OrderRow \cup {NoRow}]
    BY <1>a, <1>c, <1>d
  <2>3. missed' \in [Calls -> SUBSET Rows]
    BY <1>a DEF Rows
  <2> QED
    BY <1>d, <2>1, <2>2, <2>3 DEF InTransaction, InStatement, Answers
<1>2. CallsAtTheirRows'
  <2>1. \A n \in Numbers : orders'[n] # NoRow => orders[n] # NoRow
    BY <1>a, <1>d
  <2>2. \A n \in Numbers : orders[n] # NoRow => orders[n].user \in Users
    BY DEF OrderRow
  <2>3. \A n \in Numbers : orders'[n] # NoRow => users'[orders'[n].user] # NoRow
    BY <1>f, <1>g, <2>1, <2>2 DEF CallsAtTheirRows, Registered, Uploaded
  <2> QED
    BY <1>a, <1>d, <1>f, <1>g, <2>3, ZenonT(60) DEF CallsAtTheirRows, Registered, Uploaded
<1>3. LocksExclude'
  BY <1>h DEF LocksExclude
<1>4. LockedRowIsCurrent'
  <2> SUFFICES ASSUME NEW d \in Calls, NEW r \in Rows, Holds(d, r)'
               PROVE  r \notin missed'[d]
    BY DEF LockedRowIsCurrent
  <2>1. d # c /\ Holds(d, r)
    BY <1>h
  <2>2. r # c.number /\ (c.status = "PROCESSED" => r # owner)
    BY <1>a, <1>e, <2>1 DEF LocksExclude
  <2> QED
    BY <2>1, <2>2 DEF LockedRowIsCurrent
<1>5. CheckedBalanceStays'
  <2> SUFFICES ASSUME NEW d \in Withdraws, pc'[d] \in {"insert", "debit", "commit"}
               PROVE  users'[d.user] # NoRow /\ users'[d.user].current >= d.sum
    BY DEF CheckedBalanceStays, Registered
  <2>1. pc[d] \in {"insert", "debit", "commit"}
    BY <1>d
  <2>2. users[d.user] # NoRow /\ users[d.user].current >= d.sum
    BY <2>1 DEF CheckedBalanceStays, Registered
  <2>3. users[d.user].current \in Int /\ users'[d.user].current \in Int
    BY <1>1, <1>g, <2>2 DEF UserRow
  <2> QED
    BY <1>g, <2>2, <2>3
<1>6. InsertedNumberIsFree'
  BY DEF InsertedNumberIsFree, NumberPending
<1>7. CheckedOrderStaysOpen'
  <2> SUFFICES ASSUME NEW d \in Applies, pc'[d] \in {"update", "credit", "commit"}
               PROVE  orders'[d.number] # NoRow /\ ~IsFinal(orders'[d.number].status)
    BY DEF CheckedOrderStaysOpen, Uploaded
  <2>1. d # c /\ pc[d] \in {"update", "credit", "commit"}
    BY <1>a, <1>d
  <2>2. d.number # c.number
    BY <1>a, <1>e, <2>1 DEF LocksExclude, Holds, Rows
  <2>3. orders'[d.number] = orders[d.number]
    BY <1>a, <1>d, <2>2
  <2> QED
    BY <2>1, <2>3 DEF CheckedOrderStaysOpen, Uploaded
<1> QED
  BY <1>1, <1>2, <1>3, <1>4, <1>5, <1>6, <1>7

\* A statement begins with a snapshot and no lock.
LEMMA UploadBeginInv ==
  ASSUME Inv, NEW c \in Uploads, UploadBegin(c)
  PROVE  Inv'
<1> USE CallTypes DEF Inv, TypeOK, TablesTypeOK, UploadBegin, Begins, Goes, tables
<1>1. TypeOK'
  BY DEF InTransaction, InStatement, Answers
<1>2. CallsAtTheirRows'
  BY DEF CallsAtTheirRows, Registered, Uploaded
<1>3. LocksExclude'
  BY DEF LocksExclude, Holds, Granted, LockedByOther, Rows
<1>4. LockedRowIsCurrent'
  BY DEF LockedRowIsCurrent, Holds, Granted
<1>5. CheckedBalanceStays'
  BY DEF CheckedBalanceStays, Registered, CallsAtTheirRows, UserRow
<1>6. InsertedNumberIsFree'
  BY DEF InsertedNumberIsFree, NumberPending
<1>7. CheckedOrderStaysOpen'
  BY DEF CheckedOrderStaysOpen, Uploaded
<1> QED
  BY <1>1, <1>2, <1>3, <1>4, <1>5, <1>6, <1>7

\* An answer changes no row.
LEMMA UploadFoundInv ==
  ASSUME Inv, NEW c \in Uploads, UploadFound(c)
  PROVE  Inv'
<1> USE CallTypes DEF Inv, TypeOK, TablesTypeOK, UploadFound, Returns, tables
<1>1. TypeOK'
  BY DEF InTransaction, InStatement, Answers
<1>2. CallsAtTheirRows'
  BY DEF CallsAtTheirRows, Registered, Uploaded
<1>3. LocksExclude'
  BY DEF LocksExclude, Holds, Granted, LockedByOther, Rows
<1>4. LockedRowIsCurrent'
  BY DEF LockedRowIsCurrent, Holds, Granted
<1>5. CheckedBalanceStays'
  BY DEF CheckedBalanceStays, Registered, CallsAtTheirRows, UserRow
<1>6. InsertedNumberIsFree'
  BY DEF InsertedNumberIsFree, NumberPending
<1>7. CheckedOrderStaysOpen'
  BY DEF CheckedOrderStaysOpen, Uploaded
<1> QED
  BY <1>1, <1>2, <1>3, <1>4, <1>5, <1>6, <1>7

\* A new order is NEW and nobody has it locked.
LEMMA UploadInsertInv ==
  ASSUME Inv, NEW c \in Uploads, UploadInsert(c)
  PROVE  Inv'
<1> USE CallTypes DEF Inv, TypeOK, TablesTypeOK, UploadInsert, OrderCreated
<1> DEFINE row == [user |-> c.user, status |-> "NEW", accrual |-> NoAccrual]
<1>a. /\ row \in OrderRow /\ row # NoRow
      /\ orders' = [orders EXCEPT ![c.number] = row]
      /\ UNCHANGED <<users, withdrawals, attempt, missed>>
      /\ pc' = [pc EXCEPT ![c] = "created"] \/ pc' = [pc EXCEPT ![c] = "error"]
  BY RowIsNotNull DEF OrderRow, Statuses, Accruals
<1>b. \A n \in Numbers : orders[n] # NoRow => orders'[n] = orders[n]
  BY <1>a DEF Uploaded
<1>c. \A d \in Calls, r \in Rows : Holds(d, r)' => Holds(d, r)
  BY <1>a, <1>b DEF Holds, CheckedOrderStaysOpen, Uploaded
<1>1. TypeOK'
  BY <1>a DEF InTransaction, InStatement, Answers
<1>2. CallsAtTheirRows'
  BY DEF CallsAtTheirRows, Registered, Uploaded
<1>3. LocksExclude'
  BY <1>c DEF LocksExclude
<1>4. LockedRowIsCurrent'
  BY <1>a, <1>c DEF LockedRowIsCurrent
<1>5. CheckedBalanceStays'
  BY DEF CheckedBalanceStays, Registered, CallsAtTheirRows, UserRow
<1>6. InsertedNumberIsFree'
  BY DEF InsertedNumberIsFree, NumberPending
<1>7. CheckedOrderStaysOpen'
  BY DEF CheckedOrderStaysOpen, Uploaded
<1> QED
  BY <1>1, <1>2, <1>3, <1>4, <1>5, <1>6, <1>7

\* An answer changes no row.
LEMMA UploadNotSeenInv ==
  ASSUME Inv, NEW c \in Uploads, UploadNotSeen(c)
  PROVE  Inv'
<1> USE CallTypes DEF Inv, TypeOK, TablesTypeOK, UploadNotSeen, Returns, tables
<1>1. TypeOK'
  BY DEF InTransaction, InStatement, Answers
<1>2. CallsAtTheirRows'
  BY DEF CallsAtTheirRows, Registered, Uploaded
<1>3. LocksExclude'
  BY DEF LocksExclude, Holds, Granted, LockedByOther, Rows
<1>4. LockedRowIsCurrent'
  BY DEF LockedRowIsCurrent, Holds, Granted
<1>5. CheckedBalanceStays'
  BY DEF CheckedBalanceStays, Registered, CallsAtTheirRows, UserRow
<1>6. InsertedNumberIsFree'
  BY DEF InsertedNumberIsFree, NumberPending
<1>7. CheckedOrderStaysOpen'
  BY DEF CheckedOrderStaysOpen, Uploaded
<1> QED
  BY <1>1, <1>2, <1>3, <1>4, <1>5, <1>6, <1>7

\* A rollback releases what was locked.
LEMMA FailsInv ==
  ASSUME Inv, NEW c \in Calls, Fails(c)
  PROVE  Inv'
<1> USE CallTypes DEF Inv, TypeOK, TablesTypeOK, Fails, Returns, tables
<1>1. TypeOK'
  BY DEF InTransaction, InStatement, Answers
<1>2. CallsAtTheirRows'
  <2>1. pc[c] # "idle" /\ (c \in Applies => pc[c] # "idle")
    BY DEF InTransaction, InStatement
  <2>2. /\ pc' = [pc EXCEPT ![c] = "error"]
        /\ UNCHANGED <<users, orders, withdrawals>>
    OBVIOUS
  <2> QED
    BY <2>1, <2>2 DEF CallsAtTheirRows, Registered, Uploaded
<1>3. LocksExclude'
  BY DEF LocksExclude, Holds, Granted, LockedByOther, Rows
<1>4. LockedRowIsCurrent'
  BY DEF LockedRowIsCurrent, Holds, Granted
<1>5. CheckedBalanceStays'
  BY DEF CheckedBalanceStays, Registered, CallsAtTheirRows, UserRow
<1>6. InsertedNumberIsFree'
  BY DEF InsertedNumberIsFree, NumberPending
<1>7. CheckedOrderStaysOpen'
  BY DEF CheckedOrderStaysOpen, Uploaded
<1> QED
  BY <1>1, <1>2, <1>3, <1>4, <1>5, <1>6, <1>7

\* A list touches no locked row and no column the invariant is about.
LEMMA ListOrdersForProcessingInv ==
  ASSUME Inv, NEW batch \in SUBSET Numbers, ListOrdersForProcessing(batch)
  PROVE  Inv'
<1> USE CallTypes DEF Inv, TypeOK, TablesTypeOK, ListOrdersForProcessing, tables
<1>1. TypeOK'
  <2>1. \A d \in Calls : missed'[d] \in SUBSET Rows
    BY DEF Rows
  <2> QED
    BY <2>1
<1>2. CallsAtTheirRows'
  BY DEF CallsAtTheirRows, Registered, Uploaded
<1>3. LocksExclude'
  BY DEF LocksExclude, Holds, Granted, LockedByOther, Rows
<1>4. LockedRowIsCurrent'
  BY DEF LockedRowIsCurrent, Holds, Granted
<1>5. CheckedBalanceStays'
  BY DEF CheckedBalanceStays, Registered, CallsAtTheirRows, UserRow
<1>6. InsertedNumberIsFree'
  BY DEF InsertedNumberIsFree, NumberPending
<1>7. CheckedOrderStaysOpen'
  BY DEF CheckedOrderStaysOpen, Uploaded
<1> QED
  BY <1>1, <1>2, <1>3, <1>4, <1>5, <1>6, <1>7

\* Every step, of a call or around the calls, and every stuttering step.
LEMMA NextInv == ASSUME Inv, [Next]_vars PROVE Inv'
<1>1. CASE \E u \in Users : CreateUser(u)
  BY <1>1, CreateUserInv
<1>2. ASSUME NEW c \in Withdraws, CreateWithdrawal(c) PROVE Inv'
  BY <1>2, WithdrawBeginInv, WithdrawLockInv, WithdrawConflictInv,
     WithdrawInsertInv, WithdrawDebitInv, WithdrawCommitInv DEF CreateWithdrawal
<1>3. ASSUME NEW c \in Applies, ApplyAccrualResult(c) PROVE Inv'
  BY <1>3, ApplyBeginInv, ApplyLockInv, ApplyUpdateInv, ApplyCreditInv,
     ApplyConflictInv, ApplyCommitInv DEF ApplyAccrualResult
<1>4. ASSUME NEW c \in Uploads, CreateOrder(c) PROVE Inv'
  BY <1>4, UploadBeginInv, UploadInsertInv, UploadFoundInv, UploadNotSeenInv
  DEF CreateOrder
<1>5. CASE \E c \in Calls : Fails(c)
  BY <1>5, FailsInv
<1>6. CASE \E batch \in SUBSET Numbers : ListOrdersForProcessing(batch)
  BY <1>6, ListOrdersForProcessingInv
<1>7. CASE UNCHANGED vars
  BY <1>7 DEF vars, Inv, TypeOK, TablesTypeOK, CallsAtTheirRows, LocksExclude,
     LockedRowIsCurrent, CheckedBalanceStays, InsertedNumberIsFree,
     CheckedOrderStaysOpen, Holds, NumberPending, Registered, Uploaded
<1> QED
  BY <1>1, <1>2, <1>3, <1>4, <1>5, <1>6, <1>7 DEF Next

\* Inv is an invariant of the repository.
THEOREM InvHolds == Spec => []Inv
<1>1. Init => Inv
  BY InitInv
<1>2. Inv /\ [Next]_vars => Inv'
  BY NextInv
<1> QED
  BY <1>1, <1>2, PTL DEF Spec

\* The variables keep their types.
THEOREM TypeCorrect == Spec => []TypeOK
<1>1. Inv => TypeOK
  BY DEF Inv
<1> QED
  BY <1>1, InvHolds, PTL

\* No row is locked by two transactions at once.
THEOREM LocksExcludeHolds == Spec => []LocksExclude
<1>1. Inv => LocksExclude
  BY DEF Inv
<1> QED
  BY <1>1, InvHolds, PTL

\* No statement on a row the transaction has locked fails to serialize.
THEOREM LockedRowIsCurrentHolds == Spec => []LockedRowIsCurrent
<1>1. Inv => LockedRowIsCurrent
  BY DEF Inv
<1> QED
  BY <1>1, InvHolds, PTL

\* The balance a withdrawal has checked suffices until it commits.
THEOREM CheckedBalanceStaysHolds == Spec => []CheckedBalanceStays
<1>1. Inv => CheckedBalanceStays
  BY DEF Inv
<1> QED
  BY <1>1, InvHolds, PTL

\* A withdrawal that has inserted its row is alone with its number.
THEOREM InsertedNumberIsFreeHolds == Spec => []InsertedNumberIsFree
<1>1. Inv => InsertedNumberIsFree
  BY DEF Inv
<1> QED
  BY <1>1, InvHolds, PTL

\* The order a result is applied to stays open until the result commits.
THEOREM CheckedOrderStaysOpenHolds == Spec => []CheckedOrderStaysOpen
<1>1. Inv => CheckedOrderStaysOpen
  BY DEF Inv
<1> QED
  BY <1>1, InvHolds, PTL

-----------------------------------------------------------------------------
(* Every commit is a step of the ledger. *)

\* The steps that change the tables.
LEMMA TableSteps ==
  ASSUME [Next]_vars
  PROVE  \/ \E u \in Users : CreateUser(u)
         \/ \E c \in Withdraws : WithdrawCommit(c)
         \/ \E c \in Applies : ApplyCommit(c)
         \/ \E c \in Uploads : UploadInsert(c)
         \/ UNCHANGED tables
<1> USE DEF Goes, Begins, Returns, SerializationFailure
<1>1. ASSUME NEW c \in Withdraws, CreateWithdrawal(c)
      PROVE  WithdrawCommit(c) \/ UNCHANGED tables
  BY <1>1 DEF CreateWithdrawal, WithdrawBegin, WithdrawLock, WithdrawConflict,
              WithdrawInsert, WithdrawDebit
<1>2. ASSUME NEW c \in Applies, ApplyAccrualResult(c)
      PROVE  ApplyCommit(c) \/ UNCHANGED tables
  BY <1>2 DEF ApplyAccrualResult, ApplyBegin, ApplyLock, ApplyUpdate,
              ApplyCredit, ApplyConflict
<1>3. ASSUME NEW c \in Uploads, CreateOrder(c)
      PROVE  UploadInsert(c) \/ UNCHANGED tables
  BY <1>3 DEF CreateOrder, UploadBegin, UploadFound, UploadNotSeen
<1>4. ASSUME NEW c \in Calls, Fails(c) PROVE UNCHANGED tables
  BY <1>4 DEF Fails
<1>5. ASSUME NEW batch \in SUBSET Numbers, ListOrdersForProcessing(batch)
      PROVE  UNCHANGED tables
  BY <1>5 DEF ListOrdersForProcessing
<1>6. CASE UNCHANGED vars
  BY <1>6 DEF vars, tables
<1> QED
  BY <1>1, <1>2, <1>3, <1>4, <1>5, <1>6 DEF Next

\* At each of them the ledger's guard holds: it was checked earlier, and Inv
\* says that it still holds at the commit.
LEMMA StepSimulated == ASSUME Inv, [Next]_vars PROVE [L!Next]_tables
<1>1. ASSUME NEW u \in Users, CreateUser(u) PROVE L!Next
  <2>1. L!CreateUser(u)
    BY <1>1 DEF CreateUser, L!CreateUser, UserCreated, L!UserCreated,
                Registered, L!Registered
  <2> QED
    BY <2>1 DEF L!Next
<1>2. ASSUME NEW c \in Withdraws, WithdrawCommit(c) PROVE L!Next
  <2>1. /\ users[c.user] # NoRow /\ users[c.user].current >= c.sum
        /\ withdrawals[c.number] = NoRow
    BY <1>2 DEF Inv, WithdrawCommit, CheckedBalanceStays, InsertedNumberIsFree, Registered
  <2>2. L!CreateWithdrawal(c.user, c.number, c.sum)
    BY <1>2, <2>1 DEF WithdrawCommit, L!CreateWithdrawal, WithdrawalCreated,
       L!WithdrawalCreated, Debited, L!Debited, L!Registered
  <2> QED
    BY <2>2, CallTypes DEF L!Next, L!Sums, Sums
<1>3. ASSUME NEW c \in Applies, ApplyCommit(c) PROVE L!Next
  <2>1. orders[c.number] # NoRow /\ ~IsFinal(orders[c.number].status)
    BY <1>3 DEF Inv, ApplyCommit, CheckedOrderStaysOpen, Uploaded
  <2>2. L!ApplyAccrualResult(c.number, c.status, c.accrual)
    BY <1>3, <2>1 DEF ApplyCommit, L!ApplyAccrualResult, AccrualApplied,
       L!AccrualApplied, AccrualValue, L!AccrualValue, Credited, L!Credited,
       L!Uploaded, IsFinal, L!IsFinal
  <2> QED
    BY <2>2, CallTypes DEF L!Next, L!Accruals, Accruals, L!Statuses, Statuses
<1>4. ASSUME NEW c \in Uploads, UploadInsert(c) PROVE L!Next
  <2>1. users[c.user] # NoRow
    BY <1>4 DEF Inv, UploadInsert, CallsAtTheirRows, Registered
  <2>2. L!CreateOrder(c.user, c.number)
    BY <1>4, <2>1 DEF UploadInsert, L!CreateOrder, OrderCreated, L!OrderCreated,
       Uploaded, L!Uploaded, L!Registered
  <2> QED
    BY <2>2, CallTypes DEF L!Next
<1> QED
  BY <1>1, <1>2, <1>3, <1>4, TableSteps

\* The repository implements the ledger: whatever the interleaving, conflicts,
\* retries and lost acknowledgements, its commits are atomic ledger operations.
THEOREM ImplementsLedger == Spec => LedgerSpec
<1>1. Init => L!TablesInit
  BY DEF Init, TablesInit, L!TablesInit
<1>2. Inv /\ [Next]_vars => [L!Next]_(L!tables)
  BY StepSimulated DEF tables, L!tables
<1> QED
  BY <1>1, <1>2, InvHolds, PTL DEF Spec, LedgerSpec, L!Spec

-----------------------------------------------------------------------------
(* What the ledger keeps, the repository keeps: Books of LedgerProofs.  The *)
(* names below are those of one module in two instances of it.             *)

LP == INSTANCE LedgerProofs

\* The ledger of Store and the one of LedgerProofs take the same steps
LEMMA SameLedgerStep == L!Next => LP!Next
BY DEF L!Next, L!CreateUser, L!CreateOrder, L!ApplyAccrualResult, L!CreateWithdrawal,
       L!UserCreated, L!OrderCreated, L!AccrualApplied, L!WithdrawalCreated,
       L!Registered, L!Uploaded, L!IsFinal, L!AccrualValue, L!Credited, L!Debited,
       L!Statuses, L!Accruals, L!Sums,
       LP!Next, LP!CreateUser, LP!CreateOrder, LP!ApplyAccrualResult,
       LP!CreateWithdrawal, LP!UserCreated, LP!OrderCreated, LP!AccrualApplied,
       LP!WithdrawalCreated, LP!Registered, LP!Uploaded, LP!IsFinal, LP!AccrualValue,
       LP!Credited, LP!Debited, LP!Statuses, LP!Accruals, LP!Sums

\* and add up the same rows.
LEMMA SameSums ==
  ASSUME NEW u
  PROVE  L!Earned(u) = LP!Earned(u) /\ L!Spent(u) = LP!Spent(u)
<1>1. ASSUME NEW f PROVE L!SumFunction(f) = LP!SumFunction(f)
  BY DEF L!SumFunction, L!SumFunctionOnSet, L!FoldFunctionOnSet, L!MapThenFoldSet,
         LP!SumFunction, LP!SumFunctionOnSet, LP!FoldFunctionOnSet, LP!MapThenFoldSet
<1>2. L!Earned(u) = LP!Earned(u)
  BY <1>1 DEF L!Earned, L!PaidOrdersOf, L!OrdersOf, L!Uploaded, L!AccrualValue,
              LP!Earned, LP!PaidOrdersOf, LP!OrdersOf, LP!Uploaded, LP!AccrualValue
<1>3. L!Spent(u) = LP!Spent(u)
  BY <1>1 DEF L!Spent, L!WithdrawalsOf, LP!Spent, LP!WithdrawalsOf
<1> QED
  BY <1>2, <1>3

\* The ledger's assumptions about the constants are those of Store.
LEMMA LedgerAssumptions ==
  LP!AmountsAssumption /\ LP!KeysAssumption /\ LP!NullsAssumption
BY AmountsAssumption, KeysAssumption, NullsAssumption
DEF LP!AmountsAssumption, LP!KeysAssumption, LP!NullsAssumption, LP!UserRow, UserRow,
    LP!OrderRow, OrderRow, LP!WithdrawalRow, WithdrawalRow, LP!Sums, Sums,
    LP!Statuses, Statuses, LP!Accruals, Accruals

\* No interleaving of transactions loses or repeats a credit or a debit: the
\* balances agree with the committed rows at every moment.
THEOREM ConservationHolds == Spec => []Conservation
<1>1. Init => LP!Books
  <2>1. Init => LP!TablesInit
    BY DEF Init, TablesInit, LP!TablesInit
  <2> QED
    BY <2>1, LP!InitBooks, LedgerAssumptions
<1>2. Inv /\ LP!Books /\ [Next]_vars => LP!Books'
  <2>1. Inv /\ [Next]_vars => [LP!Next]_(LP!tables)
    BY StepSimulated, SameLedgerStep DEF tables, LP!tables
  <2> QED
    BY <2>1, LP!NextKeepsBooks, LedgerAssumptions
<1>3. LP!Books => Conservation
  BY SameSums DEF LP!Books, LP!Conservation, LP!Registered,
                  Conservation, L!Conservation, L!Registered
<1> QED
  BY <1>1, <1>2, <1>3, InvHolds, PTL DEF Spec

-----------------------------------------------------------------------------
(* What follows for the tables. *)

\* A ledger step overdraws nobody: a debit has its guard, a credit is not
\* negative.
LEMMA NonNegativeKept ==
  ASSUME Inv, NonNegative, [Next]_vars
  PROVE  NonNegative'
<1> USE CallTypes DEF NonNegative, L!NonNegative, L!Registered, Inv, TypeOK, TablesTypeOK
<1>1. ASSUME NEW u \in Users, CreateUser(u) PROVE NonNegative'
  BY <1>1 DEF CreateUser, UserCreated
<1>2. ASSUME NEW c \in Withdraws, WithdrawCommit(c) PROVE NonNegative'
  <2>1. /\ users[c.user] \in UserRow /\ users[c.user] # NoRow
        /\ users[c.user].current >= c.sum
    BY <1>2 DEF WithdrawCommit, CheckedBalanceStays, Registered
  <2>2. Debited(users[c.user], c.sum).current = users[c.user].current - c.sum
    BY <2>1, RowsAddUp
  <2>3. users[c.user].current \in Int
    BY <2>1 DEF UserRow
  <2>4. Debited(users[c.user], c.sum).current >= 0
    BY <2>1, <2>2, <2>3
  <2> QED
    BY <1>2, <2>4 DEF WithdrawCommit, WithdrawalCreated
<1>3. ASSUME NEW c \in Applies, ApplyCommit(c) PROVE NonNegative'
  <2> DEFINE owner == orders[c.number].user
             row == Credited(users[owner], AccrualValue(c.accrual))
  <2>1. owner \in Users /\ users[owner] \in UserRow /\ users[owner].current >= 0
    BY <1>3 DEF ApplyCommit, CheckedOrderStaysOpen, CallsAtTheirRows, Uploaded,
                Registered, OrderRow
  <2>2. row.current >= 0
    <3>1. row.current = users[owner].current + AccrualValue(c.accrual)
      BY <2>1, RowsAddUp
    <3>2. users[owner].current \in Int
      BY <2>1 DEF UserRow
    <3> QED
      BY <2>1, <3>1, <3>2
  <2>3. users' = [users EXCEPT ![owner] = row] \/ users' = users
    BY <1>3 DEF ApplyCommit, AccrualApplied
  <2> QED
    BY <2>1, <2>2, <2>3
<1>4. ASSUME NEW c \in Uploads, UploadInsert(c) PROVE NonNegative'
  BY <1>4 DEF UploadInsert, OrderCreated
<1> QED
  BY <1>1, <1>2, <1>3, <1>4, TableSteps DEF tables

\* No balance is ever overdrawn.
THEOREM NonNegativeHolds == Spec => []NonNegative
<1>1. Init => NonNegative
  BY DEF Init, TablesInit, NonNegative, L!NonNegative, L!Registered
<1>2. Inv /\ NonNegative /\ [Next]_vars => NonNegative'
  BY NonNegativeKept
<1> QED
  BY <1>1, <1>2, InvHolds, PTL DEF Spec

\* A final order never changes again.
THEOREM FinalIsForeverHolds == Spec => FinalIsForever
<1>1. ASSUME Inv, [Next]_vars, NEW n \in Numbers, orders[n] # NoRow,
             IsFinal(orders[n].status)
      PROVE  orders'[n] = orders[n]
  <2> USE DEF Inv, TypeOK, TablesTypeOK
  <2>1. ASSUME NEW u \in Users, CreateUser(u) PROVE orders'[n] = orders[n]
    BY <2>1 DEF CreateUser, UserCreated
  <2>2. ASSUME NEW c \in Withdraws, WithdrawCommit(c) PROVE orders'[n] = orders[n]
    BY <2>2 DEF WithdrawCommit, WithdrawalCreated
  <2>3. ASSUME NEW c \in Applies, ApplyCommit(c) PROVE orders'[n] = orders[n]
    BY <1>1, <2>3 DEF ApplyCommit, AccrualApplied, CheckedOrderStaysOpen
  <2>4. ASSUME NEW c \in Uploads, UploadInsert(c) PROVE orders'[n] = orders[n]
    BY <1>1, <2>4 DEF UploadInsert, OrderCreated, Uploaded
  <2> QED
    BY <1>1, <2>1, <2>2, <2>3, <2>4, TableSteps DEF tables
<1>2. Inv /\ [Next]_vars =>
        [\A n \in Numbers : L!Uploaded(n) /\ L!IsFinal(orders[n].status)
            => orders'[n] = orders[n]]_(L!tables)
  BY <1>1 DEF L!Uploaded, L!IsFinal, IsFinal
<1> QED
  BY <1>2, InvHolds, PTL DEF Spec, FinalIsForever, L!FinalIsForever

\* A balance moves only in the commit of the order or of the withdrawal that
\* explains the movement, and by its amount.
THEOREM BalanceMovesWithItsRowHolds == Spec => BalanceMovesWithItsRow
<1>1. ASSUME Inv, [Next]_vars, NEW u \in Users, users[u] # NoRow, users'[u] # users[u]
      PROVE  L!Explained(u)
  <2> USE CallTypes DEF Inv, TypeOK, TablesTypeOK
  <2>1. ASSUME NEW v \in Users, CreateUser(v) PROVE FALSE
    BY <1>1, <2>1 DEF CreateUser, UserCreated, Registered
  <2>2. ASSUME NEW c \in Withdraws, WithdrawCommit(c) PROVE L!Explained(u)
    <3>1. c.number \in Numbers /\ withdrawals[c.number] = NoRow
      BY <1>1, <2>2 DEF WithdrawCommit, InsertedNumberIsFree
    <3>2. withdrawals'[c.number] = [user |-> c.user, sum |-> c.sum]
      BY <1>1, <3>1, <2>2 DEF WithdrawCommit, WithdrawalCreated
    <3>3. withdrawals'[c.number] # NoRow
      BY <3>2, NullsAssumption DEF WithdrawalRow
    <3>4. u = c.user /\ users'[u] = Debited(users[u], c.sum)
      BY <1>1, <2>2 DEF WithdrawCommit, WithdrawalCreated
    <3> QED
      BY <3>1, <3>2, <3>3, <3>4 DEF L!Explained, L!Debited, Debited
  <2>3. ASSUME NEW c \in Applies, ApplyCommit(c) PROVE L!Explained(u)
    <3>1. /\ c.number \in Numbers
          /\ orders[c.number] # NoRow /\ orders[c.number].status # "PROCESSED"
      BY <1>1, <2>3 DEF ApplyCommit, CheckedOrderStaysOpen, Uploaded, IsFinal
    <3>2. orders'[c.number] = [user |-> orders[c.number].user,
                               status |-> c.status, accrual |-> c.accrual]
      BY <1>1, <3>1, <2>3 DEF ApplyCommit, AccrualApplied
    <3>3. /\ c.status = "PROCESSED" /\ orders[c.number].user = u
          /\ users'[u] = Credited(users[u], AccrualValue(c.accrual))
      BY <1>1, <2>3 DEF ApplyCommit, AccrualApplied
    <3> QED
      BY <3>1, <3>2, <3>3
      DEF L!Explained, L!Uploaded, L!Credited, Credited, L!AccrualValue, AccrualValue
  <2>4. ASSUME NEW c \in Uploads, UploadInsert(c) PROVE FALSE
    BY <1>1, <2>4 DEF UploadInsert, OrderCreated
  <2> QED
    BY <1>1, <2>1, <2>2, <2>3, <2>4, TableSteps DEF tables
<1>2. Inv /\ [Next]_vars =>
        [\A u \in Users : L!Registered(u) /\ users'[u] # users[u]
            => L!Explained(u)]_(L!tables)
  BY <1>1 DEF L!Registered
<1> QED
  BY <1>2, InvHolds, PTL DEF Spec, BalanceMovesWithItsRow, L!BalanceMovesWithItsRow

-----------------------------------------------------------------------------
(* What the callers were told. *)

\* Rows are never removed or given to another user, and a final order stays so.
LEMMA RowsStay ==
  ASSUME Inv, [Next]_vars, NEW n \in Numbers
  PROVE  /\ withdrawals[n] # NoRow => withdrawals'[n] = withdrawals[n]
         /\ orders[n] # NoRow => /\ orders'[n] # NoRow
                                 /\ orders'[n].user = orders[n].user
                                 /\ IsFinal(orders[n].status) => IsFinal(orders'[n].status)
<1> USE CallTypes DEF Inv, TypeOK, TablesTypeOK
<1>1. ASSUME NEW u \in Users, CreateUser(u) PROVE UNCHANGED <<orders, withdrawals>>
  BY <1>1 DEF CreateUser, UserCreated
<1>2. ASSUME NEW c \in Withdraws, WithdrawCommit(c)
      PROVE  /\ withdrawals[n] # NoRow => withdrawals'[n] = withdrawals[n]
             /\ UNCHANGED orders
  BY <1>2 DEF WithdrawCommit, WithdrawalCreated, InsertedNumberIsFree
<1>3. ASSUME NEW c \in Applies, ApplyCommit(c)
      PROVE  /\ UNCHANGED withdrawals
             /\ orders[n] # NoRow =>
                  /\ orders'[n] # NoRow /\ orders'[n].user = orders[n].user
                  /\ IsFinal(orders[n].status) => IsFinal(orders'[n].status)
  <2> DEFINE row == [user |-> orders[c.number].user, status |-> c.status,
                     accrual |-> c.accrual]
  <2>1. orders[c.number] \in OrderRow /\ ~IsFinal(orders[c.number].status)
    BY <1>3 DEF ApplyCommit, CheckedOrderStaysOpen, Uploaded
  <2>2. row \in OrderRow /\ row # NoRow
    BY <2>1, NullsAssumption DEF OrderRow
  <2>3. orders' = [orders EXCEPT ![c.number] = row] /\ UNCHANGED withdrawals
    BY <1>3 DEF ApplyCommit, AccrualApplied
  <2> QED
    BY <2>1, <2>2, <2>3
<1>4. ASSUME NEW c \in Uploads, UploadInsert(c)
      PROVE  UNCHANGED withdrawals /\ (orders[n] # NoRow => orders'[n] = orders[n])
  BY <1>4 DEF UploadInsert, OrderCreated, Uploaded
<1> QED
  BY <1>1, <1>2, <1>3, <1>4, TableSteps DEF tables

\* A step moves one call, one that has not answered.
LEMMA OneCallMoves ==
  ASSUME Inv, [Next]_vars, NEW c \in Calls, pc'[c] # pc[c]
  PROVE  /\ \A d \in Calls \ {c} : pc'[d] = pc[d]
         /\ pc[c] \notin Answers
         /\ CallStep(c) \/ Fails(c)
<1> USE CallTypes DEF Inv, TypeOK, Goes, Begins, Returns, SerializationFailure,
                      Commits, Answers, CallStep
<1> DEFINE Moves(d) == /\ \A e \in Calls \ {d} : pc'[e] = pc[e]
                       /\ pc[d] \notin Answers
<1>1. ASSUME NEW d \in Withdraws, CreateWithdrawal(d) PROVE Moves(d)
  BY <1>1 DEF CreateWithdrawal, WithdrawBegin, WithdrawLock, WithdrawConflict,
              WithdrawInsert, WithdrawDebit, WithdrawCommit
<1>2. ASSUME NEW d \in Applies, ApplyAccrualResult(d) PROVE Moves(d)
  BY <1>2 DEF ApplyAccrualResult, ApplyBegin, ApplyLock, ApplyUpdate,
              ApplyCredit, ApplyConflict, ApplyCommit
<1>3. ASSUME NEW d \in Uploads, CreateOrder(d) PROVE Moves(d)
  BY <1>3 DEF CreateOrder, UploadBegin, UploadFound, UploadInsert, UploadNotSeen
<1>4. ASSUME NEW d \in Calls, Fails(d) PROVE Moves(d)
  BY <1>4 DEF Fails, InTransaction, InStatement
<1>5. ~(\E u \in Users : CreateUser(u)) /\ ~UNCHANGED vars
  BY DEF CreateUser, vars
<1>6. ~(\E batch \in SUBSET Numbers : ListOrdersForProcessing(batch))
  BY DEF ListOrdersForProcessing
<1>7. \E d \in Calls : Moves(d) /\ (CallStep(d) \/ Fails(d))
  BY <1>1, <1>2, <1>3, <1>4, <1>5, <1>6 DEF Next
<1> QED
  BY <1>7

\* A withdrawal turns "ok" in its own commit only, and "exists" only when the
\* number is used.
LEMMA WithdrawAnswers ==
  ASSUME Inv, [Next]_vars, NEW c \in Withdraws, pc'[c] # pc[c]
  PROVE  /\ pc'[c] = "ok" => WithdrawCommit(c)
         /\ pc'[c] = "exists" => withdrawals[c.number] # NoRow
<1> USE CallTypes DEF Inv, TypeOK, Goes, Begins, Returns, SerializationFailure
<1>1. CreateWithdrawal(c) \/ Fails(c)
  BY OneCallMoves DEF CallStep
<1>2. CASE Fails(c)
  BY <1>2 DEF Fails
<1>3. CASE CreateWithdrawal(c) /\ ~WithdrawCommit(c)
  BY <1>3 DEF CreateWithdrawal, WithdrawBegin, WithdrawLock, WithdrawConflict,
              WithdrawInsert, WithdrawDebit
<1>4. CASE WithdrawCommit(c)
  BY <1>4 DEF WithdrawCommit, Commits
<1> QED
  BY <1>1, <1>2, <1>3, <1>4

\* An upload turns "created" in its own insert only; the other answers come
\* from the row its snapshot shows.
LEMMA UploadAnswers ==
  ASSUME Inv, [Next]_vars, NEW c \in Uploads, pc'[c] # pc[c]
  PROVE  /\ pc'[c] = "created" => UploadInsert(c)
         /\ pc'[c] \in {"mine", "other"} => orders[c.number] # NoRow
         /\ pc'[c] = "mine" => orders[c.number].user = c.user
         /\ pc'[c] = "other" => orders[c.number].user # c.user
<1> USE CallTypes DEF Inv, TypeOK, Goes, Begins, Returns
<1>1. CreateOrder(c) \/ Fails(c)
  BY OneCallMoves DEF CallStep
<1>2. CASE Fails(c)
  BY <1>2 DEF Fails
<1>3. CASE UploadBegin(c) \/ UploadFound(c) \/ UploadNotSeen(c)
  BY <1>3 DEF UploadBegin, UploadFound, UploadNotSeen, CallsAtTheirRows, Uploaded
<1>4. CASE UploadInsert(c)
  BY <1>4 DEF UploadInsert
<1> QED
  BY <1>1, <1>2, <1>3, <1>4 DEF CreateOrder

\* A result is answered "ok" because the order was found final or because it
\* was committed.
LEMMA ApplyAnswers ==
  ASSUME Inv, [Next]_vars, NEW c \in Applies, pc'[c] # pc[c], pc'[c] = "ok"
  PROVE  /\ orders[c.number] # NoRow
         /\ IsFinal(orders[c.number].status) \/ ApplyCommit(c)
<1> USE CallTypes DEF Inv, TypeOK, Goes, Begins, Returns, SerializationFailure
<1>1. ApplyAccrualResult(c) \/ Fails(c)
  BY OneCallMoves DEF CallStep
<1>2. CASE Fails(c)
  BY <1>2 DEF Fails
<1>3. CASE ApplyAccrualResult(c)
  BY <1>3 DEF ApplyAccrualResult, ApplyBegin, ApplyLock, ApplyUpdate, ApplyCredit,
              ApplyConflict, ApplyCommit, CallsAtTheirRows, Uploaded
<1> QED
  BY <1>1, <1>2, <1>3

\* No step makes an answer untrue, and each new one is true.
LEMMA AnswersKept ==
  ASSUME Inv, AnswersAreTrue, [Next]_vars
  PROVE  AnswersAreTrue'
<1> USE CallTypes DEF Inv, TypeOK, TablesTypeOK
<1>1. ASSUME NEW c \in Withdraws, pc'[c] = "ok"
      PROVE  /\ withdrawals'[c.number] = [user |-> c.user, sum |-> c.sum]
             /\ pc[c] # "ok" => withdrawals[c.number] = NoRow
  <2>1. [user |-> c.user, sum |-> c.sum] # NoRow
    BY NullsAssumption DEF WithdrawalRow
  <2>2. CASE pc[c] = "ok"
    BY <2>1, <2>2, RowsStay DEF AnswersAreTrue
  <2>3. CASE pc[c] # "ok"
    BY <1>1, <2>3, WithdrawAnswers, ZenonT(60)
    DEF WithdrawCommit, WithdrawalCreated, InsertedNumberIsFree
  <2> QED
    BY <2>2, <2>3
<1>2. ASSUME NEW c \in Withdraws, NEW d \in Withdraws \ {c}, d.number = c.number,
             pc'[c] = "ok"
      PROVE  pc'[d] # "ok"
  <2> SUFFICES ASSUME pc'[d] = "ok" PROVE FALSE
    OBVIOUS
  <2>1. ASSUME NEW e \in Withdraws, pc[e] = "ok" PROVE withdrawals[e.number] # NoRow
    <3>1. [user |-> e.user, sum |-> e.sum] \in WithdrawalRow
      BY DEF WithdrawalRow
    <3>2. withdrawals[e.number] = [user |-> e.user, sum |-> e.sum]
      BY <2>1 DEF AnswersAreTrue
    <3> QED
      BY <3>1, <3>2, RowIsNotNull
  <2>2. pc[c] = "ok" \/ pc[d] = "ok"
    BY <1>2, OneCallMoves
  <2>3. pc[d] = "ok" => pc[c] = "ok"
    <3>1. pc[c] # "ok" => withdrawals[c.number] = NoRow
      BY <1>1, <1>2
    <3> QED
      BY <1>2, <2>1, <3>1
  <2>4. pc[c] = "ok" => pc[d] = "ok"
    <3>1. pc[d] # "ok" => withdrawals[d.number] = NoRow
      BY <1>1
    <3> QED
      BY <1>2, <2>1, <3>1
  <2> QED
    BY <1>2, <2>2, <2>3, <2>4 DEF AnswersAreTrue
<1>3. ASSUME NEW c \in Withdraws, pc'[c] = "exists" PROVE withdrawals'[c.number] # NoRow
  BY <1>3, WithdrawAnswers, RowsStay DEF AnswersAreTrue
<1>4. ASSUME NEW c \in Uploads, pc'[c] \in {"created", "mine", "other"}
      PROVE  /\ orders'[c.number] # NoRow
             /\ pc'[c] # "other" => orders'[c.number].user = c.user
             /\ pc'[c] = "other" => orders'[c.number].user # c.user
             /\ pc'[c] = "created" /\ pc[c] # "created" => orders[c.number] = NoRow
  <2>1. CASE pc'[c] = pc[c]
    BY <1>4, <2>1, RowsStay DEF AnswersAreTrue, Uploaded
  <2>2. CASE pc'[c] # pc[c] /\ pc'[c] = "created"
    <3>1. UploadInsert(c)
      BY <2>2, UploadAnswers
    <3>2. orders'[c.number] = [user |-> c.user, status |-> "NEW", accrual |-> NoAccrual]
      BY <3>1 DEF UploadInsert, OrderCreated
    <3>3. orders'[c.number] # NoRow
      BY <3>2, NullsAssumption DEF OrderRow, Statuses, Accruals
    <3> QED
      BY <2>2, <3>1, <3>2, <3>3 DEF UploadInsert, Uploaded
  <2>3. CASE pc'[c] # pc[c] /\ pc'[c] # "created"
    BY <1>4, <2>3, UploadAnswers, RowsStay
  <2> QED
    BY <2>1, <2>2, <2>3
<1>5. ASSUME NEW c \in Uploads, NEW d \in Uploads \ {c}, d.number = c.number,
             pc'[c] = "created"
      PROVE  pc'[d] # "created"
  <2> SUFFICES ASSUME pc'[d] = "created" PROVE FALSE
    OBVIOUS
  <2>1. ASSUME NEW e \in Uploads, pc[e] = "created" PROVE orders[e.number] # NoRow
    BY <2>1 DEF AnswersAreTrue, Uploaded
  <2>2. pc[c] = "created" \/ pc[d] = "created"
    BY <1>5, OneCallMoves
  <2>3. pc[c] = "created" /\ pc[d] = "created"
    BY <1>4, <1>5, <2>1, <2>2
  <2> QED
    BY <1>5, <2>3 DEF AnswersAreTrue
<1>6. ASSUME NEW c \in Applies, pc'[c] = "ok", IsFinal(c.status)
      PROVE  IsFinal(orders'[c.number].status)
  <2>1. CASE pc[c] = "ok"
    BY <1>6, <2>1, RowsStay DEF AnswersAreTrue, CallsAtTheirRows, Uploaded
  <2>2. CASE pc[c] # "ok" /\ IsFinal(orders[c.number].status)
    BY <1>6, <2>2, RowsStay, ApplyAnswers
  <2>3. CASE pc[c] # "ok" /\ ApplyCommit(c)
    BY <1>6, <2>3 DEF ApplyCommit, AccrualApplied, CheckedOrderStaysOpen, Uploaded
  <2> QED
    BY <1>6, <2>1, <2>2, <2>3, ApplyAnswers
<1> QED
  BY <1>1, <1>2, <1>3, <1>4, <1>5, <1>6 DEF AnswersAreTrue, Uploaded

\* What the callers were told is and stays true.
THEOREM AnswersAreTrueHolds == Spec => []AnswersAreTrue
<1>1. Init => AnswersAreTrue
  BY CallTypes DEF Init, AnswersAreTrue
<1>2. Inv /\ AnswersAreTrue /\ [Next]_vars => AnswersAreTrue'
  BY AnswersKept
<1> QED
  BY <1>1, <1>2, InvHolds, PTL DEF Spec

-----------------------------------------------------------------------------
(* Waiting *)

\* d has a lock, or an index entry it may still commit, that the next statement
\* of c needs.  An upload inserts in one statement, so nobody waits for one.
WaitsFor(c, d) ==
  /\ c # d
  /\ \/ c \in Withdraws /\ pc[c] \in {"select", "debit"} /\ Holds(d, c.user)
     \/ /\ c \in Withdraws /\ pc[c] = "insert"
        /\ d \in Withdraws /\ pc[d] \in {"debit", "commit"} /\ d.number = c.number
     \/ c \in Applies /\ pc[c] \in {"select", "update"} /\ Holds(d, c.number)
     \/ c \in Applies /\ pc[c] = "credit" /\ Holds(d, orders[c.number].user)
     \/ c \in Uploads /\ pc[c] = "upload" /\ d \in Withdraws /\ Holds(d, c.user)

\* How far a call is on the way from its first lock to its commit.
Stage(c) ==
  CASE pc[c] = "update" -> 1
    [] pc[c] = "credit" -> 2
    [] pc[c] = "insert" -> 3
    [] pc[c] \in {"debit", "commit"} -> 4
    [] OTHER -> 0

\* Whoever is waited for is further, so no calls wait for each other in a circle,
\* and the furthest of those that have begun waits for nobody.
WaitsGoForward == \A c, d \in Calls : WaitsFor(c, d) => Stage(c) < Stage(d)

\* A statement that cannot go on, and cannot fail to serialize, waits for a call.
LEMMA BlockedWaits ==
  ASSUME Inv, NEW c \in Calls, ~\E d \in Calls : WaitsFor(c, d)
  PROVE  /\ c \in Withdraws /\ pc[c] \in {"select", "debit"} =>
              Granted(c, c.user) \/ c.user \in missed[c]
         /\ c \in Withdraws /\ pc[c] = "insert" => ~NumberPending(c)
         /\ c \in Applies /\ pc[c] \in {"select", "update"} =>
              Granted(c, c.number) \/ c.number \in missed[c]
         /\ c \in Applies /\ pc[c] = "credit" =>
              \/ Granted(c, orders[c.number].user)
              \/ orders[c.number].user \in missed[c]
         /\ c \in Uploads /\ pc[c] = "upload" => ~LockedByWithdrawal(c.user)
BY CallTypes DEF WaitsFor, Granted, LockedByOther, NumberPending, LockedByWithdrawal

LEMMA InvWaitsGoForward == Inv => WaitsGoForward
<1> SUFFICES ASSUME Inv, NEW c \in Calls, NEW d \in Calls, WaitsFor(c, d)
             PROVE  Stage(c) < Stage(d)
  BY DEF WaitsGoForward
<1>1. \A r : Holds(d, r) => Stage(d) \in {1, 2, 3, 4}
  BY CallTypes DEF Holds, Stage
<1>2. CASE c \in Withdraws /\ pc[c] = "select"
  BY <1>1, <1>2 DEF WaitsFor, Stage
<1>3. ~(c \in Withdraws /\ pc[c] = "debit")
  BY CallTypes DEF WaitsFor, Inv, LocksExclude, Holds, Rows
<1>4. CASE c \in Withdraws /\ pc[c] = "insert"
  BY <1>4, CallTypes DEF WaitsFor, Stage
<1>5. CASE c \in Applies /\ pc[c] = "select"
  BY <1>1, <1>5, CallTypes DEF WaitsFor, Stage
<1>6. ~(c \in Applies /\ pc[c] = "update")
  BY CallTypes DEF WaitsFor, Inv, LocksExclude, Holds, Rows
\* What a result waits for at last is a user, and of the results only one that
\* is about to commit holds a user.
<1>7. CASE c \in Applies /\ pc[c] = "credit"
  <2>1. orders[c.number].user \in Users
    BY <1>7, CallTypes DEF Inv, CallsAtTheirRows, Uploaded, TypeOK, TablesTypeOK, OrderRow
  <2>2. Holds(d, orders[c.number].user)
    BY <1>7, CallTypes DEF WaitsFor
  <2>3. pc[d] \in {"insert", "debit", "commit"}
    BY <2>1, <2>2, CallTypes, KeysAssumption DEF Holds
  <2> QED
    BY <1>7, <2>3 DEF Stage
<1>8. CASE c \in Uploads /\ pc[c] = "upload"
  BY <1>1, <1>8, CallTypes DEF WaitsFor, Stage
<1> QED
  BY <1>2, <1>3, <1>4, <1>5, <1>6, <1>7, <1>8 DEF WaitsFor

\* No deadlock of the database (40P01) arises between withdrawals, results and
\* uploads: every wait, for a row lock or for a number that is not committed yet,
\* is for a call that is further.
THEOREM WaitsGoForwardHolds == Spec => []WaitsGoForward
BY InvWaitsGoForward, InvHolds, PTL
=============================================================================
