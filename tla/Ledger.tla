------------------------------- MODULE Ledger -------------------------------
(***************************************************************************)
(* What the repository promises its callers: every operation of the        *)
(* loyalty ledger happens at one instant, and only when it is allowed.     *)
(* There are no transactions, locks, snapshots or retries here; Store is   *)
(* the specification that has them and implements this one.                *)
(***************************************************************************)
EXTENDS Schema, Functions

\* A login is given out once.
CreateUser(u) ==
  /\ ~Registered(u)
  /\ UserCreated(u)

\* An order number is accepted once, from one user.
CreateOrder(u, n) ==
  /\ Registered(u)
  /\ ~Uploaded(n)
  /\ OrderCreated(u, n)

\* A result is recorded, and its accrual paid, while the order is not final.
ApplyAccrualResult(n, status, accrual) ==
  /\ Uploaded(n)
  /\ ~IsFinal(orders[n].status)
  /\ AccrualApplied(n, status, accrual)

\* Points are spent when there are enough, once per order number.
CreateWithdrawal(u, n, sum) ==
  /\ Registered(u)
  /\ users[u].current >= sum
  /\ withdrawals[n] = NoRow
  /\ WithdrawalCreated(u, n, sum)

Next ==
  \/ \E u \in Users : CreateUser(u)
  \/ \E u \in Users, n \in Numbers : CreateOrder(u, n)
  \/ \E n \in Numbers, status \in Statuses, accrual \in Accruals :
       ApplyAccrualResult(n, status, accrual)
  \/ \E u \in Users, n \in Numbers, sum \in Sums : CreateWithdrawal(u, n, sum)

Spec == TablesInit /\ [][Next]_tables

-----------------------------------------------------------------------------
OrdersOf(u) == {n \in Numbers : Uploaded(n) /\ orders[n].user = u}

WithdrawalsOf(u) == {n \in Numbers : withdrawals[n] # NoRow /\ withdrawals[n].user = u}

PaidOrdersOf(u) == {n \in OrdersOf(u) : orders[n].status = "PROCESSED"}

Earned(u) == SumFunction([n \in PaidOrdersOf(u) |-> AccrualValue(orders[n].accrual)])

Spent(u) == SumFunction([n \in WithdrawalsOf(u) |-> withdrawals[n].sum])

\* The two balances of a user, which the code only ever increments and
\* decrements, agree at every moment with the orders and the withdrawals they
\* stand for: no accrual is paid twice or lost, no withdrawal is free.
Conservation ==
  \A u \in Users : Registered(u) =>
    /\ users[u].current = Earned(u) - Spent(u)
    /\ users[u].withdrawn = Spent(u)

\* No balance is ever overdrawn (the schema has no CHECK that says so).
NonNegative == \A u \in Users : Registered(u) => users[u].current >= 0

\* A final order never changes again, whatever answer of the accrual service
\* arrives late or twice.
FinalIsForever ==
  [][\A n \in Numbers : Uploaded(n) /\ IsFinal(orders[n].status)
       => orders'[n] = orders[n]]_tables

\* A balance moves only together with the row that explains it: it grows by the
\* accrual of an order of the user that becomes PROCESSED in the same commit,
\* and shrinks by the sum of a withdrawal that appears in the same commit.
Explained(u) ==
  \/ \E n \in Numbers :
       /\ Uploaded(n) /\ orders[n].user = u
       /\ orders[n].status # "PROCESSED" /\ orders'[n].status = "PROCESSED"
       /\ users'[u] = Credited(users[u], AccrualValue(orders'[n].accrual))
  \/ \E n \in Numbers :
       /\ withdrawals[n] = NoRow /\ withdrawals'[n] # NoRow
       /\ withdrawals'[n].user = u
       /\ users'[u] = Debited(users[u], withdrawals'[n].sum)

BalanceMovesWithItsRow ==
  [][\A u \in Users : Registered(u) /\ users'[u] # users[u] => Explained(u)]_tables
=============================================================================
