------------------------------- MODULE Schema -------------------------------
(***************************************************************************)
(* The tables of migrations/000001_init_schema.up.sql, as the committed    *)
(* state of the database, and what each writing transaction of             *)
(* internal/repository/postgres.go changes in them.  A table is a function *)
(* from its key to a row, or to NoRow where no row has the key.            *)
(*                                                                         *)
(* A user is identified by its login (UNIQUE, as the id is), an order and  *)
(* a withdrawal by the order number.  Amounts are natural numbers of the   *)
(* smallest unit: the columns are DOUBLE PRECISION, and rounding is left   *)
(* out here.                                                               *)
(***************************************************************************)
EXTENDS Integers

CONSTANTS Users,      \* the logins
          Numbers,    \* the order numbers
          Amounts,    \* the amounts that accruals and withdrawals may have
          NoRow,      \* "no row with this key"
          NoAccrual   \* the NULL accrual of an order

Statuses == {"NEW", "PROCESSING", "INVALID", "PROCESSED"}

\* OrderStatus.IsFinal
IsFinal(status) == status \in {"INVALID", "PROCESSED"}

Accruals == Amounts \cup {NoAccrual}
Sums == Amounts \ {0}

UserRow == [current : Int, withdrawn : Int]
OrderRow == [user : Users, status : Statuses, accrual : Accruals]
WithdrawalRow == [user : Users, sum : Sums]

\* Amounts are not negative; rows of different tables are different things;
\* the two "nulls" are none of the values they stand in for.
ASSUME AmountsAssumption == Amounts \subseteq Nat /\ NoAccrual \notin Int
ASSUME KeysAssumption == Users \cap Numbers = {}
ASSUME NullsAssumption ==
  /\ NoRow \notin UserRow
  /\ NoRow \notin OrderRow
  /\ NoRow \notin WithdrawalRow

VARIABLES users, orders, withdrawals

tables == <<users, orders, withdrawals>>

TablesTypeOK ==
  /\ users \in [Users -> UserRow \cup {NoRow}]
  /\ orders \in [Numbers -> OrderRow \cup {NoRow}]
  /\ withdrawals \in [Numbers -> WithdrawalRow \cup {NoRow}]

\* The migration leaves three empty tables.
TablesInit ==
  /\ users = [u \in Users |-> NoRow]
  /\ orders = [n \in Numbers |-> NoRow]
  /\ withdrawals = [n \in Numbers |-> NoRow]

Registered(u) == users[u] # NoRow
Uploaded(n) == orders[n] # NoRow

-----------------------------------------------------------------------------
(* What a committed transaction leaves in the tables. *)

UserCreated(u) ==
  /\ users' = [users EXCEPT ![u] = [current |-> 0, withdrawn |-> 0]]
  /\ UNCHANGED <<orders, withdrawals>>

OrderCreated(u, n) ==
  /\ orders' = [orders EXCEPT
                  ![n] = [user |-> u, status |-> "NEW", accrual |-> NoAccrual]]
  /\ UNCHANGED <<users, withdrawals>>

\* A NULL accrual credits 0: accrualValue keeps its zero value.
AccrualValue(accrual) == IF accrual = NoAccrual THEN 0 ELSE accrual

Credited(row, amount) ==
  [current |-> row.current + amount, withdrawn |-> row.withdrawn]

Debited(row, amount) ==
  [current |-> row.current - amount, withdrawn |-> row.withdrawn + amount]

AccrualApplied(n, status, accrual) ==
  LET owner == orders[n].user
  IN  /\ orders' = [orders EXCEPT
                      ![n] = [user |-> owner, status |-> status, accrual |-> accrual]]
      /\ users' = IF status = "PROCESSED"
                    THEN [users EXCEPT
                            ![owner] = Credited(users[owner], AccrualValue(accrual))]
                    ELSE users
      /\ UNCHANGED withdrawals

WithdrawalCreated(u, n, sum) ==
  /\ withdrawals' = [withdrawals EXCEPT ![n] = [user |-> u, sum |-> sum]]
  /\ users' = [users EXCEPT ![u] = Debited(users[u], sum)]
  /\ UNCHANGED orders
=============================================================================
