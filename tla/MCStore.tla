------------------------------- MODULE MCStore -------------------------------
(* The calls of the runs of Store. *)
EXTENDS Store, TLC

CONSTANTS u1, u2, n1, n2

Withdraw(id, u, n, sum) ==
  [op |-> "withdraw", id |-> id, user |-> u, number |-> n, sum |-> sum]
Apply(id, n, status, accrual) ==
  [op |-> "apply", id |-> id, number |-> n, status |-> status, accrual |-> accrual]
Upload(id, u, n) == [op |-> "upload", id |-> id, user |-> u, number |-> n]

NoCalls == {}

(* One user: two orders whose accruals are paid at the same time, one of them *)
(* held by two workers, and a withdrawal that needs both.                     *)
BalanceUsers == {u1}
BalanceNumbers == {n1, n2}
BalanceAmounts == {0, 1, 2}
BalanceUploads == {Upload(1, u1, n1), Upload(2, u1, n2)}
BalanceApplies ==
  {Apply(1, n1, "PROCESSED", 1), Apply(2, n1, "PROCESSED", 1),
   Apply(3, n2, "PROCESSED", 1)}
BalanceWithdraws == {Withdraw(1, u1, n1, 2)}

(* Two users who each earn from an order of their own, try to upload the       *)
(* other's, and spend under the same number.                                   *)
TwoUsers == {u1, u2}
UsersNumbers == {n1, n2}
UsersAmounts == {0, 1}
UsersUploads == {Upload(1, u1, n1), Upload(2, u2, n2), Upload(3, u2, n1)}
UsersApplies == {Apply(1, n1, "PROCESSED", 1), Apply(2, n2, "PROCESSED", 1)}
UsersWithdraws == {Withdraw(1, u1, n1, 1), Withdraw(2, u2, n1, 1)}

(* Two users who upload the same number at the same time, one of them twice. *)
RaceNumbers == {n1}
RaceAmounts == {0}
RaceUploads == {Upload(1, u1, n1), Upload(2, u2, n1), Upload(3, u1, n1)}

(* One user: two withdrawals compete for what one result pays, and the answer *)
(* that was fetched before it arrives after it.  There are few calls, for the *)
(* temporal property.                                                         *)
FewUsers == {u1}
FewNumbers == {n1}
FewAmounts == {0, 2}
FewUploads == {Upload(1, u1, n1)}
FewApplies ==
  {Apply(1, n1, "PROCESSED", 2), Apply(2, n1, "PROCESSING", NoAccrual)}
FewWithdraws == {Withdraw(1, u1, n1, 2), Withdraw(2, u1, n1, 2)}
=============================================================================
