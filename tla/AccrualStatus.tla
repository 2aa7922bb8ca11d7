---------------------------- MODULE AccrualStatus ----------------------------
(***************************************************************************)
(* The statuses of an order in the loyalty system (models/service.go), and *)
(* what they have to do with those of the accrual service                  *)
(* (models/accrual.go).                                                    *)
(***************************************************************************)

CONSTANTS Orders,         \* the order numbers
          AccrualStatuses \* what the accrual service may say of an order

ASSUME StatusesAssumption ==
  AccrualStatuses \subseteq {"REGISTERED", "PROCESSING", "INVALID", "PROCESSED"}

OrderStatuses == {"NEW", "PROCESSING", "INVALID", "PROCESSED"}

IsFinal(s) == s \in {"INVALID", "PROCESSED"}

\* Mutant: whatever is not PROCESSED is taken for INVALID.
TwoWayStatus(s) == IF s = "PROCESSED" THEN "PROCESSED" ELSE "INVALID"

\* Mutant: the accrual service's status is taken as it is.
SameStatus(s) == s

ToOrderStatus(s) ==
  CASE s = "PROCESSED" -> "PROCESSED"
    [] s = "INVALID" -> "INVALID"
    [] s \in {"REGISTERED", "PROCESSING"} -> "PROCESSING"
    [] OTHER -> "NEW"

\* The accrual service's knowledge of an order only moves towards a final status.
Later(s) ==
  CASE s = "none" -> AccrualStatuses
    [] s = "REGISTERED" -> AccrualStatuses \ {"REGISTERED"}
    [] s = "PROCESSING" -> AccrualStatuses \ {"REGISTERED", "PROCESSING"}
    [] OTHER -> {}
=============================================================================
