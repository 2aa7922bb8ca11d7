----------------------------- MODULE MCLifecycle -----------------------------
(* The instance of Lifecycle. *)
EXTENDS Lifecycle

CONSTANTS o1

OneOrder == {o1}
ThreeStatuses == {"REGISTERED", "INVALID", "PROCESSED"}
=============================================================================
