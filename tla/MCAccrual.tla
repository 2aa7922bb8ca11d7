------------------------------ MODULE MCAccrual ------------------------------
(* The instances of AccrualProcessor. *)
EXTENDS AccrualProcessor, TLC

CONSTANTS o1, o2, w1, w2

TwoOrders == {o1, o2}
OneOrder == {o1}
TwoWorkers == {w1, w2}
OneWorker == {w1}
TwoStatuses == {"PROCESSING", "PROCESSED"}
FinalStatuses == {"PROCESSED"}

Symmetry == Permutations(TwoWorkers) \cup Permutations(TwoOrders)
=============================================================================
