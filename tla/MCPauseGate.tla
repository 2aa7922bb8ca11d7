----------------------------- MODULE MCPauseGate -----------------------------
(* An instance of PauseGate: two workers, a second of two ticks, a minute that *)
(* is not a whole number of seconds, and durations of four bits, for which the *)
(* last header is too large.                                                   *)
EXTENDS PauseGate

CONSTANTS w1, w2

TwoWorkers == {w1, w2}
SomeHeaders == {0, 1, 7}
=============================================================================
