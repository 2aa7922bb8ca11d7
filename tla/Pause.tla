-------------------------------- MODULE Pause --------------------------------
(***************************************************************************)
(* What a pause promises the workers: they wait in one only while it runs, *)
(* it may be set at any time, its time runs out, and it does not end       *)
(* without waking whoever waits.                                           *)
(*                                                                         *)
(* PauseGate implements this with the deadlines, the timers and the        *)
(* condition variable of the code; AccrualProcessor uses it.               *)
(***************************************************************************)

CONSTANT Workers

VARIABLES
  pause,  \* "none", "running", or "expired" with the wakeup yet to come
  waiting \* the workers that sleep

pauseVars == <<pause, waiting>>

PauseInit == pause = "none" /\ waiting = {}

Wait(w) ==
  /\ pause = "running"
  /\ waiting' = waiting \cup {w}
  /\ UNCHANGED pause

\* A pause set late is over at once.
Set == pause' \in {"running", "expired"} /\ UNCHANGED waiting

Expire == pause = "running" /\ pause' = "expired" /\ UNCHANGED waiting

Wake == pause' = "none" /\ waiting' = {}

PauseNext == (\E w \in Workers : Wait(w)) \/ Set \/ Expire \/ Wake

PauseSpec == PauseInit /\ [][PauseNext]_pauseVars

\* Nobody sleeps without a pause that will wake him.
NoLostWakeup == waiting # {} => pause # "none"
=============================================================================
