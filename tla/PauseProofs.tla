----------------------------- MODULE PauseProofs -----------------------------
(***************************************************************************)
(* Theorems about PauseGate, for any workers, headers, clock and number of *)
(* timers.  Inv is inductive: the timer of a pause is known, a timer that  *)
(* has fired was due, whoever sleeps has a pause to wake him, and the      *)
(* pause is as long as every 429 asked for whose Retry-After fits a        *)
(* duration.  Of one that does not fit nothing is claimed.                 *)
(***************************************************************************)
EXTENDS PauseGate, TLAPS

FiredWasDue == \A i \in Timers : timer[i].state = "fired" => timer[i].deadline <= now

SleepersHavePause == \A w \in Workers : worker[w] = "waiting" => pauseUntil # NoTime

\* For a Retry-After that fits, setPauseUntil is called with the time asked for.
WishIsUntil == \A w \in Workers : wish[w] # NoTime => wish[w] = until[w]

\* Until the shutdown, whatever pauses an overflowing Retry-After sets.
PauseIsLongEnough ==
  ctx # "cleared" => asked <= now \/ (pauseUntil # NoTime /\ asked <= pauseUntil)

Inv ==
  /\ TypeOK
  /\ PauseHasItsTimer
  /\ FiredWasDue
  /\ SleepersHavePause
  /\ WishIsUntil
  /\ PauseIsLongEnough

TimerRecord == [state : {"unused", "armed", "fired"}, deadline : Int]

-----------------------------------------------------------------------------
(* Arithmetic *)

\* The rounded time is later than the one that was asked for.
LEMMA RoundedIsLater ==
  ASSUME NEW t \in Int
  PROVE  Rounded(t) \in Int /\ t < Rounded(t)
<1>1. t \div Second \in Int /\ t % Second \in 0 .. Second - 1
  BY SecondAssumption
<1>2. t = Second * (t \div Second) + (t % Second)
  BY SecondAssumption
<1> DEFINE q == t \div Second
           p == Second * q
<1>3. p \in Int /\ p = q * Second
  BY <1>1, SecondAssumption
<1>4. t = p + (t % Second)
  BY <1>2
<1>5. Rounded(t) = p + Second
  BY <1>3 DEF Rounded
<1> HIDE DEF p
<1> QED
  BY <1>1, <1>3, <1>4, <1>5, SecondAssumption

\* A time to wait for is a time, although the product wraps.
LEMMA RetryAfterIsInt ==
  ASSUME NEW header \in Headers
  PROVE  parseRetryAfter(header) \in Int
<1>1. header \in Int /\ Second \in Int /\ Minute \in Int
  BY HeadersAssumption, SecondAssumption, MinuteAssumption
<1>2. header * Second \in Int
  BY <1>1
<1> DEFINE p == header * Second
<1>3. 2 * Half \in Nat \ {0} /\ Half \in Int
  BY HalfAssumption
<1> HIDE DEF p
<1>4. ((p + Half) % (2 * Half)) - Half \in Int
  BY <1>2, <1>3 DEF p
<1> QED
  BY <1>1, <1>4 DEF parseRetryAfter, Product, p

\* The product of a Retry-After that fits does not wrap.
LEMMA FittingRetryAfter ==
  ASSUME NEW header \in Headers, Fits(header)
  PROVE  parseRetryAfter(header) = RetryAfter(header) /\ RetryAfter(header) \in Nat
<1>1. header \in Nat /\ Second \in Nat /\ Minute \in Nat
  BY HeadersAssumption, SecondAssumption, MinuteAssumption
<1> DEFINE p == header * Second
<1>2. p \in Nat /\ p < Half
  BY <1>1 DEF Fits
<1> HIDE DEF p
<1>3. Half \in Nat /\ p + Half \in Nat /\ p + Half < 2 * Half
  BY <1>2, HalfAssumption
<1>4. (p + Half) % (2 * Half) = p + Half
  <2> DEFINE a == p + Half
             b == 2 * Half
  <2>1. a \in Nat /\ b \in Nat \ {0} /\ a < b
    BY <1>3, HalfAssumption
  <2> HIDE DEF a, b
  <2>2. a % b = a
    BY <2>1
  <2> QED
    BY <2>2 DEF a, b
<1>5. Product(header, Second) = p
  BY <1>2, <1>3, <1>4 DEF Product, p
<1> QED
  BY <1>1, <1>2, <1>5 DEF parseRetryAfter, RetryAfter, p

-----------------------------------------------------------------------------
LEMMA InitInv == Init => Inv
BY BoundsAssumption
DEF Init, Inv, TypeOK, PauseHasItsTimer, FiredWasDue, SleepersHavePause,
    WishIsUntil, PauseIsLongEnough, Unused, Timers

\* Stop leaves records behind, and no timer that was not due has fired.
LEMMA StoppedTimers ==
  ASSUME Inv
  PROVE  /\ Stopped \in [Timers -> TimerRecord]
         /\ \A i \in Timers : Stopped[i].state = "fired" => Stopped[i] = timer[i]
BY DEF Inv, TypeOK, Stopped, Unused, TimerRecord

\* Broadcast leaves nobody waiting.
LEMMA AwakeWorkers ==
  ASSUME Inv
  PROVE  /\ Awake \in [Workers -> {"idle", "gate", "waiting", "check", "request",
                                   "limited", "done"}]
         /\ \A w \in Workers : Awake[w] # "waiting"
BY DEF Inv, TypeOK, Awake

LEMMA SetPauseUntilInv ==
  ASSUME Inv, NEW w \in Workers, SetPauseUntil(w)
  PROVE  Inv'
<1> DEFINE rounded == Rounded(until[w])
<1>1. until[w] \in Int /\ rounded \in Int /\ until[w] < rounded
  BY RoundedIsLater DEF Inv, TypeOK
<1> HIDE DEF rounded
<1>2. /\ worker' \in [Workers -> {"idle", "gate", "waiting", "check", "request",
                                  "limited", "done"}]
      /\ \A v \in Workers : worker'[v] = "waiting" => worker[v] = "waiting"
      /\ until' \in [Workers -> Int]
      /\ UNCHANGED <<now, ctx>>
  BY DEF SetPauseUntil, Inv, TypeOK
<1>3. /\ asked' \in Nat /\ wish' \in [Workers -> Nat \cup {NoTime}]
      /\ asked' = asked \/ (asked < asked' /\ asked' = until[w])
  BY DEF SetPauseUntil, Inv, TypeOK, WishIsUntil, Noted
<1>4. WishIsUntil'
  BY DEF SetPauseUntil, Inv, TypeOK, WishIsUntil, Noted
<1>5. CASE UNCHANGED clock /\ pauseUntil # NoTime /\ rounded < pauseUntil
  <2>1. TypeOK'
    BY <1>1, <1>2, <1>3, <1>5 DEF Inv, TypeOK, clock
  <2>2. PauseIsLongEnough'
    BY <1>1, <1>2, <1>3, <1>5 DEF Inv, TypeOK, PauseIsLongEnough, clock
  <2> QED
    BY <1>2, <1>4, <1>5, <2>1, <2>2
    DEF Inv, PauseHasItsTimer, FiredWasDue, SleepersHavePause, clock
<1>6. ASSUME NEW i \in Timers, ~(pauseUntil # NoTime /\ rounded < pauseUntil),
             pauseUntil' = rounded, pauseTimer' = i,
             timer' = [Stopped EXCEPT ![i] = Armed(rounded)]
      PROVE  Inv'
  <2>1. rounded # NoTime /\ i # 0
    BY <1>1, NoTimeAssumption DEF Timers
  <2>2. TypeOK'
    BY <1>1, <1>2, <1>3, <1>6, <2>1, StoppedTimers DEF Inv, TypeOK, Armed, TimerRecord
  <2>3. PauseHasItsTimer'
    BY <1>6, StoppedTimers DEF PauseHasItsTimer, Armed, TimerRecord
  <2>4. FiredWasDue'
    BY <1>1, <1>2, <1>6, StoppedTimers DEF Inv, FiredWasDue, Armed, TimerRecord
  <2>5. SleepersHavePause'
    BY <1>6, <2>1 DEF SleepersHavePause
  <2>6. PauseIsLongEnough'
    BY <1>1, <1>2, <1>3, <1>6, <2>1 DEF Inv, TypeOK, PauseIsLongEnough
  <2> QED
    BY <1>4, <2>2, <2>3, <2>4, <2>5, <2>6 DEF Inv
<1> QED
  BY <1>5, <1>6 DEF SetPauseUntil, rounded

LEMMA TimerFiresInv ==
  ASSUME Inv, NEW i \in Timers, TimerFires(i)
  PROVE  Inv'
<1> USE DEF Inv, TypeOK, TimerFires, history
<1>1. TypeOK'
  OBVIOUS
<1>2. PauseHasItsTimer'
  BY DEF PauseHasItsTimer
<1>3. FiredWasDue' /\ SleepersHavePause' /\ WishIsUntil' /\ PauseIsLongEnough'
  BY DEF FiredWasDue, SleepersHavePause, WishIsUntil, PauseIsLongEnough
<1> QED
  BY <1>1, <1>2, <1>3

\* The callback of the pause comes when its time is over; that of an older one
\* finds another timer in its place.
LEMMA CallbackInv ==
  ASSUME Inv, NEW i \in Timers, Callback(i)
  PROVE  Inv'
<1> USE DEF Inv, TypeOK, history
<1>1. CASE pauseUntil = timer[i].deadline
  <2>1. timer[i].deadline \in Int /\ timer[i].deadline <= now
    BY DEF FiredWasDue, Callback
  <2>2. /\ timer' = [timer EXCEPT ![i] = Unused]
        /\ pauseUntil' = NoTime /\ pauseTimer' = 0 /\ worker' = Awake
        /\ UNCHANGED <<now, until, ctx, history>>
    BY <1>1 DEF Callback
  <2>3. TypeOK'
    BY <2>2, AwakeWorkers DEF Unused
  <2>4. PauseHasItsTimer'
    BY <2>2 DEF PauseHasItsTimer
  <2>5. FiredWasDue'
    BY <2>2 DEF FiredWasDue, Unused
  <2>6. SleepersHavePause'
    BY <2>2, AwakeWorkers DEF SleepersHavePause
  <2>7. WishIsUntil' /\ PauseIsLongEnough'
    BY <1>1, <2>1, <2>2 DEF WishIsUntil, PauseIsLongEnough
  <2> QED
    BY <2>3, <2>4, <2>5, <2>6, <2>7
<1>2. CASE pauseUntil # timer[i].deadline
  <2>1. /\ timer' = [timer EXCEPT ![i] = Unused]
        /\ UNCHANGED <<now, pauseUntil, pauseTimer, worker, until, ctx, history>>
    BY <1>2 DEF Callback
  <2>2. TypeOK'
    BY <2>1 DEF Unused
  <2>3. PauseHasItsTimer'
    BY <1>2, <2>1 DEF PauseHasItsTimer
  <2>4. /\ FiredWasDue' /\ SleepersHavePause'
        /\ WishIsUntil' /\ PauseIsLongEnough'
    BY <2>1 DEF FiredWasDue, Unused, SleepersHavePause, WishIsUntil, PauseIsLongEnough
  <2> QED
    BY <2>2, <2>3, <2>4
<1> QED
  BY <1>1, <1>2

LEMMA ShutdownInv == Inv /\ Shutdown => Inv'
<1> SUFFICES ASSUME Inv, Shutdown PROVE Inv'
  OBVIOUS
<1>1. TypeOK'
  BY StoppedTimers, AwakeWorkers DEF Shutdown, Inv, TypeOK, TimerRecord, history
<1>2. PauseHasItsTimer' /\ WishIsUntil' /\ PauseIsLongEnough'
  BY DEF Shutdown, Inv, PauseHasItsTimer, WishIsUntil, PauseIsLongEnough, history
<1>3. FiredWasDue'
  BY StoppedTimers DEF Shutdown, Inv, FiredWasDue
<1>4. SleepersHavePause'
  BY AwakeWorkers DEF Shutdown, SleepersHavePause
<1> QED
  BY <1>1, <1>2, <1>3, <1>4 DEF Inv

LEMMA TickInv == Inv /\ Tick => Inv'
BY DEF Inv, TypeOK, PauseHasItsTimer, FiredWasDue, SleepersHavePause,
       WishIsUntil, PauseIsLongEnough, Tick, clock, history

LEMMA CancelInv == Inv /\ Cancel => Inv'
BY DEF Inv, TypeOK, PauseHasItsTimer, FiredWasDue, SleepersHavePause,
       WishIsUntil, PauseIsLongEnough, Cancel, clock, history

\* The other steps of a worker leave the clock alone.
WorkerOnly(w) ==
  Take(w) \/ TakeClosed(w) \/ Gate(w) \/ Check(w) \/ Answer(w) \/ AnswerLimited(w)

LEMMA WorkerOnlyEffect ==
  ASSUME Inv, NEW w \in Workers, WorkerOnly(w)
  PROVE  /\ UNCHANGED <<now, clock, ctx, asked>>
         /\ until' \in [Workers -> Int] /\ wish' \in [Workers -> Nat \cup {NoTime}]
         /\ WishIsUntil'
         /\ worker' \in [Workers -> {"idle", "gate", "waiting", "check", "request",
                                     "limited", "done"}]
         /\ \A v \in Workers : worker'[v] = "waiting" => worker[v] = "waiting" \/ IsPaused
<1> USE DEF Inv, TypeOK, WishIsUntil, WorkerGoes, answer
<1>1. CASE Take(w)
  BY <1>1 DEF Take
<1>2. CASE TakeClosed(w)
  BY <1>2 DEF TakeClosed
<1>3. CASE Gate(w)
  BY <1>3 DEF Gate
<1>4. CASE Check(w)
  BY <1>4 DEF Check
<1>5. CASE Answer(w)
  BY <1>5 DEF Answer
<1>6. CASE AnswerLimited(w)
  <2>1. PICK header \in Headers :
          /\ until' = [until EXCEPT ![w] = now + parseRetryAfter(header)]
          /\ wish' = [wish EXCEPT ![w] = IF Fits(header) THEN now + RetryAfter(header)
                                                        ELSE NoTime]
          /\ WorkerGoes(w, "request", "limited")
    BY <1>6 DEF AnswerLimited
  <2>2. now + parseRetryAfter(header) \in Int
    BY RetryAfterIsInt
  <2>3. Fits(header) => /\ now + RetryAfter(header) \in Nat
                        /\ now + RetryAfter(header) = now + parseRetryAfter(header)
    BY FittingRetryAfter
  <2>4. until' \in [Workers -> Int] /\ wish' \in [Workers -> Nat \cup {NoTime}]
    BY <2>1, <2>2, <2>3
  <2>5. WishIsUntil'
    BY <2>1, <2>3
  <2> QED
    BY <2>1, <2>4, <2>5
<1> QED
  BY <1>1, <1>2, <1>3, <1>4, <1>5, <1>6 DEF WorkerOnly

LEMMA WorkerOnlyInv ==
  ASSUME Inv, NEW w \in Workers, WorkerOnly(w)
  PROVE  Inv'
BY WorkerOnlyEffect
DEF Inv, TypeOK, PauseHasItsTimer, FiredWasDue, SleepersHavePause,
    WishIsUntil, PauseIsLongEnough, IsPaused, clock

LEMMA NextInv == Inv /\ [Next]_vars => Inv'
<1> SUFFICES ASSUME Inv, [Next]_vars PROVE Inv'
  OBVIOUS
<1>1. CASE UNCHANGED vars
  BY <1>1 DEF Inv, TypeOK, PauseHasItsTimer, FiredWasDue, SleepersHavePause,
              WishIsUntil, PauseIsLongEnough, vars, clock, history
<1>2. ASSUME NEW w \in Workers, WorkerStep(w) PROVE Inv'
  BY <1>2, WorkerOnlyInv, SetPauseUntilInv DEF WorkerStep, WorkerOnly
<1> QED
  BY <1>1, <1>2, TickInv, CancelInv, ShutdownInv, TimerFiresInv, CallbackInv DEF Next

\* The inductive invariant.
THEOREM InvHolds == Spec => []Inv
BY InitInv, NextInv, PTL DEF Spec

\* The variables keep their types, and a pause and its timer are set and
\* forgotten together.
THEOREM TypeCorrect == Spec => []TypeOK
<1>1. Inv => TypeOK
  BY DEF Inv
<1> QED
  BY <1>1, InvHolds, PTL

\* The timer that the processor holds is the one that will end its pause.
THEOREM PauseHasItsTimerHolds == Spec => []PauseHasItsTimer
<1>1. Inv => PauseHasItsTimer
  BY DEF Inv
<1> QED
  BY <1>1, InvHolds, PTL

-----------------------------------------------------------------------------
\* Only the gate lets a worker on, and only when nothing more is to be waited for.
LEMMA GateHonours ==
  ASSUME Inv, [Next]_vars, NEW w \in Workers, worker[w] = "gate", worker'[w] = "check"
  PROVE  asked <= now \/ ctx = "cleared"
<1>1. ~IsPaused => asked <= now \/ ctx = "cleared"
  BY DEF Inv, TypeOK, PauseIsLongEnough, IsPaused
<1>2. ASSUME NEW v \in Workers, WorkerStep(v) PROVE ~IsPaused
  <2>1. v = w /\ Gate(w)
    BY <1>2 DEF Inv, TypeOK, WorkerStep, Take, TakeClosed, Gate, Check, Answer,
                AnswerLimited, SetPauseUntil, WorkerGoes
  <2> QED
    BY <2>1 DEF Inv, TypeOK, Gate, WorkerGoes
<1>3. ~(Tick \/ Cancel \/ Shutdown)
  BY DEF Inv, TypeOK, Tick, Cancel, Shutdown, Awake
<1>4. \A i \in Timers : ~(TimerFires(i) \/ Callback(i))
  BY DEF Inv, TypeOK, TimerFires, Callback, Awake
<1>5. ~UNCHANGED vars
  BY DEF vars
<1> QED
  BY <1>1, <1>2, <1>3, <1>4, <1>5 DEF Next

\* No worker goes on earlier than any 429 asked for whose Retry-After fits a
\* duration and whose pause was set, up to the shutdown.  The time asked for is
\* taken from the header in the integers, not from the deadline of the code.
THEOREM HonoursRetryAfterHolds == Spec => HonoursRetryAfter
<1>1. Inv /\ [Next]_vars
        => [\A w \in Workers : worker[w] = "gate" /\ worker'[w] = "check"
              => asked <= now \/ ctx = "cleared"]_vars
  BY GateHonours
<1> QED
  BY <1>1, InvHolds, PTL DEF Spec, HonoursRetryAfter

-----------------------------------------------------------------------------
(* The refinement *)

Sleepers == {w \in Workers : worker[w] = "waiting"}

LEMMA InitSimulated == Init => P!PauseInit
BY DEF Init, P!PauseInit

\* While nobody falls asleep or wakes and the pause is left alone, nothing
\* happens but that its time may run out.
LEMMA TickSimulated == Inv /\ Tick => [P!PauseNext]_P!pauseVars
BY DEF Inv, TypeOK, Tick, clock, P!PauseNext, P!Expire, P!pauseVars

\* A pause that is cleared wakes everybody.
LEMMA WakeSimulated ==
  ASSUME Inv, pauseUntil' = NoTime, worker' = Awake
  PROVE  P!PauseNext
<1>1. {w \in Workers : worker'[w] = "waiting"} = {}
  BY AwakeWorkers
<1> QED
  BY <1>1 DEF P!PauseNext, P!Wake

LEMMA SetSimulated ==
  ASSUME Inv, NEW w \in Workers, SetPauseUntil(w)
  PROVE  [P!PauseNext]_P!pauseVars
<1>1. {v \in Workers : worker'[v] = "waiting"} = {v \in Workers : worker[v] = "waiting"}
  BY DEF SetPauseUntil, Inv, TypeOK
<1>2. now' = now
  BY DEF SetPauseUntil
<1>3. CASE UNCHANGED clock
  BY <1>1, <1>2, <1>3 DEF clock, P!pauseVars
<1>4. CASE pauseUntil' = Rounded(until[w])
  <2>1. pauseUntil' # NoTime
    BY <1>4, RoundedIsLater, NoTimeAssumption DEF Inv, TypeOK
  <2> QED
    BY <1>1, <2>1 DEF P!PauseNext, P!Set
<1> QED
  BY <1>3, <1>4 DEF SetPauseUntil

\* Nobody begins to wait but in a pause that runs.
LEMMA WorkerSimulated ==
  ASSUME Inv, NEW w \in Workers, WorkerOnly(w)
  PROVE  [P!PauseNext]_P!pauseVars
<1>1. UNCHANGED <<now, clock>>
  BY WorkerOnlyEffect
<1>2. CASE Gate(w) /\ IsPaused
  <2>1. Sleepers' = Sleepers \cup {w}
    BY <1>2 DEF Sleepers, Gate, WorkerGoes, Inv, TypeOK
  <2> QED
    BY <1>1, <1>2, <2>1 DEF P!PauseNext, P!Wait, Sleepers, IsPaused, clock
<1>3. CASE ~(Gate(w) /\ IsPaused)
  <2>1. Sleepers' = Sleepers
    BY <1>3 DEF Sleepers, WorkerOnly, Take, TakeClosed, Gate, Check, Answer,
                AnswerLimited, WorkerGoes, Inv, TypeOK
  <2> QED
    BY <1>1, <2>1 DEF P!pauseVars, Sleepers, clock
<1> QED
  BY <1>2, <1>3

LEMMA StepSimulated == Inv /\ [Next]_vars => [P!PauseNext]_P!pauseVars
<1> SUFFICES ASSUME Inv, [Next]_vars PROVE [P!PauseNext]_P!pauseVars
  OBVIOUS
<1>1. CASE UNCHANGED vars \/ Cancel
  BY <1>1 DEF vars, clock, Cancel, P!pauseVars
<1>2. CASE Shutdown
  BY <1>2, WakeSimulated DEF Shutdown
<1>3. ASSUME NEW i \in Timers, TimerFires(i) PROVE [P!PauseNext]_P!pauseVars
  BY <1>3 DEF TimerFires, P!pauseVars
<1>4. ASSUME NEW i \in Timers, Callback(i) PROVE [P!PauseNext]_P!pauseVars
  BY <1>4, WakeSimulated DEF Callback, P!pauseVars
<1>5. ASSUME NEW w \in Workers, WorkerStep(w) PROVE [P!PauseNext]_P!pauseVars
  BY <1>5, SetSimulated, WorkerSimulated DEF WorkerStep, WorkerOnly
<1> QED
  BY <1>1, <1>2, <1>3, <1>4, <1>5, TickSimulated DEF Next

\* Deadlines, timers and late callbacks amount to the pause that AccrualProcessor
\* relies on.
THEOREM ImplementsPause == Spec => PauseSpec
BY InitSimulated, StepSimulated, InvHolds, PTL DEF Spec, PauseSpec, P!PauseSpec

\* Nobody sleeps without a pause that will wake him.
THEOREM NoLostWakeupHolds == Spec => []P!NoLostWakeup
<1>1. Inv => P!NoLostWakeup
  BY DEF Inv, TypeOK, SleepersHavePause, P!NoLostWakeup
<1> QED
  BY <1>1, InvHolds, PTL
=============================================================================
