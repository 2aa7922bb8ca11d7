------------------------------ MODULE PauseGate ------------------------------
(***************************************************************************)
(* The pause of internal/service/accrualprocessor.go with its clock:       *)
(* pauseUntil, the timers that time.AfterFunc makes, the callbacks that    *)
(* race with their own Stop, and the workers who wait on pauseCond.        *)
(*                                                                         *)
(* A critical section of the mutex is one action.  Between them time       *)
(* passes: a deadline is computed before the mutex is taken, a timer fires *)
(* late, and a callback that has begun cannot be stopped any more.         *)
(*                                                                         *)
(* External: Go's timers.  The jobs and the requests are AccrualProcessor. *)
(***************************************************************************)
EXTENDS Integers

CONSTANTS Workers,
          Second,    \* the ticks of the clock in a second
          Minute,    \* and in the pause of a 429 that does not say how long
          Headers,   \* the numbers in Retry-After, 0 for none or no number
          Half,      \* half of the values of a time.Duration, 2^63 in the program
          MaxTimers, \* bound: the timers that are armed or fired
          Horizon,   \* bound: no pause is set beyond this time
          NoTime     \* time.Time{}

ASSUME SecondAssumption == Second \in Nat \ {0}
ASSUME MinuteAssumption == Minute \in Nat
ASSUME HeadersAssumption == Headers \subseteq Nat
ASSUME HalfAssumption == Half \in Nat \ {0}
ASSUME BoundsAssumption == MaxTimers \in Nat \ {0} /\ Horizon \in Nat
ASSUME NoTimeAssumption == NoTime \notin Int

VARIABLES
  now,
  pauseUntil, pauseTimer, \* pauseTimer is 0 when it is nil
  timer,                  \* the timers with the deadline that their closure holds
  worker, until,          \* until: the argument of setPauseUntil
  ctx,                    \* "live", "done", or "cleared" after the shutdown's half
  wish, asked             \* history: the time that the 429 in hand asks to wait for,
                          \* NoTime if its Retry-After does not fit a duration, and
                          \* the latest one of those that setPauseUntil was called for

clock == <<pauseUntil, pauseTimer, timer>>
answer == <<until, wish>>
history == <<wish, asked>>
vars == <<now, clock, worker, until, ctx, history>>

Timers == 1 .. MaxTimers
Unused == [state |-> "unused", deadline |-> 0]
Armed(t) == [state |-> "armed", deadline |-> t]

TypeOK ==
  /\ now \in Nat /\ asked \in Nat
  /\ pauseUntil \in Int \cup {NoTime}
  /\ pauseTimer \in {0} \cup Timers
  /\ pauseUntil = NoTime <=> pauseTimer = 0
  /\ timer \in [Timers -> [state : {"unused", "armed", "fired"}, deadline : Int]]
  /\ worker \in [Workers -> {"idle", "gate", "waiting", "check", "request",
                             "limited", "done"}]
  /\ until \in [Workers -> Int] /\ wish \in [Workers -> Nat \cup {NoTime}]
  /\ ctx \in {"live", "done", "cleared"}

Init ==
  /\ now = 0 /\ asked = 0
  /\ pauseUntil = NoTime /\ pauseTimer = 0
  /\ timer = [i \in Timers |-> Unused]
  /\ worker = [w \in Workers |-> "idle"]
  /\ until = [w \in Workers |-> 0] /\ wish = [w \in Workers |-> NoTime]
  /\ ctx = "live"

-----------------------------------------------------------------------------
(* accrual/client.go *)

\* The product of two signed integers, which wraps.
Product(a, b) == ((a * b + Half) % (2 * Half)) - Half

parseRetryAfter(header) == IF header = 0 THEN Minute ELSE Product(header, Second)

\* What the 429 means by it: the product in the integers.
RetryAfter(header) == IF header = 0 THEN Minute ELSE header * Second

\* Whether a time.Duration can hold it.
Fits(header) == header * Second < Half

-----------------------------------------------------------------------------
(* The pause *)

IsPaused == pauseUntil # NoTime /\ now < pauseUntil

\* Truncate(time.Second).Add(time.Second)
Rounded(t) == (t \div Second) * Second + Second

\* time.AfterFunc takes the first timer that is not in use.
FirstUnused(i) == timer[i] = Unused /\ \A j \in 1 .. i - 1 : timer[j] # Unused

\* Stop has no effect on a timer that has fired.
Stopped == [i \in Timers |->
              IF i = pauseTimer /\ timer[i].state = "armed" THEN Unused ELSE timer[i]]

Awake == [w \in Workers |-> IF worker[w] = "waiting" THEN "gate" ELSE worker[w]]

\* The history of a call: what its 429 asks for is from now on to be waited for.
Noted(w) ==
  /\ asked' = IF wish[w] # NoTime /\ asked < wish[w] THEN wish[w] ELSE asked
  /\ wish' = [wish EXCEPT ![w] = NoTime]

\* Mutant: the timer is stopped before it is known that it is to be replaced.
SetPauseStopsFirst(w) ==
  /\ worker[w] = "limited"
  /\ LET rounded == Rounded(until[w])
     IN  IF pauseUntil # NoTime /\ rounded < pauseUntil
           THEN timer' = Stopped /\ UNCHANGED <<pauseUntil, pauseTimer>>
           ELSE \E i \in Timers :
                  /\ FirstUnused(i)
                  /\ pauseUntil' = rounded /\ pauseTimer' = i
                  /\ timer' = [Stopped EXCEPT ![i] = Armed(rounded)]
  /\ worker' = [worker EXCEPT ![w] = "idle"]
  /\ Noted(w)
  /\ until' = [until EXCEPT ![w] = 0]
  /\ UNCHANGED <<now, ctx>>

SetPauseUntil(w) ==
  /\ worker[w] = "limited"
  /\ LET rounded == Rounded(until[w])
     IN  IF pauseUntil # NoTime /\ rounded < pauseUntil
           THEN UNCHANGED clock
           ELSE \E i \in Timers :
                  /\ FirstUnused(i)
                  /\ pauseUntil' = rounded /\ pauseTimer' = i
                  /\ timer' = [Stopped EXCEPT ![i] = Armed(rounded)]
  /\ worker' = [worker EXCEPT ![w] = "idle"]
  /\ Noted(w)
  /\ until' = [until EXCEPT ![w] = 0]
  /\ UNCHANGED <<now, ctx>>

\* The timer's goroutine starts, and now has to take the mutex.
TimerFires(i) ==
  /\ timer[i].state = "armed" /\ timer[i].deadline <= now
  /\ timer' = [timer EXCEPT ![i].state = "fired"]
  /\ UNCHANGED <<now, pauseUntil, pauseTimer, worker, until, ctx, history>>

\* Mutant: no Broadcast.
CallbackSilent(i) ==
  /\ timer[i].state = "fired"
  /\ timer' = [timer EXCEPT ![i] = Unused]
  /\ IF pauseUntil = timer[i].deadline
       THEN pauseUntil' = NoTime /\ pauseTimer' = 0
       ELSE UNCHANGED <<pauseUntil, pauseTimer>>
  /\ UNCHANGED <<now, worker, until, ctx, history>>

\* Mutant: the timer is not forgotten with its pause.
CallbackHalf(i) ==
  /\ timer[i].state = "fired"
  /\ timer' = [timer EXCEPT ![i] = Unused]
  /\ IF pauseUntil = timer[i].deadline
       THEN pauseUntil' = NoTime /\ worker' = Awake /\ UNCHANGED pauseTimer
       ELSE UNCHANGED <<pauseUntil, pauseTimer, worker>>
  /\ UNCHANGED <<now, until, ctx, history>>

\* Mutant: the callback does not look at whose pause it ends.
CallbackOfAnyPause(i) ==
  /\ timer[i].state = "fired"
  /\ timer' = [timer EXCEPT ![i] = Unused]
  /\ pauseUntil' = NoTime /\ pauseTimer' = 0 /\ worker' = Awake
  /\ UNCHANGED <<now, until, ctx, history>>

Callback(i) ==
  /\ timer[i].state = "fired"
  /\ timer' = [timer EXCEPT ![i] = Unused]
  /\ IF pauseUntil = timer[i].deadline
       THEN pauseUntil' = NoTime /\ pauseTimer' = 0 /\ worker' = Awake
       ELSE UNCHANGED <<pauseUntil, pauseTimer, worker>>
  /\ UNCHANGED <<now, until, ctx, history>>

Cancel ==
  /\ ctx = "live" /\ ctx' = "done"
  /\ UNCHANGED <<now, clock, worker, until, history>>

\* Mutant: no Broadcast.
ShutdownSilent ==
  /\ ctx = "done" /\ ctx' = "cleared"
  /\ pauseUntil' = NoTime /\ pauseTimer' = 0 /\ timer' = Stopped
  /\ UNCHANGED <<now, worker, until, history>>

\* A pause may be set once more after this, by a worker that is "limited".
Shutdown ==
  /\ ctx = "done" /\ ctx' = "cleared"
  /\ pauseUntil' = NoTime /\ pauseTimer' = 0 /\ timer' = Stopped
  /\ worker' = Awake
  /\ UNCHANGED <<now, until, history>>

-----------------------------------------------------------------------------
(* The workers *)

WorkerGoes(w, from, to) ==
  /\ worker[w] = from
  /\ worker' = [worker EXCEPT ![w] = to]
  /\ UNCHANGED <<now, clock, ctx, asked>>

Take(w) == WorkerGoes(w, "idle", "gate") /\ UNCHANGED answer

\* The channel is closed after the shutdown's half.
TakeClosed(w) == ctx = "cleared" /\ WorkerGoes(w, "idle", "done") /\ UNCHANGED answer

Gate(w) ==
  /\ WorkerGoes(w, "gate", IF IsPaused THEN "waiting" ELSE "check")
  /\ UNCHANGED answer

Check(w) ==
  /\ WorkerGoes(w, "check", IF ctx = "live" THEN "request" ELSE "done")
  /\ UNCHANGED answer

Answer(w) == WorkerGoes(w, "request", "idle") /\ UNCHANGED answer

\* The time to wait for is computed before the mutex is taken.
AnswerLimited(w) ==
  \E header \in Headers :
    LET t == now + parseRetryAfter(header)
    IN  /\ Rounded(t) <= Horizon
        /\ until' = [until EXCEPT ![w] = t]
        /\ wish' = [wish EXCEPT ![w] = IF Fits(header) THEN now + RetryAfter(header)
                                                      ELSE NoTime]
        /\ WorkerGoes(w, "request", "limited")

WorkerStep(w) ==
  \/ Take(w) \/ TakeClosed(w) \/ Gate(w) \/ Check(w)
  \/ Answer(w) \/ AnswerLimited(w) \/ SetPauseUntil(w)

Tick ==
  /\ now < Horizon /\ now' = now + 1
  /\ UNCHANGED <<clock, worker, until, ctx, history>>

Next ==
  \/ Tick \/ Cancel \/ Shutdown
  \/ \E i \in Timers : TimerFires(i) \/ Callback(i)
  \/ \E w \in Workers : WorkerStep(w)

Spec == Init /\ [][Next]_vars

\* Time passes, a timer that is due fires, and its callback gets the mutex, as do
\* the workers.
FairSpec ==
  /\ Spec
  /\ WF_vars(Tick)
  /\ WF_vars(\E i \in Timers : TimerFires(i))
  /\ \A i \in Timers : WF_vars(Callback(i))
  /\ \A w \in Workers : WF_vars(WorkerStep(w))

-----------------------------------------------------------------------------
(* Properties *)

\* pauseTimer is the timer that will end the pause: it is armed, or its callback
\* is on the way, and it is the callback for this very deadline.  So Stop is
\* called on the right timer and an early return leaves a timer behind.
PauseHasItsTimer ==
  pauseUntil # NoTime =>
    /\ timer[pauseTimer].state \in {"armed", "fired"}
    /\ timer[pauseTimer].deadline = pauseUntil

\* The pause as AccrualProcessor knows it.
P == INSTANCE Pause WITH
  pause <- IF pauseUntil = NoTime THEN "none"
           ELSE IF now < pauseUntil THEN "running" ELSE "expired",
  waiting <- {w \in Workers : worker[w] = "waiting"}

\* Deadlines, timers and callbacks that come too late amount to a pause that runs
\* out and wakes whoever waits.
PauseSpec == P!PauseSpec

\* No worker goes on to a request earlier than any 429 asked for whose pause was
\* set, although deadlines are rounded, replaced, kept and cleared by three parties
\* and a Retry-After that overflows sets a pause in between.  What that one asks
\* for is not honoured (the product wraps), and the shutdown lets everyone go.
HonoursRetryAfter ==
  [][\A w \in Workers : worker[w] = "gate" /\ worker'[w] = "check"
       => asked <= now \/ ctx = "cleared"]_vars

\* A waiting worker goes on, however often the pause is prolonged or its timer
\* replaced.
PauseEnds == \A w \in Workers : worker[w] = "waiting" ~> worker[w] # "waiting"
=============================================================================
