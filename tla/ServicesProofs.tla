---------------------------- MODULE ServicesProofs ---------------------------
(***************************************************************************)
(* The services with a clock, a queue or lights of their own: the timed    *)
(* relay steps, the telemetry, the status lights and the clock, for any    *)
(* ticks, steps, intervals, dates, wraps and bounds.                       *)
(***************************************************************************)
EXTENDS TimerSvc, Telemetry, StatusLed, Timebase, WellFoundedInduction, TLAPS

-----------------------------------------------------------------------------
(***************************************************************************)
(* TimerSvc.  What the first step has counted down and what its deadline,  *)
(* or the rest that a pause left, still gives it make up its duration; the *)
(* task's sleep ends within a tick of the deadline, or it has still to     *)
(* hear of it.                                                             *)
(***************************************************************************)

\* What the first step is to count down, and what it may have counted at most when its time is over.
Whole == Head(steps).duration * MsParts
Bound == Whole + pauses * (MsParts - 1) + held

Running == timer_state = "RUNNING"
Stopped == timer_state \notin {"RUNNING", "IDLE"}
Sleeps == task = "sleep" /\ ~notified

\* The deadline, or what remains, makes up for the rest of the first step's time.
CountInv ==
    /\ steps = <<>> => timer_state = "IDLE"
    /\ timer_state = "IDLE" => ran = 0 /\ held = 0 /\ pauses = 0
    /\ Running => Whole <= deadline - now + ran /\ deadline - now <= Whole
    /\ Running /\ (deadline > now \/ Sleeps) => deadline - now + ran <= Bound
    /\ Stopped => Whole <= ran + remaining * MsParts /\ remaining <= Head(steps).duration
    /\ Stopped /\ remaining > 0 => ran + remaining * MsParts <= Bound
    /\ timer_state # "IDLE" => ran <= Bound + Tick

\* Time passes in the lock or while the task sleeps, and it sleeps to the tick after the deadline.
TaskInv ==
    /\ Locked => timer_state \in {"OVP", "OCP"} /\ resuming <= now
    /\ seen <= now
    /\ Running /\ ~notified /\ task \in {"pop", "plan"} => seen = now
    /\ Running /\ ~notified /\ task = "plan" => seen < deadline
    /\ Running /\ Sleeps => wait_until < deadline + Tick

\* What a clear emptied counts nothing down.
ClearInv ==
    /\ cleared => timer_state = "IDLE"
    /\ cleared /\ task = "apply" => straggler
    /\ ClearTurnsOff

TimerInv == TimerTypeOK /\ CountInv /\ TaskInv /\ ClearInv

-----------------------------------------------------------------------------
(* Arithmetic *)

LEMMA Product == \A a, b \in Nat : a * b \in Nat /\ (a + 1) * b = a * b + b
OBVIOUS

LEMMA LessTimes == ASSUME NEW a \in Nat, NEW b \in Nat, NEW c \in Nat, a <= b PROVE a * c <= b * c
<1> DEFINE d == b - a
<1>1. d \in Nat /\ b = a + d
  OBVIOUS
<1>2. (a + d) * c = a * c + d * c /\ d * c \in Nat /\ a * c \in Nat
  BY <1>1
<1> QED BY <1>1, <1>2

LEMMA Quotient ==
    ASSUME NEW a \in Nat, NEW b \in Nat \ {0}
    PROVE  a \div b \in Nat /\ (a \div b) * b <= a /\ a < (a \div b) * b + b
OBVIOUS

\* A rest is rounded up to whole milliseconds, to no more than any number of them that it fits in.
LEMMA RemainingFacts ==
    ASSUME TimerTypeOK, NEW t \in Nat
    PROVE  /\ Remaining(t) \in Nat
           /\ deadline <= t => Remaining(t) = 0
           /\ deadline > t => /\ Remaining(t) > 0 /\ deadline - t <= Remaining(t) * MsParts
                              /\ Remaining(t) * MsParts <= deadline - t + MsParts - 1
           /\ \A d \in Nat : deadline - t <= d * MsParts => Remaining(t) <= d
<1>1. deadline \in Nat /\ MsParts \in Nat \ {0}
  BY TimerAssumption DEF TimerTypeOK
<1>2. CASE deadline <= t
  BY <1>1, <1>2 DEF Remaining
<1>3. CASE deadline > t
  <2> DEFINE n == deadline - t + MsParts - 1
             r == n \div MsParts
  <2>1. n \in Nat /\ Remaining(t) = r /\ n = deadline - t + MsParts - 1
    BY <1>1, <1>3 DEF Remaining
  <2> HIDE DEF n
  <2>2. r \in Nat /\ r * MsParts <= n /\ n < r * MsParts + MsParts
    BY <1>1, <2>1, Quotient
  <2> HIDE DEF r
  <2>3. r > 0
    <3> SUFFICES ASSUME r = 0 PROVE FALSE
      BY <2>2
    <3>1. r * MsParts = 0
      BY <1>1
    <3> QED BY <1>1, <1>3, <2>1, <2>2, <3>1
  <2>4. ASSUME NEW d \in Nat, deadline - t <= d * MsParts, ~(r <= d) PROVE FALSE
    <3>1. (d + 1) * MsParts <= r * MsParts
      BY <1>1, <2>2, <2>4, LessTimes
    <3>2. (d + 1) * MsParts = d * MsParts + MsParts /\ d * MsParts \in Nat /\ r * MsParts \in Nat
      BY <1>1, <2>2, Product
    <3> QED BY <1>1, <1>3, <2>1, <2>2, <2>4, <3>1, <3>2
  <2>5. r * MsParts \in Nat
    BY <1>1, <2>2, Product
  <2>6. deadline - t <= r * MsParts /\ r * MsParts <= deadline - t + MsParts - 1
    BY <1>1, <1>3, <2>1, <2>2, <2>5
  <2>7. \A d \in Nat : deadline - t <= d * MsParts => Remaining(t) <= d
    BY <2>1, <2>4
  <2>8. deadline > t /\ ~(deadline <= t)
    BY <1>1, <1>3
  <2> QED BY <2>1, <2>2, <2>3, <2>6, <2>7, <2>8
<1> QED BY <1>1, <1>2, <1>3 DEF TimerTypeOK

LEMMA TimerTypes ==
    ASSUME TimerTypeOK
    PROVE  /\ Tick \in Nat \ {0} /\ MsParts \in Nat \ {0} /\ MsParts <= Tick
           /\ {now, remaining, deadline, seen, wait_until, ran, pauses, held} \subseteq Nat
           /\ pauses * (MsParts - 1) \in Nat /\ remaining * MsParts \in Nat
           /\ steps # <<>> => /\ Head(steps) \in Steps /\ Head(steps).duration \in Nat
                              /\ Tail(steps) \in Seq(Steps)
                              /\ Whole \in Nat /\ Bound \in Nat /\ Whole + held <= Bound
                              /\ Bound = Whole + pauses * (MsParts - 1) + held
<1>1. MsParts \in Nat \ {0} /\ TickMs \in Nat \ {0} /\ MsParts - 1 \in Nat
  BY TimerAssumption
<1>2. {now, remaining, deadline, seen, wait_until, ran, pauses, held} \subseteq Nat
  BY DEF TimerTypeOK
<1>3. /\ pauses * (MsParts - 1) \in Nat /\ remaining * MsParts \in Nat
      /\ Tick \in Nat
  BY <1>1, <1>2, Product DEF Tick
<1>4. 1 * MsParts <= Tick
  BY <1>1, LessTimes DEF Tick
<1>5. ASSUME steps # <<>>
      PROVE  /\ Head(steps) \in Steps /\ Head(steps).duration \in Nat
             /\ Tail(steps) \in Seq(Steps)
             /\ Whole \in Nat /\ Bound \in Nat /\ Whole + held <= Bound
             /\ Bound = Whole + pauses * (MsParts - 1) + held
  <2>1. Head(steps) \in Steps /\ Tail(steps) \in Seq(Steps)
    BY <1>5 DEF TimerTypeOK
  <2>2. Head(steps).duration \in Nat
    BY <2>1, TimerAssumption
  <2>3. Whole \in Nat
    BY <1>1, <2>2, Product DEF Whole
  <2>4. Bound = Whole + pauses * (MsParts - 1) + held
    BY DEF Bound
  <2> DEFINE lost == pauses * (MsParts - 1)
  <2>5. lost \in Nat /\ held \in Nat /\ Bound = Whole + lost + held
    BY <1>2, <1>3, <2>4
  <2> HIDE DEF lost
  <2>6. Bound \in Nat /\ Whole + held <= Bound
    BY <2>3, <2>5
  <2> QED BY <2>1, <2>2, <2>3, <2>4, <2>6
<1> QED BY <1>1, <1>2, <1>3, <1>4, <1>5

-----------------------------------------------------------------------------
(* The task and the clock *)

\* Nothing changes for the countdown but what the task knows.
LEMMA SteadyCount ==
    ASSUME TimerInv, UNCHANGED <<now, timerVars, histories>>,
           Running /\ Sleeps' => Sleeps \/ deadline > now
    PROVE  CountInv'
<1>1. UNCHANGED <<Whole, Bound>>
  BY DEF Whole, Bound, timerVars, histories
<1>2. UNCHANGED <<now, steps, timer_state, remaining, deadline, ran, pauses, held>>
  BY DEF timerVars, histories
<1> QED BY <1>1, <1>2 DEF TimerInv, CountInv, Running, Stopped, Tick

LEMMA TimerInitInv == TimerInit => TimerInv
<1> SUFFICES ASSUME TimerInit PROVE TimerInv
  OBVIOUS
<1>1. TimerTypeOK
  <2>1. {notified, clearing, relay, cleared, straggler} \subseteq BOOLEAN
    BY DEF TimerInit
  <2> QED BY <2>1, TimerAssumption DEF TimerInit, TimerTypeOK, Forever, NoStep, NotResuming
<1>2. CountInv /\ TaskInv /\ ClearInv
  BY DEF TimerInit, CountInv, TaskInv, ClearInv, ClearTurnsOff, Running, Stopped, Sleeps, Locked
<1> QED BY <1>1, <1>2 DEF TimerInv

LEMMA AdvanceInv == ASSUME TimerInv, calls' \in 0..MaxCalls, Advance PROVE TimerInv'
<1>1. /\ now' = now + 1 /\ UNCHANGED <<steps, timer_state, remaining, deadline, pauses, notified, task, seen, wait_until,
         popped, resuming, clearing, relay, cleared, straggler>>
      /\ Locked \/ (~Awake /\ ~clearing)
      /\ ran' = IF Running THEN ran + 1 ELSE ran
      /\ held' = IF Running /\ Locked THEN held + 1 ELSE held
  BY DEF Advance, timerVars, taskVars, clearVars, Running
<1>2. Running => ~Locked /\ task = "sleep" /\ ~notified /\ now < wait_until
  BY <1>1 DEF TimerInv, TimerTypeOK, TaskInv, Awake, Running
<1>3. held' = held /\ Whole' = Whole /\ Bound' = Bound
  <2>1. held' = held
    BY <1>1, <1>2
  <2> QED BY <1>1, <2>1 DEF Whole, Bound
<1>4. TimerTypeOK'
  <2>1. now' \in Nat /\ ran' \in Nat /\ held' \in Nat
    BY <1>1, <1>3 DEF TimerInv, TimerTypeOK
  <2> QED BY <1>1, <2>1 DEF TimerInv, TimerTypeOK
<1>5. CountInv'
  <2>1. ~Running => CountInv'
    BY <1>1, <1>3 DEF TimerInv, CountInv, Running, Stopped, Tick
  <2>2. ASSUME Running PROVE CountInv'
    <3>1. /\ steps # <<>> /\ Whole \in Nat /\ Bound \in Nat /\ Tick \in Nat
          /\ now \in Nat /\ deadline \in Nat /\ ran \in Nat /\ wait_until \in Nat
      BY <2>2, TimerTypes DEF TimerInv, CountInv, Running
    <3>2. /\ Whole <= deadline - now + ran /\ deadline - now <= Whole
          /\ deadline - now + ran <= Bound /\ wait_until < deadline + Tick
      BY <1>2, <2>2 DEF TimerInv, CountInv, TaskInv, Sleeps
    <3>3. ran' = ran + 1 /\ now' = now + 1 /\ ran + 1 <= Bound + Tick
      BY <1>1, <1>2, <2>2, <3>1, <3>2
    <3>4. timer_state' = "RUNNING" /\ steps' # <<>> /\ Tick' = Tick
      BY <1>1, <2>2, <3>1 DEF Running, Tick
    <3> QED BY <1>1, <1>3, <3>1, <3>2, <3>3, <3>4 DEF CountInv, Running, Stopped
  <2> QED BY <2>1, <2>2
<1>6. TaskInv'
  <2>1. now \in Nat /\ seen \in Nat /\ (resuming \in Nat \/ resuming = NotResuming)
    BY DEF TimerInv, TimerTypeOK
  <2>2. Running' /\ ~notified' => task' = "sleep"
    BY <1>1, <1>2 DEF Running
  <2>3. Locked' => timer_state' \in {"OVP", "OCP"} /\ resuming' <= now'
    BY <1>1, <2>1 DEF TimerInv, TaskInv, Locked, NotResuming
  <2>4. (Running' <=> Running) /\ (Sleeps' <=> Sleeps) /\ Tick' = Tick
    BY <1>1 DEF Running, Sleeps, Tick
  <2> QED BY <1>1, <2>1, <2>2, <2>3, <2>4 DEF TimerInv, TaskInv
<1>7. ClearInv'
  BY <1>1 DEF TimerInv, ClearInv, ClearTurnsOff
<1> QED BY <1>4, <1>5, <1>6, <1>7 DEF TimerInv

\* The task's steps that leave the countdown alone.
LEMMA WakeInv == ASSUME TimerInv, calls' \in 0..MaxCalls, Wake PROVE TimerInv'
<1>1. TimerTypeOK'
  <2>1. notified' \in BOOLEAN
    BY DEF Wake
  <2> QED BY <2>1 DEF TimerInv, TimerTypeOK, Wake, timerVars, clearVars, histories
<1>2. CountInv'
  BY SteadyCount DEF Wake, Sleeps
<1>3. TaskInv'
  BY DEF TimerInv, TaskInv, Wake, Running, Sleeps, Locked, timerVars, histories
<1>4. ClearInv'
  BY DEF TimerInv, ClearInv, ClearTurnsOff, Wake, timerVars, clearVars
<1> QED BY <1>1, <1>2, <1>3, <1>4 DEF TimerInv

LEMMA ReadClockInv == ASSUME TimerInv, calls' \in 0..MaxCalls, ReadClock PROVE TimerInv'
<1>1. TimerTypeOK'
  BY DEF TimerInv, TimerTypeOK, ReadClock, timerVars, clearVars, histories
<1>2. CountInv'
  BY SteadyCount DEF ReadClock, Sleeps
<1>3. TaskInv'
  BY DEF TimerInv, TimerTypeOK, TaskInv, ReadClock, Running, Sleeps, Locked, timerVars, histories
<1>4. ClearInv'
  BY DEF TimerInv, ClearInv, ClearTurnsOff, ReadClock, timerVars, clearVars
<1> QED BY <1>1, <1>2, <1>3, <1>4 DEF TimerInv

LEMMA NothingDueInv == ASSUME TimerInv, calls' \in 0..MaxCalls, NothingDue PROVE TimerInv'
<1>1. TimerTypeOK'
  BY DEF TimerInv, TimerTypeOK, NothingDue, timerVars, clearVars, histories
<1>2. CountInv'
  BY SteadyCount DEF NothingDue, Sleeps
<1>3. TaskInv'
  BY DEF TimerInv, TimerTypeOK, CountInv, TaskInv, NothingDue, Due, Running, Sleeps, Locked, timerVars, histories
<1>4. ClearInv'
  BY DEF TimerInv, ClearInv, ClearTurnsOff, NothingDue, timerVars, clearVars
<1> QED BY <1>1, <1>2, <1>3, <1>4 DEF TimerInv

LEMMA ApplyInv == ASSUME TimerInv, calls' \in 0..MaxCalls, Apply PROVE TimerInv'
<1>1. TimerTypeOK'
  <2>1. relay' \in BOOLEAN /\ popped' \in Steps \cup {NoStep}
    <3>1. popped \in Steps \/ popped = NoStep
      BY DEF TimerInv, TimerTypeOK
    <3>2. NoStep.on \in BOOLEAN
      BY DEF NoStep
    <3>3. popped.on \in BOOLEAN
      BY <3>1, <3>2, TimerAssumption, Zenon
    <3> QED BY <3>3, Zenon DEF Apply
  <2> QED BY <2>1 DEF TimerInv, TimerTypeOK, Apply, timerVars, histories
<1>2. CountInv'
  BY SteadyCount DEF Apply, Sleeps
<1>3. TaskInv'
  BY DEF TimerInv, TaskInv, Apply, Running, Sleeps, Locked, timerVars, histories
<1>4. ClearInv'
  BY DEF TimerInv, ClearInv, ClearTurnsOff, Apply, timerVars
<1> QED BY <1>1, <1>2, <1>3, <1>4 DEF TimerInv

\* A sleep ends no later than the tick after the deadline.
LEMMA PlanInv == ASSUME TimerInv, calls' \in 0..MaxCalls, Plan PROVE TimerInv'
<1> DEFINE ticks == Remaining(now) \div TickMs
           whole == IF ticks = 0 THEN 1 ELSE ticks
<1>1. /\ wait_until' = IF Running THEN (now \div Tick + whole) * Tick ELSE Forever
      /\ task = "plan" /\ ~Locked /\ task' = "sleep"
      /\ UNCHANGED <<now, timerVars, notified, seen, popped, resuming, clearVars, histories>>
  BY DEF Plan, Running
<1>2. /\ now \in Nat /\ deadline \in Nat /\ Tick \in Nat \ {0} /\ TickMs \in Nat \ {0} /\ MsParts \in Nat \ {0}
      /\ MsParts <= Tick /\ Forever \in Nat
  <2>1. Forever \in Nat /\ TickMs \in Nat \ {0}
    BY TimerAssumption DEF Forever
  <2> QED BY <2>1, TimerTypes DEF TimerInv
<1>3. /\ Remaining(now) \in Nat
      /\ deadline > now => Remaining(now) * MsParts <= deadline - now + MsParts - 1
  BY <1>2, RemainingFacts DEF TimerInv
<1>4. /\ ticks \in Nat /\ ticks * TickMs <= Remaining(now)
      /\ now \div Tick \in Nat /\ (now \div Tick) * Tick <= now
  BY <1>2, <1>3, Quotient
<1>5. ticks * Tick <= Remaining(now) * MsParts
  <2>1. ticks * TickMs \in Nat
    BY <1>2, <1>4, Product
  <2>2. (ticks * TickMs) * MsParts <= Remaining(now) * MsParts
    BY <1>2, <1>3, <1>4, <2>1, LessTimes
  <2>3. (ticks * TickMs) * MsParts = ticks * Tick
    BY <1>2, <1>4 DEF Tick
  <2> QED BY <2>2, <2>3
<1>6. (now \div Tick + whole) * Tick = (now \div Tick) * Tick + whole * Tick /\ whole * Tick \in Nat
      /\ (now \div Tick) * Tick \in Nat /\ (whole * Tick = Tick \/ whole = ticks) /\ whole \in Nat
  <2>1. whole \in Nat /\ (whole = 1 \/ whole = ticks)
    BY <1>4
  <2> HIDE DEF whole
  <2>2. (now \div Tick + whole) * Tick = (now \div Tick) * Tick + whole * Tick
    BY <1>2, <1>4, <2>1
  <2> QED BY <1>2, <1>4, <2>1, <2>2, Product
<1> HIDE DEF ticks, whole
<1>7. wait_until' \in Nat
  BY <1>1, <1>2, <1>4, <1>6
<1>8. Remaining(now) * MsParts \in Nat
  BY <1>2, <1>3, Product
<1>9. ASSUME deadline > now, Running PROVE wait_until' < deadline + Tick
  <2>1. whole * Tick <= deadline - now + Tick - 1
    BY <1>2, <1>3, <1>5, <1>6, <1>8, <1>9
  <2> QED BY <1>1, <1>2, <1>4, <1>6, <1>9, <2>1
<1>10. Running /\ Sleeps' => deadline > now
  BY <1>1 DEF TimerInv, TaskInv, Sleeps
<1>11. TimerTypeOK'
  BY <1>1, <1>7 DEF TimerInv, TimerTypeOK, timerVars, clearVars, histories
<1>12. CountInv'
  BY <1>1, <1>10, SteadyCount
<1>13. TaskInv'
  <2>1. UNCHANGED <<now, timer_state, deadline, seen, resuming>> /\ Tick' = Tick
    BY <1>1 DEF timerVars, Tick
  <2> QED BY <1>1, <1>9, <1>10, <2>1 DEF TimerInv, TaskInv, Running, Locked
<1>14. ClearInv'
  BY <1>1 DEF TimerInv, ClearInv, ClearTurnsOff, timerVars, clearVars
<1> QED BY <1>11, <1>12, <1>13, <1>14 DEF TimerInv

-----------------------------------------------------------------------------
(* A step is popped, and the next one begins *)

LEMMA PopInv ==
    ASSUME TimerInv, calls' \in 0..MaxCalls, Pop
    PROVE  TimerInv' /\ Whole <= ran
<1>1. /\ task = "pop" /\ ~Locked /\ Running /\ steps # <<>> /\ deadline <= seen
      /\ popped' = Head(steps) /\ task' = "apply" /\ pauses' = 0 /\ steps' = Tail(steps)
      /\ UNCHANGED <<now, notified, seen, wait_until, resuming, clearing, relay, cleared, straggler>>
  BY DEF Pop, Due, StartNext, Running, clearVars
<1>2. \/ /\ steps' = <<>> /\ timer_state' = "IDLE" /\ remaining' = 0 /\ deadline' = 0 /\ ran' = 0 /\ held' = 0
      \/ /\ steps' # <<>> /\ timer_state' = "RUNNING" /\ remaining' = Head(steps').duration
         /\ deadline' = seen + Whole' /\ ran' = now - seen /\ held' = now - seen
  BY DEF Pop, StartNext, Whole
<1>3. /\ now \in Nat /\ seen \in Nat /\ seen <= now /\ deadline \in Nat /\ ran \in Nat /\ Whole \in Nat
      /\ Head(steps) \in Steps /\ steps' \in Seq(Steps) /\ Tick \in Nat /\ Tick' = Tick
  BY <1>1, TimerTypes DEF TimerInv, TaskInv, Tick
<1>4. Whole <= ran
  BY <1>1, <1>3 DEF TimerInv, CountInv
<1>5. steps' # <<>> => Head(steps').duration \in Nat /\ Whole' \in Nat
  <2>1. steps' # <<>> => Head(steps') \in Steps
    BY <1>3
  <2> QED BY <2>1, TimerAssumption, Product DEF Whole
<1>6. TimerTypeOK'
  <2>1. /\ timer_state' \in {"IDLE", "RUNNING"} /\ remaining' \in Nat /\ deadline' \in Nat
        /\ ran' \in Nat /\ held' \in Nat
    BY <1>2, <1>3, <1>5
  <2>2. Len(steps') <= MaxSteps
    BY <1>1, TimerAssumption DEF TimerInv, TimerTypeOK
  <2> QED BY <1>1, <1>3, <2>1, <2>2 DEF TimerInv, TimerTypeOK
<1>7. CountInv'
  <2>1. CASE timer_state' = "IDLE"
    BY <1>1, <1>2, <2>1 DEF CountInv, Running, Stopped
  <2>2. CASE timer_state' = "RUNNING"
    <3>1. Bound' = Whole' + held'
      <4>1. pauses' * (MsParts - 1) = 0
        BY <1>1, TimerAssumption
      <4> QED BY <1>2, <1>3, <1>5, <2>2, <4>1 DEF Bound
    <3>2. steps' # <<>> /\ deadline' - now' + ran' = Whole' /\ deadline' - now' <= Whole'
      BY <1>1, <1>2, <1>3, <1>5, <2>2
    <3>3. Whole' <= Bound' /\ ran' <= Bound' + Tick' /\ Bound' \in Nat
      BY <1>2, <1>3, <1>5, <2>2, <3>1
    <3>4. Whole' <= deadline' - now' + ran' /\ deadline' - now' + ran' <= Bound'
      BY <1>5, <3>2, <3>3
    <3> QED BY <2>2, <3>2, <3>3, <3>4 DEF CountInv, Running, Stopped
  <2> QED BY <1>2, <2>1, <2>2
<1>8. TaskInv'
  BY <1>1 DEF TimerInv, TaskInv, Running, Sleeps, Locked
<1>9. ClearInv'
  BY <1>1 DEF TimerInv, ClearInv, ClearTurnsOff, Running
<1> QED BY <1>4, <1>6, <1>7, <1>8, <1>9 DEF TimerInv

-----------------------------------------------------------------------------
(* The calls *)

LEMMA AddStepInv == ASSUME TimerInv, calls' \in 0..MaxCalls, AddStep PROVE TimerInv'
<1>1. PICK step \in Steps : steps' = Append(steps, step)
  BY DEF AddStep
<1>2. /\ ~Locked /\ Len(steps) < MaxSteps /\ notified' = TRUE
      /\ UNCHANGED <<now, timer_state, remaining, deadline, task, seen, wait_until, popped,
                     resuming, clearing, relay, cleared, straggler, ran, pauses, held>>
  BY DEF AddStep, clearVars, histories
<1>3. /\ steps' \in Seq(Steps) /\ Len(steps') <= MaxSteps /\ steps' # <<>>
      /\ steps # <<>> => Head(steps') = Head(steps)
  <2>1. steps \in Seq(Steps) /\ Len(steps) \in Nat /\ MaxSteps \in Nat
    BY TimerAssumption DEF TimerInv, TimerTypeOK
  <2>2. steps' \in Seq(Steps) /\ Len(steps') = Len(steps) + 1 /\ steps' # <<>>
    BY <1>1, <2>1
  <2>3. steps # <<>> => Head(steps') = Head(steps)
    BY <1>1, <2>1
  <2> QED BY <1>2, <2>1, <2>2, <2>3
<1>4. TimerTypeOK'
  BY <1>2, <1>3 DEF TimerInv, TimerTypeOK
<1>5. CountInv'
  <2>1. timer_state # "IDLE" => Whole' = Whole /\ Bound' = Bound
    BY <1>2, <1>3 DEF TimerInv, CountInv, Whole, Bound
  <2> QED BY <1>2, <1>3, <2>1 DEF TimerInv, CountInv, Running, Stopped, Sleeps, Tick
<1>6. TaskInv'
  BY <1>2 DEF TimerInv, TaskInv, Running, Sleeps, Locked
<1>7. ClearInv'
  BY <1>2 DEF TimerInv, ClearInv, ClearTurnsOff
<1> QED BY <1>4, <1>5, <1>6, <1>7 DEF TimerInv

LEMMA ClearInvs == ASSUME TimerInv, calls' \in 0..MaxCalls, Clear PROVE TimerInv'
<1>1. TimerTypeOK'
  <2>1. {notified', clearing', relay', cleared', straggler'} \subseteq BOOLEAN
    BY DEF TimerInv, TimerTypeOK, Clear
  <2>2. steps' \in Seq(Steps) /\ Len(steps') <= MaxSteps
    BY TimerAssumption DEF Clear
  <2> QED BY <2>1, <2>2 DEF TimerInv, TimerTypeOK, Clear
<1>2. CountInv'
  BY DEF CountInv, Clear, Running, Stopped
<1>3. TaskInv'
  BY DEF TimerInv, TaskInv, Clear, Running, Sleeps, Locked
<1>4. ClearInv'
  BY DEF ClearInv, ClearTurnsOff, Clear
<1> QED BY <1>1, <1>2, <1>3, <1>4 DEF TimerInv

LEMMA SwitchOffInv == ASSUME TimerInv, calls' \in 0..MaxCalls, SwitchOff PROVE TimerInv'
<1>1. TimerTypeOK'
  <2>1. clearing' \in BOOLEAN /\ relay' \in BOOLEAN
    BY DEF SwitchOff
  <2> QED BY <2>1 DEF TimerInv, TimerTypeOK, SwitchOff, timerVars, taskVars, histories
<1>2. CountInv'
  BY SteadyCount DEF SwitchOff, Sleeps, taskVars
<1>3. TaskInv'
  BY DEF TimerInv, TaskInv, SwitchOff, Running, Sleeps, Locked, Tick, timerVars, taskVars
<1>4. ClearInv'
  BY DEF TimerInv, ClearInv, ClearTurnsOff, SwitchOff, timerVars, taskVars
<1> QED BY <1>1, <1>2, <1>3, <1>4 DEF TimerInv

\* A pause keeps the rest, rounded up.
LEMMA PauseInv ==
    ASSUME TimerInv, calls' \in 0..MaxCalls, Running, ~Locked,
           NEW kind \in {"PAUSED", "OVR", "OVP", "OCP"}, PauseAs(kind), notified' = TRUE,
           UNCHANGED <<now, steps, task, seen, wait_until, popped, resuming, ran, held>>,
           {clearing', relay', cleared', straggler'} \subseteq BOOLEAN,
           ~cleared'
    PROVE  TimerInv'
<1>1. /\ steps # <<>> /\ Head(steps).duration \in Nat /\ Whole \in Nat /\ Bound \in Nat
      /\ now \in Nat /\ deadline \in Nat /\ ran \in Nat /\ pauses \in Nat /\ held \in Nat
      /\ MsParts \in Nat \ {0} /\ MsParts - 1 \in Nat /\ Tick \in Nat /\ Tick' = Tick /\ Bound = Whole + pauses * (MsParts - 1) + held
      /\ pauses * (MsParts - 1) \in Nat
  <2>1. MsParts - 1 \in Nat /\ Tick' = Tick
    BY TimerAssumption DEF Tick
  <2> QED BY <2>1, TimerTypes DEF TimerInv, CountInv, Running
<1>2. /\ remaining' = Remaining(now) /\ deadline' = 0 /\ pauses' = pauses + 1 /\ timer_state' = kind
      /\ now' = now /\ ran' = ran /\ held' = held /\ steps' = steps
  BY DEF PauseAs
<1>3. /\ remaining' \in Nat /\ (deadline <= now => remaining' = 0)
      /\ deadline > now => /\ remaining' > 0 /\ deadline - now <= remaining' * MsParts
                           /\ remaining' * MsParts <= deadline - now + MsParts - 1
      /\ deadline - now <= Head(steps).duration * MsParts => remaining' <= Head(steps).duration
  BY <1>1, <1>2, RemainingFacts DEF TimerInv
<1>4. Whole' = Whole /\ Bound' = Bound + (MsParts - 1)
  <2>1. (pauses + 1) * (MsParts - 1) = pauses * (MsParts - 1) + (MsParts - 1)
    BY <1>1, Product
  <2>2. Bound' = Whole' + (pauses + 1) * (MsParts - 1) + held /\ Whole' = Whole
    BY <1>2 DEF Bound, Whole
  <2> DEFINE before == pauses * (MsParts - 1)
             after == (pauses + 1) * (MsParts - 1)
             extra == MsParts - 1
  <2>3. /\ before \in Nat /\ extra \in Nat /\ Whole \in Nat /\ held \in Nat
        /\ after = before + extra
        /\ Bound = Whole + before + held /\ Bound' = Whole' + after + held /\ Whole' = Whole
    <3>1. before \in Nat /\ extra \in Nat /\ Whole \in Nat /\ held \in Nat
      BY <1>1
    <3>2. after = before + extra
      BY <2>1
    <3>3. Bound = Whole + before + held
      BY <1>1
    <3>4. Bound' = Whole' + after + held /\ Whole' = Whole
      BY <2>2
    <3> QED BY <3>1, <3>2, <3>3, <3>4
  <2> HIDE DEF before, after, extra
  <2>4. Whole' = Whole /\ Bound' = Bound + extra
    BY <2>3
  <2> QED BY <2>4 DEF extra
<1>5. TimerTypeOK'
  BY <1>1, <1>2, <1>3 DEF TimerInv, TimerTypeOK
<1>6. CountInv'
  <2>1. /\ Whole <= deadline - now + ran /\ deadline - now <= Whole /\ ran <= Bound + Tick
        /\ deadline > now => deadline - now + ran <= Bound
    BY DEF TimerInv, CountInv, Running
  <2>2. remaining' <= Head(steps).duration
    BY <1>3, <2>1 DEF Whole
  <2>3. remaining' * MsParts \in Nat /\ (remaining' = 0 => remaining' * MsParts = 0)
    <3>1. \A n \in Nat : n * MsParts \in Nat /\ (n = 0 => n * MsParts = 0)
      BY <1>1, Product
    <3> QED BY <1>3, <3>1
  <2> DEFINE rest == remaining' * MsParts
  <2>4. /\ rest \in Nat /\ (remaining' = 0 => rest = 0)
        /\ deadline > now => deadline - now <= rest /\ rest <= deadline - now + MsParts - 1
    BY <1>3, <2>3
  <2>5. remaining' > 0 => deadline > now
    BY <1>1, <1>3
  <2> HIDE DEF rest
  <2>6. deadline > now \/ rest = 0
    BY <1>1, <1>3, <2>4
  <2>7. Whole <= ran + rest /\ (deadline > now => ran + rest <= Bound + (MsParts - 1))
    BY <1>1, <2>1, <2>4, <2>6
  <2>8. Whole' <= ran' + remaining' * MsParts
    BY <1>2, <1>4, <2>7 DEF rest
  <2>9. remaining' > 0 => ran' + remaining' * MsParts <= Bound'
    BY <1>2, <1>4, <2>7, <2>5 DEF rest
  <2>10. ran' <= Bound' + Tick'
    BY <1>1, <1>4, <2>1
  <2> QED BY <1>1, <1>2, <2>2, <2>8, <2>9, <2>10 DEF CountInv, Running, Stopped
<1>7. TaskInv'
  BY <1>2 DEF TimerInv, TaskInv, Running, Locked
<1>8. ClearInv'
  BY DEF ClearInv, ClearTurnsOff
<1> QED BY <1>5, <1>6, <1>7, <1>8 DEF TimerInv

LEMMA TogglePauseInv == ASSUME TimerInv, calls' \in 0..MaxCalls, TogglePause PROVE TimerInv'
<1>1. Running /\ ~Locked /\ PauseAs("PAUSED") /\ notified' = TRUE
      /\ UNCHANGED <<now, steps, task, seen, wait_until, popped, resuming, ran, held,
                     clearing, relay, cleared, straggler>>
  BY DEF TogglePause, Running, clearVars
<1>2. {clearing', relay', cleared', straggler'} \subseteq BOOLEAN /\ ~cleared'
  BY <1>1 DEF TimerInv, TimerTypeOK, ClearInv, Running
<1> QED BY <1>1, <1>2, PauseInv

LEMMA RelayChangedInv == ASSUME TimerInv, calls' \in 0..MaxCalls, RelayChanged PROVE TimerInv'
<1>1. PICK on \in BOOLEAN, kind \in {"OVP", "OCP", "OVR"} :
          /\ relay' = on
          /\ IF Running /\ steps # <<>>
             THEN PauseAs(kind) /\ notified' = TRUE
             ELSE UNCHANGED <<timer_state, remaining, deadline, pauses, notified>>
  BY DEF RelayChanged, Running
<1>2. /\ ~Locked /\ cleared' = FALSE
      /\ UNCHANGED <<now, steps, task, seen, wait_until, popped, resuming, clearing, straggler, ran, held>>
  BY DEF RelayChanged
<1>3. {clearing', relay', cleared', straggler'} \subseteq BOOLEAN
  BY <1>1, <1>2 DEF TimerInv, TimerTypeOK
<1>4. CASE Running /\ steps # <<>>
  BY <1>1, <1>2, <1>3, <1>4, PauseInv
<1>5. CASE ~(Running /\ steps # <<>>)
  <2>1. UNCHANGED <<timer_state, remaining, deadline, pauses, notified>>
    BY <1>1, <1>5
  <2>2. TimerTypeOK'
    BY <1>2, <1>3, <2>1 DEF TimerInv, TimerTypeOK
  <2>3. CountInv'
    BY <1>2, <2>1, SteadyCount DEF timerVars, histories, Sleeps
  <2>4. TaskInv'
    BY <1>2, <2>1 DEF TimerInv, TaskInv, Running, Sleeps, Locked, Tick
  <2>5. ClearInv'
    BY <1>2 DEF ClearInv, ClearTurnsOff
  <2> QED BY <2>2, <2>3, <2>4, <2>5 DEF TimerInv
<1> QED BY <1>4, <1>5

\* A countdown that starts or goes on has the rest before it, from the time that was read.
LEMMA CountsInv ==
    ASSUME TimerInv, calls' \in 0..MaxCalls, NEW t \in Nat, t <= now, NEW ms \in Nat,
           steps # <<>>, Count(t, ms), resuming' = NotResuming,
           \/ timer_state = "IDLE" /\ ms = Head(steps).duration
           \/ Stopped /\ ms = remaining
    PROVE  TimerInv'
<1>1. /\ Head(steps).duration \in Nat /\ Whole \in Nat /\ Bound \in Nat
      /\ now \in Nat /\ ran \in Nat /\ pauses \in Nat /\ held \in Nat /\ MsParts \in Nat
      /\ Tick \in Nat /\ Bound = Whole + pauses * (MsParts - 1) + held
      /\ pauses * (MsParts - 1) \in Nat /\ Whole + held <= Bound
  BY TimerTypes DEF TimerInv
<1> DEFINE rest == ms * MsParts
<1>2. /\ remaining' = ms /\ deadline' = t + rest /\ timer_state' = "RUNNING" /\ notified' = TRUE
      /\ cleared' = FALSE /\ ran' = ran + (now - t) /\ held' = held + (now - t)
      /\ UNCHANGED <<now, steps, task, seen, wait_until, popped, clearing, relay, straggler, pauses>>
  BY DEF Count
<1>3. rest \in Nat /\ (ms = 0 => rest = 0)
  BY <1>1, Product
<1>4. Whole' = Whole /\ Bound' = Bound + (now - t)
  <2>1. Whole' = Whole
    BY <1>2 DEF Whole
  <2>2. Bound' = Whole' + pauses * (MsParts - 1) + held'
    BY <1>2 DEF Bound
  <2> QED BY <1>1, <1>2, <2>1, <2>2
<1>5. /\ Whole <= ran + rest /\ rest <= Whole /\ (ms > 0 => ran + rest <= Bound)
      /\ ran <= Bound + Tick
  <2>1. CASE timer_state = "IDLE" /\ ms = Head(steps).duration
    <3>1. rest = Whole /\ ran = 0
      BY <2>1 DEF TimerInv, CountInv, Whole
    <3> HIDE DEF rest
    <3> QED BY <1>1, <1>3, <3>1
  <2>2. CASE Stopped /\ ms = remaining
    <3>1. /\ Whole <= ran + rest /\ ms <= Head(steps).duration /\ (ms > 0 => ran + rest <= Bound)
          /\ ran <= Bound + Tick
      BY <2>2 DEF TimerInv, CountInv, Stopped
    <3>2. rest <= Whole
      BY <1>1, <3>1, LessTimes DEF Whole
    <3> QED BY <3>1, <3>2
  <2> QED BY <2>1, <2>2
<1> HIDE DEF rest
<1>6. TimerTypeOK'
  <2>1. {clearing', relay', cleared', straggler', notified'} \subseteq BOOLEAN
    BY <1>2 DEF TimerInv, TimerTypeOK
  <2>2. deadline' \in Nat /\ ran' \in Nat /\ held' \in Nat
    BY <1>1, <1>2, <1>3
  <2> QED BY <1>2, <2>1, <2>2 DEF TimerInv, TimerTypeOK
<1>7. CountInv'
  <2>1. deadline' - now' + ran' = rest + ran
    BY <1>1, <1>2, <1>3
  <2>2. deadline' > now' => ms > 0
    BY <1>1, <1>2, <1>3
  <2>3. /\ Whole' <= deadline' - now' + ran' /\ deadline' - now' <= Whole'
        /\ deadline' > now' => deadline' - now' + ran' <= Bound'
        /\ ran' <= Bound' + Tick
    BY <1>1, <1>2, <1>3, <1>4, <1>5, <2>1, <2>2
  <2>4. ~Sleeps' /\ ~Stopped' /\ Tick' = Tick
    BY <1>2 DEF Sleeps, Stopped, Tick
  <2> QED BY <1>2, <2>3, <2>4 DEF CountInv, Running
<1>8. TaskInv'
  BY <1>2 DEF TimerInv, TaskInv, Sleeps, Locked
<1>9. ClearInv'
  BY <1>2 DEF ClearInv, ClearTurnsOff
<1> QED BY <1>6, <1>7, <1>8, <1>9 DEF TimerInv

LEMMA ToggleRunInv == ASSUME TimerInv, calls' \in 0..MaxCalls, ToggleRun PROVE TimerInv'
<1>1. /\ steps # <<>> /\ ~Locked /\ resuming' = NotResuming
      /\ now \in Nat /\ now <= now /\ remaining \in Nat /\ Head(steps).duration \in Nat
  BY TimerTypes DEF TimerInv, ToggleRun, Locked
<1>2. CASE timer_state = "IDLE"
  <2>1. Count(now, Head(steps).duration)
    BY <1>2 DEF ToggleRun
  <2> QED BY <1>1, <1>2, <2>1, CountsInv
<1>3. CASE timer_state \in {"PAUSED", "OVR"}
  <2>1. Count(now, remaining) /\ Stopped
    BY <1>3 DEF ToggleRun, Stopped
  <2> QED BY <1>1, <2>1, CountsInv
<1> QED BY <1>2, <1>3 DEF ToggleRun

LEMMA TripClearedInv == ASSUME TimerInv, calls' \in 0..MaxCalls, TripCleared PROVE TimerInv'
<1>1. /\ Count(resuming, remaining) /\ resuming' = NotResuming
      /\ resuming \in Nat /\ resuming <= now /\ remaining \in Nat /\ Stopped /\ steps # <<>>
  BY DEF TripCleared, TimerInv, TimerTypeOK, TaskInv, CountInv, Locked, Stopped
<1> QED BY <1>1, CountsInv

LEMMA ResumingInv ==
    ASSUME TimerInv, calls' \in 0..MaxCalls, ToggleAfterTrip \/ TripStays PROVE TimerInv'
<1>1. /\ UNCHANGED <<now, timerVars, taskVars, clearVars, histories>>
      /\ resuming' = NotResuming \/ (resuming' = now /\ timer_state \in {"OVP", "OCP"})
  BY DEF ToggleAfterTrip, TripStays
<1>2. TimerTypeOK'
  BY <1>1 DEF TimerInv, TimerTypeOK, timerVars, taskVars, clearVars, histories
<1>3. CountInv'
  BY <1>1, SteadyCount DEF Sleeps, taskVars
<1>4. TaskInv'
  BY <1>1 DEF TimerInv, TimerTypeOK, TaskInv, Running, Sleeps, Locked, Tick, timerVars, taskVars
<1>5. ClearInv'
  BY <1>1 DEF TimerInv, ClearInv, ClearTurnsOff, timerVars, taskVars, clearVars
<1> QED BY <1>2, <1>3, <1>4, <1>5 DEF TimerInv

LEMMA TimerNextInv == TimerInv /\ [TimerNext]_svcVars => TimerInv'
<1> SUFFICES ASSUME TimerInv, [TimerNext]_svcVars PROVE TimerInv'
  OBVIOUS
<1>1. calls' \in 0..MaxCalls
  <2>1. calls \in 0..MaxCalls /\ MaxCalls \in Nat
    BY TimerAssumption DEF TimerInv, TimerTypeOK
  <2> QED BY <2>1 DEF TimerNext, svcVars
<1>2. CASE Advance \/ Task \/ SwitchOff \/ TripCleared \/ TripStays
  BY <1>1, <1>2, AdvanceInv, WakeInv, ReadClockInv, PopInv, NothingDueInv, ApplyInv, PlanInv,
     SwitchOffInv, TripClearedInv, ResumingInv
  DEF Task
<1>3. CASE Called
  BY <1>1, <1>3, AddStepInv, ClearInvs, TogglePauseInv, ToggleRunInv, ResumingInv, RelayChangedInv
  DEF Called
<1>4. CASE UNCHANGED svcVars
  <2>1. TimerTypeOK'
    BY <1>4 DEF TimerInv, TimerTypeOK, svcVars, timerVars, taskVars, clearVars, histories
  <2>2. CountInv'
    BY <1>4, SteadyCount DEF svcVars, taskVars, Sleeps
  <2>3. TaskInv'
    BY <1>4 DEF TimerInv, TaskInv, Running, Sleeps, Locked, Tick, svcVars, timerVars, taskVars
  <2>4. ClearInv'
    BY <1>4 DEF TimerInv, ClearInv, ClearTurnsOff, svcVars, timerVars, taskVars, clearVars
  <2> QED BY <2>1, <2>2, <2>3, <2>4 DEF TimerInv
<1> QED BY <1>2, <1>3, <1>4 DEF TimerNext

-----------------------------------------------------------------------------
\* A countdown lasts as long as its step, whatever pauses it, for any steps and roundings: a step
\* is popped no earlier, is late by no more than the roundings of its pauses and a tick, and what is
\* shown as left never falls short of what is left.
THEOREM TimeCorrect == TimerSpec => []StepRunsItsTime
<1>1. TimerInv => StepRunsItsTime
  <2> SUFFICES ASSUME TimerInv PROVE StepRunsItsTime
    OBVIOUS
  <2>1. ASSUME steps # <<>>, timer_state # "IDLE"
        PROVE  /\ ran <= Whole + pauses * (MsParts - 1) + Tick + held
               /\ Whole <= ran + StatusRemaining * MsParts
               /\ StatusRemaining <= Head(steps).duration
    <3>1. /\ Whole \in Nat /\ Tick \in Nat /\ held \in Nat /\ ran \in Nat /\ now \in Nat
          /\ deadline \in Nat /\ pauses * (MsParts - 1) \in Nat /\ Head(steps).duration \in Nat
          /\ MsParts \in Nat /\ Bound = Whole + pauses * (MsParts - 1) + held /\ ran <= Bound + Tick
      BY <2>1, TimerTypes DEF TimerInv, CountInv
    <3>2. CASE Running
      <4>1. /\ StatusRemaining = Remaining(now)
            /\ Whole <= deadline - now + ran /\ deadline - now <= Whole
        BY <3>2 DEF StatusRemaining, Running, TimerInv, CountInv
      <4>2. /\ Remaining(now) \in Nat
            /\ deadline <= now => Remaining(now) = 0
            /\ deadline > now => deadline - now <= Remaining(now) * MsParts
            /\ Remaining(now) <= Head(steps).duration
        BY <3>1, <4>1, RemainingFacts DEF TimerInv, Whole
      <4>3. Remaining(now) * MsParts \in Nat
        BY <3>1, <4>2, Product
      <4>4. Whole <= ran + Remaining(now) * MsParts
        BY <3>1, <4>1, <4>2, <4>3
      <4> QED BY <3>1, <4>1, <4>2, <4>4
    <3>3. CASE ~Running
      <4>1. StatusRemaining = remaining /\ Stopped
        BY <2>1, <3>3 DEF StatusRemaining, Running, Stopped
      <4> QED BY <3>1, <4>1 DEF TimerInv, CountInv
    <3> QED BY <3>2, <3>3
  <2>2. ASSUME task = "pop", ~Locked, Due PROVE Whole <= ran
    <3>1. /\ Running /\ deadline <= seen /\ seen <= now /\ Whole <= deadline - now + ran
          /\ now \in Nat /\ seen \in Nat /\ deadline \in Nat /\ ran \in Nat /\ Whole \in Nat
      BY <2>2, TimerTypes DEF Due, Running, TimerInv, TaskInv, CountInv
    <3> QED BY <3>1
  <2> QED BY <2>1, <2>2 DEF StepRunsItsTime, Whole
<1> QED BY <1>1, TimerInitInv, TimerNextInv, PTL DEF TimerSpec

\* After a clear the relay stays off but for a step popped before it, in every behaviour.
THEOREM ClearCorrect == TimerSpec => []ClearTurnsOff
<1>1. TimerInv => ClearTurnsOff
  BY DEF TimerInv, ClearInv
<1> QED BY <1>1, TimerInitInv, TimerNextInv, PTL DEF TimerSpec

\* The timer's queue promises StepQueue's queue of steps, whatever the clock and the
\* wakings of the task: every step of the timer is one of the queue's, or none.
THEOREM TimerQueueImplemented == TimerSpec => TimerImplementsQueue
<1>1. TimerInit => TimerQueue!Init
  BY DEF TimerInit, TimerQueue!Init, TimerQueue!Told
<1>2. TimerInv /\ [TimerNext]_svcVars => [TimerQueue!Next]_(TimerQueue!vars)
  <2> SUFFICES ASSUME TimerInv, [TimerNext]_svcVars PROVE [TimerQueue!Next]_(TimerQueue!vars)
    OBVIOUS
  <2>1. ASSUME UNCHANGED <<steps, timer_state, popped, clearing, relay>>,
               task = "apply" <=> task' = "apply"
        PROVE  UNCHANGED TimerQueue!vars
    BY <2>1 DEF TimerQueue!vars
  <2>2. CASE Advance \/ Wake \/ ReadClock \/ NothingDue \/ Plan \/ ToggleAfterTrip \/ TripStays
             \/ UNCHANGED svcVars
    <3>1. UNCHANGED <<steps, timer_state, popped, clearing, relay>>
      BY <2>2 DEF Advance, Wake, ReadClock, NothingDue, Plan, ToggleAfterTrip, TripStays,
                  svcVars, timerVars, taskVars, clearVars
    <3>2. task = "apply" <=> task' = "apply"
      BY <2>2 DEF Advance, Wake, ReadClock, NothingDue, Plan, ToggleAfterTrip, TripStays,
                  svcVars, taskVars
    <3> QED BY <2>1, <3>1, <3>2
  <2>3. CASE Pop
    <3>1. /\ timer_state = "RUNNING" /\ task = "pop" /\ task' = "apply"
          /\ popped' = Head(steps) /\ steps' = Tail(steps)
          /\ timer_state' = IF steps' = <<>> THEN "IDLE" ELSE "RUNNING"
          /\ UNCHANGED <<clearing, relay>>
      BY <2>3 DEF Pop, Due, StartNext, clearVars
    <3> QED BY <3>1 DEF TimerQueue!Next, TimerQueue!Take
  <2>4. CASE Apply
    <3>1. /\ task = "apply" /\ task' = "read" /\ relay' = popped.on
          /\ UNCHANGED <<steps, timer_state, clearing>>
      BY <2>4 DEF Apply, timerVars
    <3> QED BY <3>1 DEF TimerQueue!Next, TimerQueue!Apply
  <2>5. CASE AddStep
    BY <2>5 DEF AddStep, clearVars, TimerQueue!Next, TimerQueue!Add
  <2>6. CASE Clear
    <3>1. TimerQueue!Clear("clearing")
      BY <2>6 DEF Clear, TimerQueue!Clear, TimerQueue!Ready, TimerQueue!Told
    <3> QED BY <3>1 DEF TimerQueue!Next
  <2>7. CASE SwitchOff
    <3>1. TimerQueue!Open("clearing")
      BY <2>7 DEF SwitchOff, timerVars, taskVars, TimerQueue!Open
    <3> QED BY <3>1 DEF TimerQueue!Next
  <2>8. CASE TogglePause
    BY <2>8 DEF TogglePause, PauseAs, clearVars, TimerQueue!Next, TimerQueue!Pause
  <2>9. CASE ToggleRun \/ TripCleared
    <3>1. steps # <<>> /\ timer_state # "RUNNING" /\ timer_state' = "RUNNING"
      BY <2>9 DEF ToggleRun, TripCleared, Count, TimerInv, TaskInv, CountInv
    <3>2. UNCHANGED <<steps, task, popped, clearing, relay>>
      BY <2>9 DEF ToggleRun, TripCleared, Count
    <3> QED BY <3>1, <3>2 DEF TimerQueue!Next, TimerQueue!Run
  <2>10. CASE RelayChanged
    <3>1. PICK on \in BOOLEAN, kind \in {"OVP", "OCP", "OVR"} :
              /\ on => kind = "OVR"
              /\ relay' = on
              /\ timer_state' = IF timer_state = "RUNNING" THEN kind ELSE timer_state
      BY <2>10 DEF RelayChanged, PauseAs, TimerInv, CountInv
    <3>2. UNCHANGED <<steps, task, popped, clearing>>
      BY <2>10 DEF RelayChanged
    <3>3. TimerQueue!Switch("switching")
      BY <3>1, <3>2 DEF TimerQueue!Switch, TimerQueue!Ready, TimerQueue!Told, TimerQueue!Heard,
                        TimerQueue!Kinds, TimerQueue!Trips
    <3> QED BY <3>3 DEF TimerQueue!Next
  <2> QED
    BY <2>2, <2>3, <2>4, <2>5, <2>6, <2>7, <2>8, <2>9, <2>10 DEF TimerNext, Task, Called
<1> QED
  BY <1>1, <1>2, TimerInitInv, TimerNextInv, PTL DEF TimerSpec, TimerImplementsQueue, TimerQueue!Spec

-----------------------------------------------------------------------------
(***************************************************************************)
(* Telemetry.  Between its reads of the interval the worker's copy is the  *)
(* one that is set, or a setter has still to wake it.                      *)
(***************************************************************************)

\* The worker's copy of the interval is the one set, or a setter has still to wake it.
Hears == waking \/ "wake" \in wakes

TelemetryInv ==
    /\ TelemetryTypeOK /\ SamplesCountOnce
    /\ worker \in {"plan", "sleep"} => Hears \/ interval_ms = interval
    /\ worker = "sleep" /\ connected => sleep_until <= time + interval_ms

LEMMA TelemetryInitInv == TelemetryInit => TelemetryInv
<1>1. TelemetryInit => waking \in BOOLEAN /\ connected \in BOOLEAN
  BY DEF TelemetryInit
<1> QED BY <1>1, TelemetryAssumption DEF TelemetryInit, TelemetryInv, TelemetryTypeOK, SamplesCountOnce

LEMMA TelemetryNextInv == TelemetryInv /\ [TelemetryNext]_telemetryVars => TelemetryInv'
<1> SUFFICES ASSUME TelemetryInv, [TelemetryNext]_telemetryVars PROVE TelemetryInv'
  OBVIOUS
<1> USE TelemetryAssumption DEF TelemetryInv, TelemetryTypeOK, Hears
<1>1. CASE TimePasses
  BY <1>1 DEF TimePasses, SamplesCountOnce, settingVars, windowVars
<1>2. CASE Sample
  <2>1. 1..(taken + 1) = 1..taken \cup {taken + 1} /\ taken + 1 \notin 1..taken
    OBVIOUS
  <2>2. SamplesCountOnce'
    BY <1>2, <2>1 DEF Sample, SamplesCountOnce
  <2> QED BY <1>2, <2>2 DEF Sample, clockVars, settingVars
<1>3. ASSUME NEW ms \in Intervals, SetInterval(ms) PROVE TelemetryInv'
  <2>1. waking' \in BOOLEAN /\ waking'
    BY <1>3 DEF SetInterval
  <2> QED BY <1>3, <2>1 DEF SetInterval, SamplesCountOnce, clockVars, windowVars
<1>4. ASSUME NEW b \in {"wake", "connected", "disconnected"}, Notify(b) PROVE TelemetryInv'
  <2>1. waking' \in BOOLEAN
    BY <1>4 DEF Notify
  <2> QED BY <1>4, <2>1 DEF Notify, SamplesCountOnce, clockVars, windowVars
<1>5. CASE ReadInterval
  BY <1>5 DEF ReadInterval, SamplesCountOnce, clockVars, windowVars
<1>6. CASE PlanSleep
  BY <1>6 DEF PlanSleep, SamplesCountOnce, Smaller, Endless, settingVars, windowVars
<1>7. CASE WakeUp
  <2>1. connected' \in BOOLEAN
    BY <1>7 DEF WakeUp
  <2>2. SamplesCountOnce'
    BY <1>7 DEF WakeUp, SamplesCountOnce
  <2> QED BY <1>7, <2>1, <2>2 DEF WakeUp, settingVars
<1>8. CASE PublishTick
  <2>1. SamplesCountOnce'
    BY <1>8 DEF PublishTick, SamplesCountOnce
  <2> QED BY <1>8, <2>1 DEF PublishTick, settingVars
<1>9. CASE NoTick
  BY <1>9 DEF NoTick, SamplesCountOnce, clockVars, settingVars, windowVars
<1>10. CASE UNCHANGED telemetryVars
  BY <1>10 DEF telemetryVars, SamplesCountOnce, clockVars, settingVars, windowVars
<1> QED BY <1>1, <1>2, <1>3, <1>4, <1>5, <1>6, <1>7, <1>8, <1>9, <1>10 DEF TelemetryNext

\* However often the interval is changed and the connection lost, every sample is reported
\* once or known to be dropped, and the worker sleeps no longer than the interval set now.
THEOREM TelemetryCorrect == TelemetrySpec => []TelemetryIsOnTime
<1>1. TelemetryInv => TelemetryIsOnTime
  BY DEF TelemetryInv, TelemetryTypeOK, TelemetryIsOnTime, SleepIsShort, Hears
<1> QED BY <1>1, TelemetryInitInv, TelemetryNextInv, PTL DEF TelemetrySpec

-----------------------------------------------------------------------------
(***************************************************************************)
(* StatusLed.  Every flag settles on what is so: what the task that owns   *)
(* it has still to write ends in it, or the flag shows it and nothing of   *)
(* it is to be written.  The writes are sequences, so the facts about      *)
(* concatenations come first.                                              *)
(***************************************************************************)

Writes == Flags \X BOOLEAN

\* What writes do to a flag: none is of it, the last of it is w, w is not among them.
Silent(s, f) == \A i \in 1..Len(s) : s[i][1] # f
Ends(s, w) == \E i \in 1..Len(s) : s[i] = w /\ \A j \in (i + 1)..Len(s) : s[j][1] # w[1]
Never(s, w) == \A i \in 1..Len(s) : s[i] # w

LEMMA OneWrite ==
    ASSUME NEW f \in Flags
    PROVE  /\ Raise(f) \in Writes /\ Raise(f)[1] = f /\ Raise(f)[2] = TRUE
           /\ Lower(f) \in Writes /\ Lower(f)[1] = f /\ Lower(f)[2] = FALSE
<1>1. TRUE \in BOOLEAN /\ FALSE \in BOOLEAN
  OBVIOUS
<1>2. Raise(f) \in Writes /\ Lower(f) \in Writes
  BY <1>1 DEF Raise, Lower, Writes
<1> QED BY <1>2 DEF Raise, Lower

LEMMA WhichWrite ==
    ASSUME NEW w \in Writes
    PROVE  w[1] \in Flags /\ w[2] \in BOOLEAN /\ w = IF w[2] THEN Raise(w[1]) ELSE Lower(w[1])
<1>1. w[1] \in Flags /\ w[2] \in BOOLEAN /\ w = <<w[1], w[2]>>
  BY DEF Writes
<1>2. CASE w[2] = TRUE
  BY <1>1, <1>2 DEF Raise
<1>3. CASE w[2] = FALSE
  BY <1>1, <1>3 DEF Lower
<1> QED BY <1>1, <1>2, <1>3

LEMMA SilentFacts ==
    ASSUME NEW s \in Seq(Writes), NEW u \in Seq(Writes), NEW f \in Flags, NEW w \in Writes
    PROVE  /\ s \o u \in Seq(Writes)
           /\ Silent(s, f) /\ Silent(u, f) => Silent(s \o u, f)
           /\ Never(s, w) /\ Never(u, w) => Never(s \o u, w)
<1>1. s \o u \in Seq(Writes) /\ Len(s \o u) = Len(s) + Len(u)
  OBVIOUS
<1>2. \A i \in 1..Len(s \o u) : \/ i \in 1..Len(s) /\ (s \o u)[i] = s[i]
                                \/ i - Len(s) \in 1..Len(u) /\ (s \o u)[i] = u[i - Len(s)]
  OBVIOUS
<1> QED BY <1>1, <1>2 DEF Silent, Never

LEMMA EndsFacts ==
    ASSUME NEW s \in Seq(Writes), NEW u \in Seq(Writes), NEW w \in Writes
    PROVE  /\ Ends(u, w) => Ends(s \o u, w)
           /\ Ends(s, w) /\ Silent(u, w[1]) => Ends(s \o u, w)
<1>1. ASSUME Ends(u, w) PROVE Ends(s \o u, w)
  <2>1. PICK i \in 1..Len(u) : u[i] = w /\ \A j \in (i + 1)..Len(u) : u[j][1] # w[1]
    BY <1>1 DEF Ends
  <2>2. Len(s) + i \in 1..Len(s \o u) /\ (s \o u)[Len(s) + i] = w
    BY <2>1
  <2>3. \A j \in (Len(s) + i + 1)..Len(s \o u) : (s \o u)[j] = u[j - Len(s)] /\ j - Len(s) \in (i + 1)..Len(u)
    BY <2>1
  <2>4. \A j \in (Len(s) + i + 1)..Len(s \o u) : (s \o u)[j][1] # w[1]
    BY <2>1, <2>3
  <2> QED BY <2>2, <2>4 DEF Ends
<1>2. ASSUME Ends(s, w), Silent(u, w[1]) PROVE Ends(s \o u, w)
  <2>1. PICK i \in 1..Len(s) : s[i] = w /\ \A j \in (i + 1)..Len(s) : s[j][1] # w[1]
    BY <1>2 DEF Ends
  <2>2. i \in 1..Len(s \o u) /\ (s \o u)[i] = w
    BY <2>1
  <2>3. ASSUME NEW j \in (i + 1)..Len(s \o u) PROVE (s \o u)[j][1] # w[1]
    <3>1. CASE j <= Len(s)
      BY <2>1, <2>3, <3>1
    <3>2. CASE j > Len(s)
      <4>1. (s \o u)[j] = u[j - Len(s)] /\ j - Len(s) \in 1..Len(u)
        BY <2>3, <3>2
      <4> QED BY <1>2, <4>1 DEF Silent
    <3> QED BY <2>3, <3>1, <3>2
  <2> QED BY <2>2, <2>3 DEF Ends
<1> QED BY <1>1, <1>2

\* A setter that writes three flags, and one that writes one.
LEMMA ThreeWrites ==
    ASSUME NEW a \in Writes, NEW b \in Writes, NEW c \in Writes,
           a[1] # b[1], b[1] # c[1], a[1] # c[1],
           NEW s, s = <<a, b, c>>
    PROVE  /\ s \in Seq(Writes)
           /\ \A w \in {a, b, c} : Ends(s, w)
           /\ \A w \in Writes \ {a, b, c} : Never(s, w)
           /\ \A f \in Flags \ {a[1], b[1], c[1]} : Silent(s, f)
<1>1. s \in Seq(Writes) /\ Len(s) = 3 /\ s[1] = a /\ s[2] = b /\ s[3] = c
  OBVIOUS
<1>2. \A i \in 1..Len(s) : i = 1 \/ i = 2 \/ i = 3
  BY <1>1
<1>3. Ends(s, a) /\ Ends(s, b) /\ Ends(s, c)
  BY <1>1, <1>2 DEF Ends
<1>4. \A w \in Writes \ {a, b, c} : Never(s, w)
  BY <1>1, <1>2 DEF Never
<1>5. \A f \in Flags \ {a[1], b[1], c[1]} : Silent(s, f)
  BY <1>1, <1>2 DEF Silent
<1> QED BY <1>1, <1>3, <1>4, <1>5

LEMMA OneWriteOnly ==
    ASSUME NEW a \in Writes, NEW s, s = <<a>>
    PROVE  /\ s \in Seq(Writes) /\ Ends(s, a)
           /\ \A w \in Writes \ {a} : Never(s, w)
           /\ \A f \in Flags \ {a[1]} : Silent(s, f)
<1>1. s \in Seq(Writes) /\ Len(s) = 1 /\ s[1] = a
  OBVIOUS
<1> QED BY <1>1 DEF Ends, Never, Silent

LEMMA TwoWrites ==
    ASSUME NEW a \in Writes, NEW b \in Writes, a[1] # b[1], NEW s, s = <<a, b>>
    PROVE  /\ s \in Seq(Writes)
           /\ \A w \in {a, b} : Ends(s, w)
           /\ \A w \in Writes \ {a, b} : Never(s, w)
           /\ \A f \in Flags \ {a[1], b[1]} : Silent(s, f)
<1>1. s \in Seq(Writes) /\ Len(s) = 2 /\ s[1] = a /\ s[2] = b
  OBVIOUS
<1>2. \A i \in 1..Len(s) : i = 1 \/ i = 2
  BY <1>1
<1> QED BY <1>1, <1>2 DEF Ends, Never, Silent

-----------------------------------------------------------------------------
(* The invariant *)

WifiFlags == {"wifi_connected", "wifi_connecting", "wifi_failed"}
Usbs == {"dark", "solid"}
Wifis == {"dark", "breath", "solid", "lost", "blink"}
Readers == Flags \cup {"usb_none", "wifi_none", "delay"}
Shown == {"dark", "solid", "breath", "blink"}

LedTypeOK ==
    /\ flags \in [Flags -> BOOLEAN] /\ pending \in [Tasks -> Seq(Writes)]
    /\ boot \in {"usb", "wifi", "wait", "done"} /\ usb \in Usbs /\ wifi \in Wifis
    /\ reader \in Readers /\ lights \in [usb : Shown, wifi : Shown]
    /\ quiet \in BOOLEAN /\ early \in BOOLEAN /\ recent \subseteq Wifis

\* The state that a flag of Wi-Fi stands for, the write that makes it say what is so, and
\* the one that does not.
StateOf(f) == CASE f = "wifi_connected" -> "solid" [] f = "wifi_failed" -> "blink" [] OTHER -> "breath"
Wish(f, state) == IF state = StateOf(f) THEN Raise(f) ELSE Lower(f)
Contrary(f, state) == IF state = StateOf(f) THEN Lower(f) ELSE Raise(f)

\* The flag of w is as w says once the writes of t are made.
Settles(t, w) ==
    \/ Ends(pending[t], w)
    \/ Silent(pending[t], w[1]) /\ flags[w[1]] = w[2]

\* A task writes the flags of its light, and start-up the ones of Wi-Fi before it starts or
\* when it has failed.
OwnerInv ==
    /\ \A f \in WifiFlags : Silent(pending["tinyusb"], f)
    /\ \A f \in Flags \ WifiFlags : Silent(pending["events"], f)
    /\ boot \in {"usb", "wifi"} => wifi = "dark" /\ pending["events"] = <<>>
    /\ pending["main"] = <<>> \/ boot = "wifi" \/ (boot = "done" /\ wifi = "blink")

UsbInv ==
    /\ flags["usb_failed"] = FALSE
    /\ \A t \in Tasks : Never(pending[t], Raise("usb_failed"))
    /\ Never(pending["main"], Raise("usb_connected"))
    /\ usb = "dark" => Settles("tinyusb", Lower("usb_connected"))
    /\ usb = "solid" /\ ~early =>
           /\ boot # "usb" /\ Silent(pending["main"], "usb_connected")
           /\ Settles("tinyusb", Raise("usb_connected"))
    /\ early => usb = "solid"

WifiInv ==
    \A f \in WifiFlags :
        Settles("events", Wish(f, wifi)) /\ Never(pending["main"], Contrary(f, wifi))

\* A flag that is up, or will be raised, is of a recent state.
RecentInv ==
    /\ wifi \in recent
    /\ \A f \in WifiFlags :
           \/ StateOf(f) \in recent
           \/ flags[f] = FALSE /\ \A t \in Tasks : Never(pending[t], Raise(f))

ShownUsb == IF flags["usb_failed"] THEN "blink" ELSE IF flags["usb_connected"] THEN "solid" ELSE "dark"
ShownWifi ==
    IF flags["wifi_failed"] THEN "blink" ELSE IF flags["wifi_connected"] THEN "solid"
    ELSE IF flags["wifi_connecting"] THEN "breath" ELSE "dark"

\* What the pass has read of flags that nobody has written since is still so.
PassInv ==
    /\ quiet =>
           /\ reader \in {"usb_connected", "usb_none"} => ~flags["usb_failed"]
           /\ reader = "usb_none" => ~flags["usb_connected"]
           /\ reader \in WifiFlags \cup {"wifi_none", "delay"} => lights.usb = ShownUsb
           /\ reader \in {"wifi_connected", "wifi_connecting", "wifi_none"} => ~flags["wifi_failed"]
           /\ reader \in {"wifi_connecting", "wifi_none"} => ~flags["wifi_connected"]
           /\ reader = "wifi_none" => ~flags["wifi_connecting"]
           /\ reader = "delay" => lights.wifi = ShownWifi
    /\ reader = "delay" => lights.wifi \in recent \cup {"dark"}

LedInv == LedTypeOK /\ OwnerInv /\ UsbInv /\ WifiInv /\ RecentInv /\ PassInv

-----------------------------------------------------------------------------
(* The setters and what the tasks make of them *)

\* Writes that lower flags only.
Lowers(s) == s \in Seq(Writes) /\ \A f \in Flags : Never(s, Raise(f))

\* Writes after which the flags of Wi-Fi say `state`, and that raise no other on the way.
Leads(s, state) ==
    /\ s \in Seq(Writes)
    /\ \A f \in WifiFlags : Ends(s, Wish(f, state)) /\ (state # StateOf(f) => Never(s, Raise(f)))

SilentOnUsb(s) == \A f \in Flags \ WifiFlags : Silent(s, f)

LEMMA FlagKinds == WifiFlags \subseteq Flags /\ Flags \ WifiFlags = {"usb_connected", "usb_failed"}
BY DEF WifiFlags, Flags

LEMMA DifferentWrites ==
    ASSUME NEW f \in Flags, NEW g \in Flags
    PROVE  Raise(f) # Lower(g) /\ (f # g => Raise(f) # Raise(g) /\ Lower(f) # Lower(g))
<1>1. Raise(f)[2] = TRUE /\ Lower(g)[2] = FALSE /\ Raise(f)[1] = f /\ Raise(g)[1] = g
      /\ Lower(f)[1] = f /\ Lower(g)[1] = g
  BY OneWrite
<1> QED BY <1>1

LEMMA LoweringOne ==
    ASSUME NEW f \in Flags, NEW s, s = <<Lower(f)>>
    PROVE  /\ Lowers(s) /\ Ends(s, Lower(f))
           /\ \A g \in Flags \ {f} : Silent(s, g)
<1>1. Lower(f) \in Writes /\ Lower(f)[1] = f
  BY OneWrite
<1>2. s \in Seq(Writes) /\ Ends(s, Lower(f)) /\ (\A w \in Writes \ {Lower(f)} : Never(s, w))
      /\ \A g \in Flags \ {f} : Silent(s, g)
  BY <1>1, OneWriteOnly
<1>3. \A g \in Flags : Raise(g) \in Writes \ {Lower(f)}
  BY OneWrite, DifferentWrites
<1> QED BY <1>2, <1>3 DEF Lowers

LEMMA LowersTwice ==
    ASSUME NEW s, NEW u, Lowers(s), Lowers(u)
    PROVE  Lowers(s \o u)
<1>1. s \in Seq(Writes) /\ u \in Seq(Writes) /\ s \o u \in Seq(Writes)
  BY DEF Lowers
<1>2. ASSUME NEW f \in Flags PROVE Never(s \o u, Raise(f))
  BY <1>1, OneWrite, SilentFacts DEF Lowers
<1> QED BY <1>1, <1>2 DEF Lowers

LEMMA LeadsAfter ==
    ASSUME NEW s, NEW u, NEW state \in Wifis, Lowers(s), Leads(u, state)
    PROVE  Leads(s \o u, state)
<1>1. s \in Seq(Writes) /\ u \in Seq(Writes) /\ s \o u \in Seq(Writes)
  BY DEF Lowers, Leads
<1>2. ASSUME NEW f \in WifiFlags
      PROVE  Ends(s \o u, Wish(f, state)) /\ (state # StateOf(f) => Never(s \o u, Raise(f)))
  <2>1. f \in Flags /\ Raise(f) \in Writes /\ Wish(f, state) \in Writes
    BY FlagKinds, OneWrite DEF Wish
  <2>2. Ends(u, Wish(f, state)) /\ Never(s, Raise(f)) /\ (state # StateOf(f) => Never(u, Raise(f)))
    BY <2>1 DEF Lowers, Leads
  <2> QED BY <1>1, <2>1, <2>2, EndsFacts, SilentFacts
<1> QED BY <1>1, <1>2 DEF Leads

\* A flag that is to be down may be lowered once more.
LEMMA LeadsBefore ==
    ASSUME NEW s, NEW state \in Wifis, NEW g \in WifiFlags, Leads(s, state), state # StateOf(g)
    PROVE  Leads(s \o <<Lower(g)>>, state)
<1> DEFINE u == <<Lower(g)>>
<1>1. Lowers(u) /\ Ends(u, Lower(g)) /\ (\A f \in Flags \ {g} : Silent(u, f)) /\ g \in Flags
  BY FlagKinds, LoweringOne
<1> HIDE DEF u
<1>2. s \in Seq(Writes) /\ u \in Seq(Writes) /\ s \o u \in Seq(Writes)
  BY <1>1 DEF Lowers, Leads
<1>3. ASSUME NEW f \in WifiFlags
      PROVE  Ends(s \o u, Wish(f, state)) /\ (state # StateOf(f) => Never(s \o u, Raise(f)))
  <2>1. f \in Flags /\ Raise(f) \in Writes /\ Wish(f, state) \in Writes /\ Wish(f, state)[1] = f
    BY FlagKinds, OneWrite DEF Wish
  <2>2. Ends(s, Wish(f, state)) /\ Never(u, Raise(f)) /\ (state # StateOf(f) => Never(s, Raise(f)))
    BY <1>1, <2>1 DEF Lowers, Leads
  <2>3. Ends(s \o u, Wish(f, state))
    <3>1. CASE f = g
      BY <1>1, <1>2, <2>1, <3>1, EndsFacts DEF Wish
    <3>2. CASE f # g
      BY <1>1, <1>2, <2>1, <2>2, <3>2, EndsFacts
    <3> QED BY <3>1, <3>2
  <2> QED BY <1>2, <2>1, <2>2, <2>3, SilentFacts
<1>4. Leads(s \o u, state)
  BY <1>2, <1>3 DEF Leads
<1> QED BY <1>4 DEF u

LEMMA SilentOnUsbTwice ==
    ASSUME NEW s \in Seq(Writes), NEW u \in Seq(Writes), SilentOnUsb(s), SilentOnUsb(u)
    PROVE  SilentOnUsb(s \o u)
BY SilentFacts, OneWrite DEF SilentOnUsb

\* A setter that raises one flag of Wi-Fi and lowers the others.
LEMMA RaisingOne ==
    ASSUME NEW f \in WifiFlags, NEW g \in WifiFlags, NEW h \in WifiFlags, f # g, g # h, f # h,
           NEW s, s = <<Raise(f), Lower(g), Lower(h)>>
    PROVE  Leads(s, StateOf(f)) /\ SilentOnUsb(s) /\ Never(s, Lower(f))
<1>1. /\ Raise(f) \in Writes /\ Lower(g) \in Writes /\ Lower(h) \in Writes /\ Lower(f) \in Writes
      /\ Raise(f)[1] = f /\ Lower(g)[1] = g /\ Lower(h)[1] = h
  BY FlagKinds, OneWrite
<1>2. /\ s \in Seq(Writes)
      /\ Ends(s, Raise(f)) /\ Ends(s, Lower(g)) /\ Ends(s, Lower(h))
      /\ \A w \in Writes \ {Raise(f), Lower(g), Lower(h)} : Never(s, w)
      /\ \A k \in Flags \ {f, g, h} : Silent(s, k)
  BY <1>1, ThreeWrites
<1>3. WifiFlags = {f, g, h} /\ StateOf(f) # StateOf(g) /\ StateOf(f) # StateOf(h)
  BY DEF WifiFlags, StateOf
<1>4. Raise(g) \in Writes /\ Raise(h) \in Writes
  BY FlagKinds, OneWrite
<1>5. /\ Raise(g) \notin {Raise(f), Lower(g), Lower(h)} /\ Raise(h) \notin {Raise(f), Lower(g), Lower(h)}
      /\ Lower(f) \notin {Raise(f), Lower(g), Lower(h)}
  BY FlagKinds, DifferentWrites
<1>6. Never(s, Raise(g)) /\ Never(s, Raise(h)) /\ Never(s, Lower(f))
  BY <1>1, <1>2, <1>4, <1>5
<1>7. SilentOnUsb(s)
  BY <1>2, <1>3 DEF SilentOnUsb
<1>8. Leads(s, StateOf(f))
  BY <1>2, <1>3, <1>6 DEF Leads, Wish
<1> QED BY <1>6, <1>7, <1>8

LEMMA WifiSetters ==
    /\ Leads(set_wifi_connected(TRUE), "solid") /\ SilentOnUsb(set_wifi_connected(TRUE))
    /\ Leads(set_wifi_connecting(TRUE), "breath") /\ SilentOnUsb(set_wifi_connecting(TRUE))
    /\ Leads(set_wifi_failed(TRUE), "blink") /\ SilentOnUsb(set_wifi_failed(TRUE))
    /\ Never(set_wifi_failed(TRUE), Lower("wifi_failed"))
    /\ set_wifi_connected(FALSE) = <<Lower("wifi_connected")>>
    /\ set_wifi_connecting(FALSE) = <<Lower("wifi_connecting")>>
    /\ set_wifi_failed(FALSE) = <<Lower("wifi_failed")>>
<1>1. /\ "wifi_connected" \in WifiFlags /\ "wifi_connecting" \in WifiFlags /\ "wifi_failed" \in WifiFlags
      /\ StateOf("wifi_connected") = "solid" /\ StateOf("wifi_connecting") = "breath"
      /\ StateOf("wifi_failed") = "blink"
  BY DEF WifiFlags, StateOf
<1>2. set_wifi_connected(TRUE) = <<Raise("wifi_connected"), Lower("wifi_connecting"), Lower("wifi_failed")>>
  BY DEF set_wifi_connected
<1>3. set_wifi_connecting(TRUE) = <<Raise("wifi_connecting"), Lower("wifi_connected"), Lower("wifi_failed")>>
  BY DEF set_wifi_connecting
<1>4. set_wifi_failed(TRUE) = <<Raise("wifi_failed"), Lower("wifi_connected"), Lower("wifi_connecting")>>
  BY DEF set_wifi_failed
<1>5. /\ set_wifi_connected(FALSE) = <<Lower("wifi_connected")>>
      /\ set_wifi_connecting(FALSE) = <<Lower("wifi_connecting")>>
      /\ set_wifi_failed(FALSE) = <<Lower("wifi_failed")>>
  BY DEF set_wifi_connected, set_wifi_connecting, set_wifi_failed
<1>6. Leads(set_wifi_connected(TRUE), "solid") /\ SilentOnUsb(set_wifi_connected(TRUE))
  BY <1>1, <1>2, RaisingOne
<1>7. Leads(set_wifi_connecting(TRUE), "breath") /\ SilentOnUsb(set_wifi_connecting(TRUE))
  BY <1>1, <1>3, RaisingOne
<1>8. /\ Leads(set_wifi_failed(TRUE), "blink") /\ SilentOnUsb(set_wifi_failed(TRUE))
      /\ Never(set_wifi_failed(TRUE), Lower("wifi_failed"))
  BY <1>1, <1>4, RaisingOne
<1> QED BY <1>5, <1>6, <1>7, <1>8

\* Lowering one of the flags of Wi-Fi, alone.
LEMMA LoweringWifi ==
    ASSUME NEW f \in WifiFlags
    PROVE  Lowers(<<Lower(f)>>) /\ SilentOnUsb(<<Lower(f)>>)
<1>1. f \in Flags /\ \A g \in Flags \ WifiFlags : g \in Flags \ {f}
  BY FlagKinds
<1> QED BY <1>1, LoweringOne DEF SilentOnUsb

\* What the events, and the wait of start-up, write of Wi-Fi.
LEMMA StaStartWrites ==
    LET s == set_wifi_connected(FALSE) \o set_wifi_connecting(TRUE) \o set_wifi_failed(FALSE)
    IN  Leads(s, "breath") /\ SilentOnUsb(s)
<1> DEFINE c == <<Lower("wifi_connected")>>
           i == set_wifi_connecting(TRUE)
           f == <<Lower("wifi_failed")>>
<1>1. Lowers(c) /\ SilentOnUsb(c) /\ Lowers(f) /\ SilentOnUsb(f)
  BY LoweringWifi DEF WifiFlags
<1>2. Leads(i, "breath") /\ SilentOnUsb(i)
  BY WifiSetters
<1> HIDE DEF i
<1>3. "breath" \in Wifis /\ "wifi_failed" \in WifiFlags /\ "breath" # StateOf("wifi_failed")
  BY DEF Wifis, WifiFlags, StateOf
<1>4. Leads(c \o i, "breath")
  BY <1>1, <1>2, <1>3, LeadsAfter
<1>5. Leads((c \o i) \o f, "breath")
  BY <1>3, <1>4, LeadsBefore
<1>6. SilentOnUsb((c \o i) \o f)
  <2> HIDE DEF c, f
  <2>1. SilentOnUsb(c \o i) /\ c \o i \in Seq(Writes)
    BY <1>1, <1>2, SilentOnUsbTwice DEF Leads, Lowers
  <2> QED BY <1>1, <2>1, SilentOnUsbTwice DEF Lowers
<1> QED BY <1>5, <1>6, WifiSetters DEF i

\* Two flags that are lowered and a setter that raises one.
LEMMA TwoAndSetter ==
    ASSUME NEW f \in WifiFlags, NEW g \in WifiFlags, NEW u, NEW state \in Wifis,
           Leads(u, state), SilentOnUsb(u)
    PROVE  /\ Leads((<<Lower(f)>> \o <<Lower(g)>>) \o u, state)
           /\ SilentOnUsb((<<Lower(f)>> \o <<Lower(g)>>) \o u)
<1> DEFINE c == <<Lower(f)>>
           d == <<Lower(g)>>
<1>1. Lowers(c) /\ SilentOnUsb(c) /\ Lowers(d) /\ SilentOnUsb(d)
  BY LoweringWifi
<1> HIDE DEF c, d
<1>2. Lowers(c \o d) /\ SilentOnUsb(c \o d)
  BY <1>1, LowersTwice, SilentOnUsbTwice DEF Lowers
<1> DEFINE e == c \o d
<1> HIDE DEF e
<1>3. Leads(e \o u, state) /\ SilentOnUsb(e \o u)
  BY <1>2, LeadsAfter, SilentOnUsbTwice DEF Lowers, Leads, e
<1> QED BY <1>3 DEF c, d, e

LEMMA RetryWrites ==
    LET s == set_wifi_connected(FALSE) \o set_wifi_failed(FALSE) \o set_wifi_connecting(TRUE)
    IN  Leads(s, "breath") /\ SilentOnUsb(s)
<1>1. "wifi_connected" \in WifiFlags /\ "wifi_failed" \in WifiFlags /\ "breath" \in Wifis
  BY DEF WifiFlags, Wifis
<1>2. Leads(set_wifi_connecting(TRUE), "breath") /\ SilentOnUsb(set_wifi_connecting(TRUE))
  BY WifiSetters
<1> QED BY <1>1, <1>2, WifiSetters, TwoAndSetter

LEMMA GotIpWrites ==
    LET s == set_wifi_connecting(FALSE) \o set_wifi_failed(FALSE) \o set_wifi_connected(TRUE)
    IN  Leads(s, "solid") /\ SilentOnUsb(s)
<1>1. "wifi_connecting" \in WifiFlags /\ "wifi_failed" \in WifiFlags /\ "solid" \in Wifis
  BY DEF WifiFlags, Wifis
<1>2. Leads(set_wifi_connected(TRUE), "solid") /\ SilentOnUsb(set_wifi_connected(TRUE))
  BY WifiSetters
<1> QED BY <1>1, <1>2, WifiSetters, TwoAndSetter

LEMMA ExhaustedWrites ==
    LET s == set_wifi_connected(FALSE) \o set_wifi_failed(FALSE) \o set_wifi_connecting(FALSE)
             \o set_wifi_failed(TRUE)
    IN  Leads(s, "blink") /\ SilentOnUsb(s)
<1> DEFINE c == <<Lower("wifi_connected")>>
           f == <<Lower("wifi_failed")>>
           i == <<Lower("wifi_connecting")>>
           u == set_wifi_failed(TRUE)
<1>1. Lowers(c) /\ SilentOnUsb(c) /\ Lowers(f) /\ SilentOnUsb(f) /\ Lowers(i) /\ SilentOnUsb(i)
  BY LoweringWifi DEF WifiFlags
<1>2. Leads(u, "blink") /\ SilentOnUsb(u) /\ "blink" \in Wifis
  BY WifiSetters DEF Wifis
<1> HIDE DEF c, f, i, u
<1>3. Lowers(c \o f) /\ SilentOnUsb(c \o f)
  BY <1>1, LowersTwice, SilentOnUsbTwice DEF Lowers
<1>4. Lowers((c \o f) \o i) /\ SilentOnUsb((c \o f) \o i)
  BY <1>1, <1>3, LowersTwice, SilentOnUsbTwice DEF Lowers
<1>5. Leads(((c \o f) \o i) \o u, "blink") /\ SilentOnUsb(((c \o f) \o i) \o u)
  BY <1>2, <1>4, LeadsAfter, SilentOnUsbTwice DEF Lowers, Leads
<1> QED BY <1>5, WifiSetters DEF c, f, i, u

LEMMA BootEndsWrites ==
    LET s == set_wifi_connected(FALSE) \o set_wifi_connecting(FALSE) \o set_wifi_failed(TRUE)
    IN  Leads(s, "blink") /\ SilentOnUsb(s) /\ Never(s, Lower("wifi_failed"))
<1> DEFINE c == <<Lower("wifi_connected")>>
           i == <<Lower("wifi_connecting")>>
           u == set_wifi_failed(TRUE)
<1>1. "wifi_connected" \in WifiFlags /\ "wifi_connecting" \in WifiFlags /\ "blink" \in Wifis
  BY DEF WifiFlags, Wifis
<1>2. Leads(u, "blink") /\ SilentOnUsb(u) /\ Never(u, Lower("wifi_failed"))
  BY WifiSetters
<1> HIDE DEF u
<1>3. Leads((c \o i) \o u, "blink") /\ SilentOnUsb((c \o i) \o u)
  BY <1>1, <1>2, TwoAndSetter
<1>4. Never((c \o i) \o u, Lower("wifi_failed"))
  <2>1. /\ Lower("wifi_failed") \in Writes /\ Lower("wifi_connected") \in Writes /\ Lower("wifi_connecting") \in Writes
        /\ Lower("wifi_failed") # Lower("wifi_connected") /\ Lower("wifi_failed") # Lower("wifi_connecting")
    BY FlagKinds, OneWrite, DifferentWrites DEF WifiFlags
  <2>2. c \in Seq(Writes) /\ i \in Seq(Writes) /\ Never(c, Lower("wifi_failed")) /\ Never(i, Lower("wifi_failed"))
    BY <2>1, OneWriteOnly
  <2> HIDE DEF c, i
  <2>3. c \o i \in Seq(Writes) /\ Never(c \o i, Lower("wifi_failed"))
    BY <2>1, <2>2, FlagKinds, SilentFacts DEF WifiFlags
  <2> QED BY <1>2, <2>1, <2>3, FlagKinds, SilentFacts DEF WifiFlags, Leads
<1> QED BY <1>3, <1>4, WifiSetters DEF u

\* What start-up writes before it starts the station raises nothing.
LEMMA BootUsbWrites ==
    Lowers(set_usb_failed(FALSE) \o set_usb_connected(FALSE) \o set_wifi_connected(FALSE)
           \o set_wifi_connecting(FALSE) \o set_wifi_failed(FALSE))
<1> DEFINE a == set_usb_failed(FALSE)
           b == set_usb_connected(FALSE)
           c == set_wifi_connected(FALSE)
           d == set_wifi_connecting(FALSE)
           e == set_wifi_failed(FALSE)
<1>1. a = <<Lower("usb_failed")>> /\ b = <<Lower("usb_connected")>>
  BY DEF set_usb_failed, set_usb_connected
<1>2. Lowers(a) /\ Lowers(b) /\ Lowers(c) /\ Lowers(d) /\ Lowers(e)
  BY <1>1, LoweringOne, WifiSetters DEF Flags
<1> HIDE DEF a, b, c, d, e
<1>3. Lowers(a \o b)
  BY <1>2, LowersTwice
<1>4. Lowers((a \o b) \o c)
  BY <1>2, <1>3, LowersTwice
<1>5. Lowers(((a \o b) \o c) \o d)
  BY <1>2, <1>4, LowersTwice
<1>6. Lowers((((a \o b) \o c) \o d) \o e)
  BY <1>2, <1>5, LowersTwice
<1> QED BY <1>6 DEF a, b, c, d, e

LEMMA UsbWrites ==
    LET up == set_usb_failed(FALSE) \o set_usb_connected(TRUE)
        down == set_usb_connected(FALSE)
    IN  /\ up \in Seq(Writes) /\ Ends(up, Raise("usb_connected")) /\ Never(up, Raise("usb_failed"))
        /\ down \in Seq(Writes) /\ Ends(down, Lower("usb_connected")) /\ Never(down, Raise("usb_failed"))
        /\ \A f \in WifiFlags : /\ Silent(up, f) /\ Never(up, Raise(f))
                                /\ Silent(down, f) /\ Never(down, Raise(f))
<1> DEFINE a == set_usb_failed(FALSE)
           b == set_usb_connected(TRUE)
           down == set_usb_connected(FALSE)
<1>1. a = <<Lower("usb_failed")>> /\ down = <<Lower("usb_connected")>>
  BY DEF set_usb_failed, set_usb_connected
<1>2. b = <<Raise("usb_connected"), Lower("usb_failed")>>
  BY DEF set_usb_connected
<1>3. /\ "usb_connected" \in Flags /\ "usb_failed" \in Flags
      /\ \A f \in WifiFlags : f \in Flags /\ f # "usb_connected" /\ f # "usb_failed"
  BY DEF Flags, WifiFlags
<1>4. /\ Raise("usb_connected") \in Writes /\ Lower("usb_failed") \in Writes /\ Raise("usb_failed") \in Writes
      /\ Raise("usb_connected")[1] = "usb_connected" /\ Lower("usb_failed")[1] = "usb_failed"
  BY <1>3, OneWrite
<1>5. Raise("usb_failed") # Raise("usb_connected") /\ Raise("usb_failed") # Lower("usb_failed")
  BY <1>3, DifferentWrites
<1>6. /\ b \in Seq(Writes) /\ Ends(b, Raise("usb_connected")) /\ Never(b, Raise("usb_failed"))
      /\ \A f \in Flags \ {"usb_connected", "usb_failed"} : Silent(b, f)
  BY <1>2, <1>4, <1>5, TwoWrites
<1>7. \A f \in WifiFlags : Raise(f) \in Writes \ {Raise("usb_connected"), Lower("usb_failed")}
  BY <1>3, OneWrite, DifferentWrites
<1>8. \A f \in WifiFlags : Never(b, Raise(f))
  BY <1>2, <1>4, <1>7, TwoWrites
<1>9. /\ Lowers(a) /\ Lowers(down) /\ Ends(down, Lower("usb_connected"))
      /\ \A f \in WifiFlags : Silent(a, f) /\ Silent(down, f)
  BY <1>1, <1>3, LoweringOne
<1> HIDE DEF a, b, down
<1>10. a \o b \in Seq(Writes) /\ Ends(a \o b, Raise("usb_connected")) /\ Never(a \o b, Raise("usb_failed"))
  BY <1>3, <1>4, <1>6, <1>9, SilentFacts, EndsFacts DEF Lowers
<1>11. \A f \in WifiFlags : Silent(a \o b, f) /\ Never(a \o b, Raise(f))
  BY <1>3, <1>6, <1>7, <1>8, <1>9, SilentFacts DEF Lowers
<1> QED BY <1>3, <1>9, <1>10, <1>11 DEF a, b, down, Lowers

-----------------------------------------------------------------------------
(* One write *)

LEMMA TailFacts ==
    ASSUME NEW s \in Seq(Writes), s # <<>>
    PROVE  /\ Head(s) \in Writes /\ Tail(s) \in Seq(Writes)
           /\ \A f \in Flags : Silent(s, f) => Silent(Tail(s), f) /\ Head(s)[1] # f
           /\ \A w \in Writes :
                  /\ Never(s, w) => Never(Tail(s), w) /\ Head(s) # w
                  /\ Ends(s, w) => Ends(Tail(s), w) \/ (Head(s) = w /\ Silent(Tail(s), w[1]))
<1>1. /\ Len(s) \in Nat \ {0} /\ Head(s) = s[1] /\ Tail(s) \in Seq(Writes) /\ Len(Tail(s)) = Len(s) - 1
      /\ \A i \in 1..(Len(s) - 1) : Tail(s)[i] = s[i + 1]
  OBVIOUS
<1>2. ASSUME NEW f \in Flags, Silent(s, f) PROVE Silent(Tail(s), f) /\ Head(s)[1] # f
  BY <1>1, <1>2 DEF Silent
<1>3. ASSUME NEW w \in Writes, Never(s, w) PROVE Never(Tail(s), w) /\ Head(s) # w
  BY <1>1, <1>3 DEF Never
<1>4. ASSUME NEW w \in Writes, Ends(s, w)
      PROVE  Ends(Tail(s), w) \/ (Head(s) = w /\ Silent(Tail(s), w[1]))
  <2>1. PICK i \in 1..Len(s) : s[i] = w /\ \A j \in (i + 1)..Len(s) : s[j][1] # w[1]
    BY <1>4 DEF Ends
  <2>2. CASE i = 1
    BY <1>1, <2>1, <2>2 DEF Silent
  <2>3. CASE i > 1
    <3>1. i - 1 \in 1..Len(Tail(s)) /\ Tail(s)[i - 1] = w
      BY <1>1, <2>1, <2>3
    <3>2. \A j \in ((i - 1) + 1)..Len(Tail(s)) : Tail(s)[j][1] # w[1]
      BY <1>1, <2>1, <2>3
    <3> QED BY <3>1, <3>2 DEF Ends
  <2> QED BY <2>1, <2>2, <2>3
<1> QED BY <1>1, <1>2, <1>3, <1>4

LEMMA WriteFacts ==
    ASSUME LedTypeOK, NEW t \in Tasks, Write(t)
    PROVE  LET h == Head(pending[t]) IN
           /\ pending[t] \in Seq(Writes) /\ pending[t] # <<>> /\ h \in Writes
           /\ flags' \in [Flags -> BOOLEAN] /\ pending' \in [Tasks -> Seq(Writes)]
           /\ flags'[h[1]] = h[2] /\ \A f \in Flags \ {h[1]} : flags'[f] = flags[f]
           /\ pending'[t] = Tail(pending[t]) /\ \A u \in Tasks \ {t} : pending'[u] = pending[u]
<1> DEFINE h == Head(pending[t])
<1>1. pending[t] \in Seq(Writes) /\ pending[t] # <<>>
  BY DEF LedTypeOK, Write
<1>2. h \in Writes /\ Tail(pending[t]) \in Seq(Writes)
  BY <1>1, TailFacts
<1>3. h[1] \in Flags /\ h[2] \in BOOLEAN
  BY <1>2, WhichWrite
<1> HIDE DEF h
<1>4. flags' = [flags EXCEPT ![h[1]] = h[2]] /\ pending' = [pending EXCEPT ![t] = Tail(@)]
  BY DEF Write, h
<1>5. flags' \in [Flags -> BOOLEAN] /\ flags'[h[1]] = h[2] /\ \A f \in Flags \ {h[1]} : flags'[f] = flags[f]
  BY <1>3, <1>4 DEF LedTypeOK
<1>6. /\ pending' \in [Tasks -> Seq(Writes)] /\ pending'[t] = Tail(pending[t])
      /\ \A u \in Tasks \ {t} : pending'[u] = pending[u]
  BY <1>2, <1>4 DEF LedTypeOK
<1> QED BY <1>1, <1>2, <1>5, <1>6 DEF h

\* A task that makes a write goes on towards what its flags settle on, and another one's
\* write leaves it but for one that says the contrary.
LEMMA WriteSettles ==
    ASSUME LedTypeOK, NEW t \in Tasks, Write(t), NEW w \in Writes, NEW u \in Tasks, Settles(u, w),
           u = t \/ Head(pending[t])[1] # w[1] \/ Head(pending[t]) = w
    PROVE  Settles(u, w)'
<1> DEFINE h == Head(pending[t])
<1>1. /\ pending[t] \in Seq(Writes) /\ pending[t] # <<>> /\ h \in Writes
      /\ flags'[h[1]] = h[2] /\ \A f \in Flags \ {h[1]} : flags'[f] = flags[f]
      /\ pending'[t] = Tail(pending[t]) /\ \A v \in Tasks \ {t} : pending'[v] = pending[v]
  BY WriteFacts
<1>2. w[1] \in Flags
  BY WhichWrite
<1> HIDE DEF h
<1>3. CASE u = t
  <2>1. CASE Ends(pending[t], w)
    <3>1. Ends(Tail(pending[t]), w) \/ (h = w /\ Silent(Tail(pending[t]), w[1]))
      BY <1>1, <2>1, TailFacts DEF h
    <3> QED BY <1>1, <1>3, <3>1 DEF Settles
  <2>2. CASE Silent(pending[t], w[1]) /\ flags[w[1]] = w[2]
    <3>1. Silent(Tail(pending[t]), w[1]) /\ h[1] # w[1]
      BY <1>1, <1>2, <2>2, TailFacts DEF h
    <3> QED BY <1>1, <1>2, <1>3, <2>2, <3>1 DEF Settles
  <2> QED BY <1>3, <2>1, <2>2 DEF Settles
<1>4. CASE u # t
  BY <1>1, <1>2, <1>4 DEF Settles, h
<1> QED BY <1>3, <1>4

LEMMA StartFacts ==
    ASSUME LedTypeOK, NEW t \in Tasks, NEW s \in Seq(Writes), Start(t, s)
    PROVE  /\ pending[t] = <<>> /\ pending'[t] = s /\ pending' \in [Tasks -> Seq(Writes)]
           /\ \A u \in Tasks \ {t} : pending'[u] = pending[u]
BY DEF LedTypeOK, Start

\* Nothing is pending: the flags are what they settle on.
LEMMA AtRest ==
    ASSUME NEW t, NEW w, pending[t] = <<>>, Settles(t, w)
    PROVE  flags[w[1]] = w[2] /\ Silent(pending[t], w[1])
BY DEF Settles, Ends, Silent

LEMMA EmptyIsSilent ==
    /\ \A f : Silent(<<>>, f)
    /\ \A w : Never(<<>>, w)
BY DEF Silent, Never

LEMMA SilentNeverWrites ==
    ASSUME NEW s \in Seq(Writes), NEW f \in Flags, Silent(s, f)
    PROVE  Never(s, Raise(f)) /\ Never(s, Lower(f))
BY OneWrite DEF Silent, Never

LEMMA WhichOf ==
    ASSUME NEW h \in Writes, NEW f \in Flags, h[1] = f
    PROVE  (h = Raise(f) /\ h[2] = TRUE) \/ (h = Lower(f) /\ h[2] = FALSE)
BY WhichWrite, OneWrite

LEMMA WishFacts ==
    ASSUME NEW f \in WifiFlags, NEW state
    PROVE  /\ f \in Flags /\ Wish(f, state) \in Writes /\ Contrary(f, state) \in Writes /\ Raise(f) \in Writes
           /\ Wish(f, state)[1] = f
           /\ state # StateOf(f) => Contrary(f, state) = Raise(f) /\ Wish(f, state)[2] = FALSE
           /\ state = StateOf(f) => Contrary(f, state) = Lower(f) /\ Wish(f, state)[2] = TRUE
<1>1. f \in Flags
  BY FlagKinds
<1> QED BY <1>1, OneWrite DEF Wish, Contrary

LEMMA NotContrary ==
    ASSUME NEW f \in WifiFlags, NEW state, NEW h \in Writes, h # Contrary(f, state)
    PROVE  h[1] # f \/ h = Wish(f, state)
BY FlagKinds, WhichOf DEF Wish, Contrary

-----------------------------------------------------------------------------
(* The actions *)

LEMMA LedInitInv == LedInit => LedInv
<1> SUFFICES ASSUME LedInit PROVE LedInv
  OBVIOUS
<1>1. FALSE \in BOOLEAN /\ TRUE \in BOOLEAN
  OBVIOUS
<1>2. /\ flags \in [Flags -> BOOLEAN] /\ \A f \in Flags : flags[f] = FALSE
      /\ pending \in [Tasks -> Seq(Writes)] /\ \A t \in Tasks : pending[t] = <<>>
  BY <1>1 DEF LedInit
<1>3. LedTypeOK
  BY <1>1, <1>2 DEF LedInit, LedTypeOK, Usbs, Wifis, Readers, Flags, Shown
<1>4. /\ "tinyusb" \in Tasks /\ "events" \in Tasks /\ "main" \in Tasks
      /\ "usb_failed" \in Flags /\ "usb_connected" \in Flags
  BY DEF Tasks, Flags
<1>5. OwnerInv
  BY <1>2, <1>4, EmptyIsSilent DEF OwnerInv, LedInit
<1>6. UsbInv
  <2>1. Settles("tinyusb", Lower("usb_connected"))
    BY <1>2, <1>4, EmptyIsSilent, OneWrite DEF Settles
  <2> QED BY <1>2, <1>4, <2>1, EmptyIsSilent DEF UsbInv, LedInit
<1>7. WifiInv
  <2> SUFFICES ASSUME NEW f \in WifiFlags
               PROVE  Settles("events", Wish(f, wifi)) /\ Never(pending["main"], Contrary(f, wifi))
    BY DEF WifiInv
  <2>1. wifi # StateOf(f)
    BY DEF LedInit, StateOf
  <2> DEFINE w == Wish(f, wifi)
  <2>2. w[1] = f /\ w[2] = FALSE /\ f \in Flags
    BY <2>1, FlagKinds, OneWrite DEF Wish
  <2> HIDE DEF w
  <2>3. Settles("events", w)
    BY <1>2, <1>4, <2>2, EmptyIsSilent DEF Settles
  <2>4. Never(pending["main"], Contrary(f, wifi))
    BY <1>2, <1>4, EmptyIsSilent
  <2> QED BY <2>3, <2>4 DEF w
<1>8. RecentInv
  BY <1>2, FlagKinds, EmptyIsSilent DEF RecentInv, LedInit
<1>9. PassInv
  BY DEF PassInv, LedInit, WifiFlags
<1> QED BY <1>3, <1>5, <1>6, <1>7, <1>8, <1>9 DEF LedInv

LEMMA LedWriteInv == ASSUME LedInv, NEW t \in Tasks, Write(t) PROVE LedInv'
<1> DEFINE h == Head(pending[t])
<1>1. LedTypeOK /\ OwnerInv /\ UsbInv /\ WifiInv /\ RecentInv /\ PassInv
  BY DEF LedInv
<1>2. /\ pending[t] \in Seq(Writes) /\ pending[t] # <<>> /\ h \in Writes
      /\ flags' \in [Flags -> BOOLEAN] /\ pending' \in [Tasks -> Seq(Writes)]
      /\ flags'[h[1]] = h[2] /\ \A f \in Flags \ {h[1]} : flags'[f] = flags[f]
      /\ pending'[t] = Tail(pending[t]) /\ \A u \in Tasks \ {t} : pending'[u] = pending[u]
  BY <1>1, WriteFacts
<1>3. /\ UNCHANGED <<boot, usb, wifi, retry_count, reader, lights, recent, early, events>>
      /\ quiet' = FALSE
  BY DEF Write
<1>4. /\ \A u \in Tasks, f \in Flags : Silent(pending[u], f) => Silent(pending'[u], f) /\ (u = t => h[1] # f)
      /\ \A u \in Tasks, w \in Writes : Never(pending[u], w) => Never(pending'[u], w) /\ (u = t => h # w)
  <2>1. /\ \A f \in Flags : Silent(pending[t], f) => Silent(Tail(pending[t]), f) /\ h[1] # f
        /\ \A w \in Writes : Never(pending[t], w) => Never(Tail(pending[t]), w) /\ h # w
    BY <1>2, TailFacts
  <2> HIDE DEF h
  <2> QED BY <1>2, <2>1
<1> HIDE DEF h
<1>5. /\ "tinyusb" \in Tasks /\ "events" \in Tasks /\ "main" \in Tasks
      /\ "usb_failed" \in Flags /\ "usb_connected" \in Flags
      /\ "usb_failed" \notin WifiFlags /\ "usb_connected" \notin WifiFlags
      /\ t = "tinyusb" \/ t = "events" \/ t = "main"
  BY DEF Tasks, Flags, WifiFlags
<1>6. LedTypeOK'
  <2>1. quiet' \in BOOLEAN
    BY <1>3
  <2> QED BY <1>1, <1>2, <1>3, <2>1 DEF LedTypeOK
<1>7. OwnerInv'
  BY <1>1, <1>2, <1>3, <1>4, <1>5, FlagKinds DEF OwnerInv
<1>8. UsbInv'
  <2>1. /\ Raise("usb_failed") \in Writes /\ Raise("usb_connected") \in Writes /\ Lower("usb_connected") \in Writes
        /\ Raise("usb_connected")[1] = "usb_connected" /\ Lower("usb_connected")[1] = "usb_connected"
    BY <1>5, OneWrite
  <2>2. flags'["usb_failed"] = FALSE
    <3>1. flags["usb_failed"] = FALSE /\ Never(pending[t], Raise("usb_failed"))
      BY <1>1 DEF UsbInv
    <3>2. h # Raise("usb_failed")
      BY <1>4, <2>1, <3>1
    <3>3. CASE h[1] = "usb_failed"
      BY <1>2, <1>5, <3>2, <3>3, WhichOf
    <3>4. CASE h[1] # "usb_failed"
      BY <1>2, <1>5, <3>1, <3>4
    <3> QED BY <3>3, <3>4
  <2>3. \A u \in Tasks : Never(pending'[u], Raise("usb_failed"))
    BY <1>1, <1>4, <2>1 DEF UsbInv
  <2>4. Never(pending'["main"], Raise("usb_connected"))
    BY <1>1, <1>4, <1>5, <2>1 DEF UsbInv
  <2>5. t = "events" => h[1] # "usb_connected"
    BY <1>1, <1>4, <1>5 DEF OwnerInv
  <2>6. ASSUME usb = "dark" PROVE Settles("tinyusb", Lower("usb_connected"))'
    <3>1. Settles("tinyusb", Lower("usb_connected")) /\ (t = "main" => h # Raise("usb_connected"))
      BY <1>1, <1>4, <1>5, <2>1, <2>6 DEF UsbInv
    <3>2. "tinyusb" = t \/ h[1] # "usb_connected" \/ h = Lower("usb_connected")
      BY <1>2, <1>5, <2>5, <3>1, WhichOf
    <3> QED BY <1>1, <1>5, <2>1, <3>1, <3>2, WriteSettles DEF h
  <2>7. ASSUME usb = "solid", ~early
        PROVE  /\ boot # "usb" /\ Silent(pending'["main"], "usb_connected")
               /\ Settles("tinyusb", Raise("usb_connected"))'
    <3>1. /\ boot # "usb" /\ Silent(pending["main"], "usb_connected")
          /\ Settles("tinyusb", Raise("usb_connected"))
      BY <1>1, <2>7 DEF UsbInv
    <3>2. Silent(pending'["main"], "usb_connected") /\ (t = "main" => h[1] # "usb_connected")
      BY <1>4, <1>5, <3>1
    <3>3. Settles("tinyusb", Raise("usb_connected"))'
      BY <1>1, <1>5, <2>1, <2>5, <3>1, <3>2, WriteSettles DEF h
    <3> QED BY <3>1, <3>2, <3>3
  <2>8. early => usb = "solid"
    BY <1>1 DEF UsbInv
  <2> QED BY <1>3, <2>2, <2>3, <2>4, <2>6, <2>7, <2>8 DEF UsbInv
<1>9. WifiInv'
  <2> SUFFICES ASSUME NEW f \in WifiFlags
               PROVE  Settles("events", Wish(f, wifi))' /\ Never(pending'["main"], Contrary(f, wifi))
    BY <1>3 DEF WifiInv, Wish, Contrary
  <2>1. Settles("events", Wish(f, wifi)) /\ Never(pending["main"], Contrary(f, wifi))
    BY <1>1 DEF WifiInv
  <2>2. f \in Flags /\ Wish(f, wifi) \in Writes /\ Contrary(f, wifi) \in Writes /\ Wish(f, wifi)[1] = f
    BY WishFacts
  <2>3. "events" = t \/ h[1] # f \/ h = Wish(f, wifi)
    <3>1. t = "tinyusb" => h[1] # f
      BY <1>1, <1>4, <1>5, <2>2 DEF OwnerInv
    <3>2. t = "main" => h # Contrary(f, wifi)
      BY <1>4, <1>5, <2>1, <2>2
    <3>3. h # Contrary(f, wifi) => h[1] # f \/ h = Wish(f, wifi)
      BY <1>2, NotContrary
    <3> QED BY <1>5, <3>1, <3>2, <3>3
  <2>4. Settles("events", Wish(f, wifi))'
    <3> DEFINE w == Wish(f, wifi)
    <3>1. w \in Writes /\ Settles("events", w) /\ ("events" = t \/ h[1] # w[1] \/ h = w)
      BY <2>1, <2>2, <2>3
    <3>2. w' = w
      BY <1>3
    <3> HIDE DEF w
    <3>3. Settles("events", w)'
      BY <1>1, <1>5, <3>1, <3>2, WriteSettles DEF h
    <3> QED BY <3>3 DEF w
  <2>5. Never(pending'["main"], Contrary(f, wifi))
    BY <1>4, <1>5, <2>1, <2>2
  <2> QED BY <2>4, <2>5
<1>10. RecentInv'
  <2> SUFFICES ASSUME NEW f \in WifiFlags, StateOf(f) \notin recent
               PROVE  flags'[f] = FALSE /\ \A u \in Tasks : Never(pending'[u], Raise(f))
    BY <1>1, <1>3 DEF RecentInv, StateOf
  <2>1. f \in Flags /\ Raise(f) \in Writes
    BY WishFacts
  <2>2. flags[f] = FALSE /\ \A u \in Tasks : Never(pending[u], Raise(f))
    BY <1>1 DEF RecentInv
  <2>3. (\A u \in Tasks : Never(pending'[u], Raise(f))) /\ h # Raise(f)
    BY <1>4, <2>1, <2>2
  <2>4. CASE h[1] = f
    BY <1>2, <2>1, <2>3, <2>4, WhichOf
  <2>5. CASE h[1] # f
    BY <1>2, <2>1, <2>2, <2>3, <2>5
  <2> QED BY <2>4, <2>5
<1>11. PassInv'
  BY <1>1, <1>3 DEF PassInv
<1> QED BY <1>6, <1>7, <1>8, <1>9, <1>10, <1>11 DEF LedInv

\* An event of Wi-Fi: its writes make every flag say the new state, or leave one that does.
LEMMA WifiEventInv ==
    ASSUME LedInv, NEW state \in Wifis, NEW retries, NEW writes \in Seq(Writes),
           WifiEvent(state, retries, writes), boot \in {"wait", "done"}, wifi # "blink",
           SilentOnUsb(writes),
           \A f \in WifiFlags :
               /\ state # StateOf(f) => Never(writes, Raise(f))
               /\ \/ Ends(writes, Wish(f, state))
                  \/ Silent(writes, f) /\ Wish(f, state) = Wish(f, wifi)
    PROVE  LedInv'
<1>1. LedTypeOK /\ OwnerInv /\ UsbInv /\ WifiInv /\ RecentInv /\ PassInv
  BY DEF LedInv
<1>2. /\ "tinyusb" \in Tasks /\ "events" \in Tasks /\ "main" \in Tasks
      /\ "usb_failed" \in Flags \ WifiFlags /\ "usb_connected" \in Flags \ WifiFlags
  BY DEF Tasks, Flags, WifiFlags
<1>3. /\ wifi' = state /\ recent' = recent \cup {state}
      /\ UNCHANGED <<flags, boot, usb, reader, lights, quiet, early>>
      /\ Start("events", writes)
  BY DEF WifiEvent
<1>4. /\ pending["events"] = <<>> /\ pending'["events"] = writes /\ pending' \in [Tasks -> Seq(Writes)]
      /\ \A u \in Tasks \ {"events"} : pending'[u] = pending[u]
  BY <1>1, <1>2, <1>3, StartFacts
<1>5. pending["main"] = <<>> /\ pending'["main"] = <<>> /\ pending'["tinyusb"] = pending["tinyusb"]
  BY <1>1, <1>2, <1>4 DEF OwnerInv
<1>6. LedTypeOK'
  BY <1>1, <1>3, <1>4 DEF LedTypeOK
<1>7. OwnerInv'
  BY <1>1, <1>3, <1>4, <1>5 DEF OwnerInv, SilentOnUsb
<1>8. UsbInv'
  <2>1. Never(writes, Raise("usb_failed"))
    BY <1>2, SilentNeverWrites DEF SilentOnUsb
  <2>2. \A t \in Tasks : Never(pending'[t], Raise("usb_failed"))
    BY <1>1, <1>4, <2>1 DEF UsbInv
  <2>3. /\ Settles("tinyusb", Lower("usb_connected")) => Settles("tinyusb", Lower("usb_connected"))'
        /\ Settles("tinyusb", Raise("usb_connected")) => Settles("tinyusb", Raise("usb_connected"))'
    BY <1>3, <1>5 DEF Settles, Lower, Raise
  <2> QED BY <1>1, <1>3, <1>5, <2>2, <2>3 DEF UsbInv
<1>9. WifiInv'
  <2> SUFFICES ASSUME NEW f \in WifiFlags
               PROVE  Settles("events", Wish(f, wifi))' /\ Never(pending'["main"], Contrary(f, wifi)')
    BY DEF WifiInv
  <2> DEFINE w == Wish(f, state)
  <2>1. w \in Writes /\ w[1] = f
    BY WishFacts
  <2>2. Wish(f, wifi)' = w
    BY <1>3 DEF Wish
  <2>3. Ends(writes, w) \/ (Silent(writes, f) /\ w = Wish(f, wifi))
    OBVIOUS
  <2>4. Settles("events", Wish(f, wifi))
    BY <1>1 DEF WifiInv
  <2>5. w = Wish(f, wifi) => flags[f] = w[2]
    <3>1. SUFFICES ASSUME w = Wish(f, wifi) PROVE flags[f] = w[2]
      OBVIOUS
    <3>2. Settles("events", w)
      BY <2>4, <3>1
    <3> HIDE DEF w
    <3> QED BY <1>4, <2>1, <3>2, AtRest
  <2> HIDE DEF w
  <2>6. Ends(pending'["events"], w) \/ (Silent(pending'["events"], w[1]) /\ flags'[w[1]] = w[2])
    BY <1>3, <1>4, <2>1, <2>3, <2>5
  <2>7. Settles("events", Wish(f, wifi))'
    BY <2>2, <2>6 DEF Settles
  <2> QED BY <1>5, <2>7, EmptyIsSilent
<1>10. RecentInv'
  <2> SUFFICES ASSUME NEW f \in WifiFlags, StateOf(f) \notin recent'
               PROVE  flags'[f] = FALSE /\ \A u \in Tasks : Never(pending'[u], Raise(f))
    BY <1>3 DEF RecentInv
  <2>1. StateOf(f) \notin recent /\ state # StateOf(f)
    BY <1>3
  <2>2. flags[f] = FALSE /\ \A u \in Tasks : Never(pending[u], Raise(f))
    BY <1>1, <2>1 DEF RecentInv
  <2> QED BY <1>3, <1>4, <2>1, <2>2
<1>11. PassInv'
  BY <1>1, <1>3 DEF PassInv, ShownUsb, ShownWifi
<1> QED BY <1>6, <1>7, <1>8, <1>9, <1>10, <1>11 DEF LedInv

LEMMA StaStartInv == ASSUME LedInv, StaStart PROVE LedInv'
<1> DEFINE s == set_wifi_connected(FALSE) \o set_wifi_connecting(TRUE) \o set_wifi_failed(FALSE)
<1>1. Leads(s, "breath") /\ SilentOnUsb(s) /\ "breath" \in Wifis
  BY StaStartWrites DEF Wifis
<1>2. WifiEvent("breath", 0, s) /\ boot = "wait" /\ wifi = "dark"
  BY DEF StaStart
<1> HIDE DEF s
<1> QED BY <1>1, <1>2, WifiEventInv DEF Leads

\* The station runs or has run: start-up does not write.
LEMMA StationRuns == LedInv /\ wifi # "dark" => boot \in {"wait", "done"}
BY DEF LedInv, LedTypeOK, OwnerInv

LEMMA RetryInv == ASSUME LedInv, Retry PROVE LedInv'
<1> DEFINE s == set_wifi_connected(FALSE) \o set_wifi_failed(FALSE) \o set_wifi_connecting(TRUE)
<1>1. Leads(s, "breath") /\ SilentOnUsb(s) /\ "breath" \in Wifis
  BY RetryWrites DEF Wifis
<1>2. WifiEvent("breath", retry_count + 1, s) /\ wifi \in {"breath", "solid", "lost"}
  BY DEF Retry
<1> HIDE DEF s
<1>3. boot \in {"wait", "done"} /\ wifi # "blink"
  BY <1>2, StationRuns
<1> QED BY <1>1, <1>2, <1>3, WifiEventInv DEF Leads

LEMMA ExhaustedInv == ASSUME LedInv, Exhausted PROVE LedInv'
<1> DEFINE s == set_wifi_connected(FALSE) \o set_wifi_failed(FALSE) \o set_wifi_connecting(FALSE)
                \o set_wifi_failed(TRUE)
<1>1. Leads(s, "blink") /\ SilentOnUsb(s) /\ "blink" \in Wifis
  BY ExhaustedWrites DEF Wifis
<1>2. WifiEvent("blink", retry_count, s) /\ wifi \in {"breath", "solid", "lost"}
  BY DEF Exhausted
<1> HIDE DEF s
<1>3. boot \in {"wait", "done"} /\ wifi # "blink"
  BY <1>2, StationRuns
<1> QED BY <1>1, <1>2, <1>3, WifiEventInv DEF Leads

LEMMA GotIpInv == ASSUME LedInv, GotIp PROVE LedInv'
<1> DEFINE s == set_wifi_connecting(FALSE) \o set_wifi_failed(FALSE) \o set_wifi_connected(TRUE)
<1>1. Leads(s, "solid") /\ SilentOnUsb(s) /\ "solid" \in Wifis
  BY GotIpWrites DEF Wifis
<1>2. WifiEvent("solid", 0, s) /\ wifi \in {"breath", "lost"}
  BY DEF GotIp
<1> HIDE DEF s
<1>3. boot \in {"wait", "done"} /\ wifi # "blink"
  BY <1>2, StationRuns
<1> QED BY <1>1, <1>2, <1>3, WifiEventInv DEF Leads

\* The light goes out; the flags of the attempt and of the failure are down already.
LEMMA LostIpInv == ASSUME LedInv, LostIp PROVE LedInv'
<1> DEFINE s == <<Lower("wifi_connected")>>
<1>1. "wifi_connected" \in WifiFlags /\ "wifi_connected" \in Flags /\ "lost" \in Wifis
  BY DEF WifiFlags, Flags, Wifis
<1>2. WifiEvent("lost", retry_count, s) /\ wifi = "solid"
  BY WifiSetters DEF LostIp
<1>3. /\ Lowers(s) /\ SilentOnUsb(s) /\ Ends(s, Lower("wifi_connected"))
      /\ \A g \in Flags \ {"wifi_connected"} : Silent(s, g)
  BY <1>1, LoweringWifi, LoweringOne
<1> HIDE DEF s
<1>4. ASSUME NEW f \in WifiFlags
      PROVE  /\ "lost" # StateOf(f) => Never(s, Raise(f))
             /\ \/ Ends(s, Wish(f, "lost"))
                \/ Silent(s, f) /\ Wish(f, "lost") = Wish(f, wifi)
  <2>1. f \in Flags /\ "lost" # StateOf(f) /\ Never(s, Raise(f))
    BY <1>3, FlagKinds DEF Lowers, StateOf
  <2>2. CASE f = "wifi_connected"
    BY <1>3, <2>1, <2>2 DEF Wish
  <2>3. CASE f # "wifi_connected"
    <3>1. "solid" # StateOf(f)
      BY <2>3 DEF StateOf, WifiFlags
    <3> QED BY <1>2, <1>3, <2>1, <2>3, <3>1 DEF Wish
  <2> QED BY <2>1, <2>2, <2>3
<1>5. boot \in {"wait", "done"} /\ wifi # "blink" /\ s \in Seq(Writes)
  BY <1>2, <1>3, StationRuns DEF Lowers
<1> QED BY <1>1, <1>2, <1>3, <1>4, <1>5, WifiEventInv

LEMMA BootUsbInv == ASSUME LedInv, BootUsb PROVE LedInv'
<1> DEFINE s == set_usb_failed(FALSE) \o set_usb_connected(FALSE) \o set_wifi_connected(FALSE)
                \o set_wifi_connecting(FALSE) \o set_wifi_failed(FALSE)
<1>1. LedTypeOK /\ OwnerInv /\ UsbInv /\ WifiInv /\ RecentInv /\ PassInv
  BY DEF LedInv
<1>2. /\ "tinyusb" \in Tasks /\ "events" \in Tasks /\ "main" \in Tasks
      /\ "usb_failed" \in Flags /\ "usb_connected" \in Flags
  BY DEF Tasks, Flags
<1>3. Lowers(s)
  BY BootUsbWrites
<1>4. /\ boot = "usb" /\ boot' = "wifi" /\ Start("main", s)
      /\ UNCHANGED <<flags, usb, wifi, retry_count, reader, lights, quiet, recent, early, events>>
  BY DEF BootUsb
<1> HIDE DEF s
<1>5. s \in Seq(Writes) /\ \A f \in Flags : Never(s, Raise(f))
  BY <1>3 DEF Lowers
<1>6. /\ pending'["main"] = s /\ pending' \in [Tasks -> Seq(Writes)]
      /\ \A u \in Tasks \ {"main"} : pending'[u] = pending[u]
  BY <1>1, <1>2, <1>4, <1>5, StartFacts
<1>7. LedTypeOK'
  BY <1>1, <1>4, <1>6 DEF LedTypeOK
<1>8. OwnerInv'
  BY <1>1, <1>2, <1>4, <1>6 DEF OwnerInv
<1>9. UsbInv'
  <2>1. \A t \in Tasks : Never(pending'[t], Raise("usb_failed"))
    BY <1>1, <1>2, <1>5, <1>6 DEF UsbInv
  <2>2. Settles("tinyusb", Lower("usb_connected")) => Settles("tinyusb", Lower("usb_connected"))'
    BY <1>2, <1>4, <1>6 DEF Settles, Lower
  <2>3. ~(usb = "solid" /\ ~early)
    BY <1>1, <1>4 DEF UsbInv
  <2> QED BY <1>1, <1>2, <1>4, <1>5, <1>6, <2>1, <2>2, <2>3 DEF UsbInv
<1>10. WifiInv'
  <2> SUFFICES ASSUME NEW f \in WifiFlags
               PROVE  Settles("events", Wish(f, wifi))' /\ Never(pending'["main"], Contrary(f, wifi)')
    BY DEF WifiInv
  <2>1. Settles("events", Wish(f, wifi))'
    BY <1>1, <1>2, <1>4, <1>6 DEF WifiInv, Settles, Wish, Raise, Lower
  <2>2. wifi = "dark"
    BY <1>1, <1>4 DEF OwnerInv
  <2>3. Contrary(f, wifi)' = Raise(f) /\ f \in Flags
    BY <1>4, <2>2, FlagKinds DEF Contrary, StateOf
  <2> QED BY <1>5, <1>6, <2>1, <2>3
<1>11. RecentInv'
  <2> SUFFICES ASSUME NEW f \in WifiFlags, StateOf(f) \notin recent
               PROVE  flags'[f] = FALSE /\ \A u \in Tasks : Never(pending'[u], Raise(f))
    BY <1>1, <1>4 DEF RecentInv
  <2>1. flags[f] = FALSE /\ \A u \in Tasks : Never(pending[u], Raise(f))
    BY <1>1 DEF RecentInv
  <2> QED BY <1>4, <1>5, <1>6, <2>1, FlagKinds
<1>12. PassInv'
  BY <1>1, <1>4 DEF PassInv, ShownUsb, ShownWifi
<1> QED BY <1>7, <1>8, <1>9, <1>10, <1>11, <1>12 DEF LedInv

LEMMA BootWifiInv == ASSUME LedInv, BootWifi PROVE LedInv'
<1>1. LedTypeOK /\ OwnerInv /\ UsbInv /\ WifiInv /\ RecentInv /\ PassInv
  BY DEF LedInv
<1>2. /\ boot = "wifi" /\ pending["main"] = <<>> /\ boot' \in {"wait", "done"}
      /\ UNCHANGED <<flags, pending, usb, wifi, retry_count, reader, lights, quiet, recent, early, events>>
  BY DEF BootWifi
<1>3. LedTypeOK' /\ OwnerInv'
  BY <1>1, <1>2 DEF LedTypeOK, OwnerInv
<1>4. UsbInv' /\ WifiInv'
  BY <1>1, <1>2 DEF UsbInv, WifiInv, Settles, Wish, Contrary
<1>5. RecentInv' /\ PassInv'
  BY <1>1, <1>2 DEF RecentInv, PassInv, ShownUsb, ShownWifi
<1> QED BY <1>3, <1>4, <1>5 DEF LedInv

LEMMA BootEndsInv == ASSUME LedInv, BootEnds PROVE LedInv'
<1> DEFINE s == set_wifi_connected(FALSE) \o set_wifi_connecting(FALSE) \o set_wifi_failed(TRUE)
<1>1. LedTypeOK /\ OwnerInv /\ UsbInv /\ WifiInv /\ RecentInv /\ PassInv
  BY DEF LedInv
<1>2. /\ "tinyusb" \in Tasks /\ "events" \in Tasks /\ "main" \in Tasks
      /\ "usb_failed" \in Flags \ WifiFlags /\ "usb_connected" \in Flags \ WifiFlags
  BY DEF Tasks, Flags, WifiFlags
<1>3. Leads(s, "blink") /\ SilentOnUsb(s) /\ Never(s, Lower("wifi_failed"))
  BY BootEndsWrites
<1>4. /\ boot = "wait" /\ boot' = "done"
      /\ \/ wifi = "blink" /\ Start("main", s)
         \/ UNCHANGED pending
      /\ UNCHANGED <<flags, usb, wifi, retry_count, reader, lights, quiet, recent, early, events>>
  BY DEF BootEnds
<1> HIDE DEF s
<1>5. CASE wifi = "blink" /\ Start("main", s)
  <2>1. s \in Seq(Writes) /\ \A f \in Flags \ WifiFlags : Silent(s, f)
    BY <1>3 DEF Leads, SilentOnUsb
  <2>2. /\ pending["main"] = <<>> /\ pending'["main"] = s /\ pending' \in [Tasks -> Seq(Writes)]
        /\ \A u \in Tasks \ {"main"} : pending'[u] = pending[u]
    BY <1>1, <1>2, <1>5, <2>1, StartFacts
  <2>3. \A f \in WifiFlags : Never(s, Contrary(f, wifi))
    <3>1. SUFFICES ASSUME NEW f \in WifiFlags PROVE Never(s, Contrary(f, wifi))
      OBVIOUS
    <3>2. CASE wifi = StateOf(f)
      <4>1. f = "wifi_failed"
        BY <1>5, <3>2 DEF StateOf, WifiFlags
      <4> QED BY <1>3, <3>2, <4>1 DEF Contrary
    <3>3. CASE wifi # StateOf(f)
      BY <1>3, <1>5, <3>3 DEF Contrary, Leads
    <3> QED BY <3>2, <3>3
  <2>4. LedTypeOK'
    BY <1>1, <1>4, <2>2 DEF LedTypeOK
  <2>5. OwnerInv'
    BY <1>1, <1>2, <1>4, <1>5, <2>2 DEF OwnerInv
  <2>6. UsbInv'
    <3>1. Silent(s, "usb_connected") /\ Never(s, Raise("usb_failed")) /\ Never(s, Raise("usb_connected"))
      BY <1>2, <2>1, SilentNeverWrites
    <3>2. \A t \in Tasks : Never(pending'[t], Raise("usb_failed"))
      BY <1>1, <2>2, <3>1 DEF UsbInv
    <3>3. /\ Settles("tinyusb", Lower("usb_connected")) => Settles("tinyusb", Lower("usb_connected"))'
          /\ Settles("tinyusb", Raise("usb_connected")) => Settles("tinyusb", Raise("usb_connected"))'
      BY <1>2, <1>4, <2>2 DEF Settles, Lower, Raise
    <3> QED BY <1>1, <1>4, <2>2, <3>1, <3>2, <3>3 DEF UsbInv
  <2>7. WifiInv'
    BY <1>1, <1>2, <1>4, <2>2, <2>3 DEF WifiInv, Settles, Wish, Contrary, Raise, Lower
  <2>8. RecentInv'
    <3> SUFFICES ASSUME NEW f \in WifiFlags, StateOf(f) \notin recent
                 PROVE  flags'[f] = FALSE /\ \A u \in Tasks : Never(pending'[u], Raise(f))
      BY <1>1, <1>4 DEF RecentInv
    <3>1. flags[f] = FALSE /\ \A u \in Tasks : Never(pending[u], Raise(f))
      BY <1>1 DEF RecentInv
    <3>2. "blink" # StateOf(f)
      BY <1>1, <1>5 DEF RecentInv
    <3> QED BY <1>3, <1>4, <2>2, <3>1, <3>2 DEF Leads
  <2>9. PassInv'
    BY <1>1, <1>4 DEF PassInv, ShownUsb, ShownWifi
  <2> QED BY <2>4, <2>5, <2>6, <2>7, <2>8, <2>9 DEF LedInv
<1>6. CASE UNCHANGED pending
  <2>1. pending["main"] = <<>>
    BY <1>1, <1>4 DEF OwnerInv
  <2>2. LedTypeOK' /\ OwnerInv'
    BY <1>1, <1>4, <1>6, <2>1 DEF LedTypeOK, OwnerInv
  <2>3. UsbInv' /\ WifiInv'
    BY <1>1, <1>4, <1>6 DEF UsbInv, WifiInv, Settles, Wish, Contrary
  <2>4. RecentInv' /\ PassInv'
    BY <1>1, <1>4, <1>6 DEF RecentInv, PassInv, ShownUsb, ShownWifi
  <2> QED BY <2>2, <2>3, <2>4 DEF LedInv
<1> QED BY <1>4, <1>5, <1>6

LEMMA UsbEventInv == ASSUME LedInv, UsbEvent PROVE LedInv'
<1> DEFINE up == set_usb_failed(FALSE) \o set_usb_connected(TRUE)
           down == set_usb_connected(FALSE)
<1>1. LedTypeOK /\ OwnerInv /\ UsbInv /\ WifiInv /\ RecentInv /\ PassInv
  BY DEF LedInv
<1>2. /\ "tinyusb" \in Tasks /\ "events" \in Tasks /\ "main" \in Tasks
      /\ "usb_failed" \in Flags /\ "usb_connected" \in Flags
  BY DEF Tasks, Flags
<1>3. PICK s \in {up, down} :
        /\ Start("tinyusb", s)
        /\ usb' = IF s = up THEN "solid" ELSE "dark"
        /\ s = up \/ usb' = "dark"
  <2>1. \/ usb' = "solid" /\ Start("tinyusb", up)
        \/ usb' = "dark" /\ Start("tinyusb", down)
    BY DEF UsbEvent
  <2>2. up # down
    <3>1. "usb_connected" \in Flags /\ Ends(up, Raise("usb_connected")) /\ Ends(down, Lower("usb_connected"))
      BY <1>2, UsbWrites
    <3>2. down = <<Lower("usb_connected")>> /\ Raise("usb_connected") # Lower("usb_connected")
      BY <3>1, DifferentWrites DEF set_usb_connected
    <3>3. ~Ends(down, Raise("usb_connected"))
      <4>1. Lower("usb_connected") \in Writes /\ Raise("usb_connected") \in Writes \ {Lower("usb_connected")}
        BY <3>1, <3>2, OneWrite
      <4>2. Never(down, Raise("usb_connected"))
        BY <3>2, <4>1, OneWriteOnly
      <4> QED BY <4>2 DEF Never, Ends
    <3> QED BY <3>1, <3>3
  <2> QED BY <2>1, <2>2
<1>4. /\ up \in Seq(Writes) /\ Ends(up, Raise("usb_connected")) /\ Never(up, Raise("usb_failed"))
      /\ down \in Seq(Writes) /\ Ends(down, Lower("usb_connected")) /\ Never(down, Raise("usb_failed"))
      /\ \A f \in WifiFlags : Silent(up, f) /\ Never(up, Raise(f)) /\ Silent(down, f) /\ Never(down, Raise(f))
  BY UsbWrites
<1>5. /\ UNCHANGED <<flags, boot, wifi, retry_count, reader, lights, quiet, recent>>
      /\ early' = (usb' = "solid" /\ (boot = "usb" \/ pending["main"] # <<>>))
  BY DEF UsbEvent
<1> HIDE DEF up, down
<1>6. s \in Seq(Writes) /\ Never(s, Raise("usb_failed")) /\ \A f \in WifiFlags : Silent(s, f) /\ Never(s, Raise(f))
  BY <1>3, <1>4
<1>7. /\ pending'["tinyusb"] = s /\ pending' \in [Tasks -> Seq(Writes)]
      /\ \A u \in Tasks \ {"tinyusb"} : pending'[u] = pending[u]
  BY <1>1, <1>2, <1>3, <1>6, StartFacts
<1>8. LedTypeOK'
  <2>1. early' \in BOOLEAN
    BY <1>5
  <2> QED BY <1>1, <1>3, <1>5, <1>7, <2>1 DEF LedTypeOK, Usbs
<1>9. OwnerInv'
  BY <1>1, <1>2, <1>5, <1>6, <1>7 DEF OwnerInv
<1>10. UsbInv'
  <2>1. /\ flags'["usb_failed"] = FALSE /\ (early' => usb' = "solid")
        /\ \A t \in Tasks : Never(pending'[t], Raise("usb_failed"))
    BY <1>1, <1>5, <1>6, <1>7 DEF UsbInv
  <2>2. Never(pending'["main"], Raise("usb_connected"))
    BY <1>1, <1>2, <1>7 DEF UsbInv
  <2>3. usb' = "dark" => Settles("tinyusb", Lower("usb_connected"))'
    BY <1>3, <1>4, <1>7 DEF Settles, Lower
  <2>4. usb' = "solid" /\ ~early' =>
            /\ boot' # "usb" /\ Silent(pending'["main"], "usb_connected")
            /\ Settles("tinyusb", Raise("usb_connected"))'
    <3>1. SUFFICES ASSUME usb' = "solid", ~early'
                   PROVE  /\ boot' # "usb" /\ Silent(pending'["main"], "usb_connected")
                          /\ Settles("tinyusb", Raise("usb_connected"))'
      OBVIOUS
    <3>2. boot # "usb" /\ pending["main"] = <<>> /\ s = up
      BY <1>3, <1>5, <3>1
    <3>3. Settles("tinyusb", Raise("usb_connected"))'
      BY <1>4, <1>7, <3>2 DEF Settles, Raise
    <3> QED BY <1>2, <1>5, <1>7, <3>2, <3>3, EmptyIsSilent
  <2> QED BY <2>1, <2>2, <2>3, <2>4 DEF UsbInv
<1>11. WifiInv'
  BY <1>1, <1>2, <1>5, <1>7 DEF WifiInv, Settles, Wish, Contrary, Raise, Lower
<1>12. RecentInv'
  BY <1>1, <1>5, <1>6, <1>7 DEF RecentInv
<1>13. PassInv'
  BY <1>1, <1>5 DEF PassInv, ShownUsb, ShownWifi
<1> QED BY <1>8, <1>9, <1>10, <1>11, <1>12, <1>13 DEF LedInv

-----------------------------------------------------------------------------
(* The pass of the LED task *)

\* A pass that reads, shows and begins anew changes no flag and no pending write.
LEMMA PassKeeps ==
    ASSUME LedInv, UNCHANGED <<flags, pending, boot, usb, wifi, retry_count, early, events>>,
           recent' \subseteq Wifis, RecentInv',
           reader' \in Readers, lights' \in [usb : Shown, wifi : Shown], quiet' \in BOOLEAN, PassInv'
    PROVE  LedInv'
<1>1. LedTypeOK /\ OwnerInv /\ UsbInv /\ WifiInv
  BY DEF LedInv
<1>2. LedTypeOK' /\ OwnerInv'
  BY <1>1 DEF LedTypeOK, OwnerInv
<1>3. UsbInv' /\ WifiInv'
  BY <1>1 DEF UsbInv, WifiInv, Settles, Wish, Contrary
<1> QED BY <1>2, <1>3 DEF LedInv

LEMMA FlagFacts ==
    ASSUME LedTypeOK
    PROVE  \A f \in Flags : flags[f] \in BOOLEAN
BY DEF LedTypeOK

LEMMA SameRecent ==
    ASSUME LedInv, UNCHANGED <<flags, pending, wifi, recent>>
    PROVE  RecentInv' /\ recent' \subseteq Wifis
BY DEF LedInv, LedTypeOK, RecentInv

LEMMA ReadInv ==
    ASSUME LedInv, NEW flag \in Flags, NEW next \in Readers, Read(flag, next),
           <<flag, next>> \in {<<"usb_failed", "usb_connected">>, <<"usb_connected", "usb_none">>,
                               <<"wifi_failed", "wifi_connected">>, <<"wifi_connected", "wifi_connecting">>,
                               <<"wifi_connecting", "wifi_none">>}
    PROVE  LedInv'
<1>1. /\ reader = flag /\ ~flags[flag] /\ reader' = next
      /\ UNCHANGED <<flags, pending, boot, usb, wifi, retry_count, lights, quiet, recent, early, events>>
  BY DEF Read
<1>2. LedTypeOK /\ PassInv
  BY DEF LedInv
<1>3. PassInv'
  BY <1>1, <1>2 DEF PassInv, ShownUsb, ShownWifi, WifiFlags, Flags
<1> QED BY <1>1, <1>2, <1>3, SameRecent, PassKeeps DEF LedTypeOK

LEMMA ReadUsbInv == ASSUME LedInv, ReadUsb PROVE LedInv'
<1>1. LedTypeOK /\ PassInv /\ UsbInv
  BY DEF LedInv
<1>2. CASE Read("usb_failed", "usb_connected") \/ Read("usb_connected", "usb_none")
  BY <1>2, ReadInv DEF Flags, Readers
<1>3. CASE \/ Show("usb", reader \in {"usb_failed", "usb_connected"} /\ flags[reader], "wifi_failed")
           \/ Show("usb", reader = "usb_none", "wifi_failed")
  <2>1. /\ reader' = "wifi_failed"
        /\ UNCHANGED <<flags, pending, boot, usb, wifi, retry_count, quiet, recent, early, events>>
        /\ \/ reader = "usb_failed" /\ flags["usb_failed"]
              /\ lights' = [lights EXCEPT !["usb"] = "blink"]
           \/ reader = "usb_connected" /\ flags["usb_connected"]
              /\ lights' = [lights EXCEPT !["usb"] = "solid"]
           \/ reader = "usb_none" /\ lights' = [lights EXCEPT !["usb"] = "dark"]
    BY <1>3 DEF Show
  <2>2. lights' \in [usb : Shown, wifi : Shown]
    BY <1>1, <2>1 DEF LedTypeOK, Shown
  <2>3. quiet => lights'.usb = ShownUsb
    BY <1>1, <2>1 DEF PassInv, LedTypeOK, ShownUsb
  <2>4. PassInv'
    BY <2>1, <2>3 DEF PassInv, ShownUsb, WifiFlags
  <2>5. reader' \in Readers
    BY <2>1 DEF Readers, Flags
  <2> QED BY <1>1, <2>1, <2>2, <2>4, <2>5, SameRecent, PassKeeps DEF LedTypeOK
<1> QED BY <1>2, <1>3 DEF ReadUsb

LEMMA ReadWifiInv == ASSUME LedInv, ReadWifi PROVE LedInv'
<1>1. LedTypeOK /\ PassInv /\ RecentInv
  BY DEF LedInv
<1>2. CASE \/ Read("wifi_failed", "wifi_connected") \/ Read("wifi_connected", "wifi_connecting")
           \/ Read("wifi_connecting", "wifi_none")
  BY <1>2, ReadInv DEF Flags, Readers
<1>3. CASE \/ Show("wifi", reader \in {"wifi_failed", "wifi_connected", "wifi_connecting"} /\ flags[reader], "delay")
           \/ Show("wifi", reader = "wifi_none", "delay")
  <2>1. /\ reader' = "delay"
        /\ UNCHANGED <<flags, pending, boot, usb, wifi, retry_count, quiet, recent, early, events>>
        /\ \/ reader = "wifi_failed" /\ flags["wifi_failed"]
              /\ lights' = [lights EXCEPT !["wifi"] = "blink"]
           \/ reader = "wifi_connected" /\ flags["wifi_connected"]
              /\ lights' = [lights EXCEPT !["wifi"] = "solid"]
           \/ reader = "wifi_connecting" /\ flags["wifi_connecting"]
              /\ lights' = [lights EXCEPT !["wifi"] = "breath"]
           \/ reader = "wifi_none" /\ lights' = [lights EXCEPT !["wifi"] = "dark"]
    BY <1>3 DEF Show
  <2>2. lights' \in [usb : Shown, wifi : Shown] /\ lights'.usb = lights.usb
    BY <1>1, <2>1 DEF LedTypeOK, Shown
  <2>3. quiet => lights'.wifi = ShownWifi
    BY <1>1, <2>1 DEF PassInv, LedTypeOK, ShownWifi
  <2>4. lights'.wifi \in recent \cup {"dark"}
    BY <1>1, <2>1 DEF RecentInv, LedTypeOK, StateOf, WifiFlags
  <2>5. quiet => lights.usb = ShownUsb
    BY <1>1, <2>1 DEF PassInv, WifiFlags
  <2>6. PassInv'
    BY <2>1, <2>2, <2>3, <2>4, <2>5 DEF PassInv, ShownUsb, ShownWifi, WifiFlags
  <2>7. reader' \in Readers
    BY <2>1 DEF Readers
  <2> QED BY <1>1, <2>1, <2>2, <2>6, <2>7, SameRecent, PassKeeps DEF LedTypeOK
<1> QED BY <1>2, <1>3 DEF ReadWifi

\* With nothing pending a flag that is up is of the present state.
LEMMA UpIsPresent ==
    ASSUME LedInv, pending["events"] = <<>>, NEW f \in WifiFlags, wifi # StateOf(f)
    PROVE  flags[f] = FALSE
<1> DEFINE w == Wish(f, wifi)
<1>1. w[1] = f /\ w[2] = FALSE /\ Settles("events", w)
  BY FlagKinds, OneWrite DEF LedInv, WifiInv, Wish
<1> HIDE DEF w
<1> QED BY <1>1, AtRest

LEMMA DelayInv == ASSUME LedInv, Delay PROVE LedInv'
<1>1. LedTypeOK /\ PassInv /\ RecentInv /\ OwnerInv
  BY DEF LedInv
<1>2. /\ reader' = "usb_failed" /\ quiet' = TRUE
      /\ recent' = IF pending["events"] = <<>> /\ pending["main"] = <<>> THEN {wifi} ELSE recent
      /\ UNCHANGED <<flags, pending, boot, usb, wifi, retry_count, lights, early, events>>
  BY DEF Delay
<1>3. recent' \subseteq Wifis /\ reader' \in Readers
  BY <1>1, <1>2 DEF LedTypeOK, Readers, Flags
<1>4. quiet' \in BOOLEAN
  BY <1>2
<1>5. PassInv'
  BY <1>2 DEF PassInv, WifiFlags
<1>6. RecentInv'
  <2>1. CASE pending["events"] = <<>> /\ pending["main"] = <<>>
    <3> SUFFICES ASSUME NEW f \in WifiFlags, StateOf(f) # wifi
                 PROVE  flags[f] = FALSE /\ \A u \in Tasks : Never(pending[u], Raise(f))
      BY <1>2, <2>1 DEF RecentInv
    <3>1. flags[f] = FALSE
      BY <2>1, UpIsPresent
    <3>2. "tinyusb" \in Tasks /\ f \in Flags /\ pending["tinyusb"] \in Seq(Writes)
      BY <1>1, FlagKinds DEF Tasks, LedTypeOK
    <3>3. Never(pending["tinyusb"], Raise(f))
      BY <1>1, <3>2, SilentNeverWrites DEF OwnerInv
    <3> QED BY <2>1, <3>1, <3>3, EmptyIsSilent DEF Tasks
  <2>2. CASE ~(pending["events"] = <<>> /\ pending["main"] = <<>>)
    BY <1>1, <1>2, <2>2 DEF RecentInv
  <2> QED BY <2>1, <2>2
<1> QED BY <1>1, <1>2, <1>3, <1>4, <1>5, <1>6, PassKeeps DEF LedTypeOK

LEMMA LedNextInv == LedInv /\ [LedNext]_ledVars => LedInv'
<1> SUFFICES ASSUME LedInv, [LedNext]_ledVars PROVE LedInv'
  OBVIOUS
<1>1. CASE LedNext
  BY <1>1, LedWriteInv, BootUsbInv, BootWifiInv, BootEndsInv, UsbEventInv, StaStartInv, RetryInv,
     ExhaustedInv, LostIpInv, GotIpInv, ReadUsbInv, ReadWifiInv, DelayInv
  DEF LedNext, LedTask
<1>2. CASE UNCHANGED ledVars
  <2>1. RecentInv' /\ recent' \subseteq Wifis
    BY <1>2, SameRecent DEF ledVars
  <2>2. PassInv'
    BY <1>2 DEF ledVars, LedInv, PassInv, ShownUsb, ShownWifi
  <2> QED BY <1>2, <2>1, <2>2, PassKeeps DEF ledVars, LedInv, LedTypeOK
<1> QED BY <1>1, <1>2

LEMMA LightsAreTrue == LedInv => LedsTellTheTruth
<1> SUFFICES ASSUME LedInv PROVE LedsTellTheTruth
  OBVIOUS
<1>1. LedTypeOK /\ PassInv /\ UsbInv /\ WifiInv
  BY DEF LedInv
<1>2. ASSUME Settled
      PROVE  /\ lights.usb = usb \/ (early /\ lights.usb = "dark")
             /\ lights.wifi = IF wifi = "lost" THEN "dark" ELSE wifi
  <2>1. /\ lights.usb = ShownUsb /\ lights.wifi = ShownWifi
        /\ pending["events"] = <<>> /\ pending["tinyusb"] = <<>>
    BY <1>1, <1>2 DEF Settled, PassInv, Tasks
  <2>2. "usb_connected" \in Flags /\ "usb_failed" \in Flags
    BY DEF Flags
  <2>3. lights.usb = usb \/ (early /\ lights.usb = "dark")
    <3>1. CASE usb = "dark"
      <4>1. flags["usb_connected"] = FALSE
        <5> DEFINE w == Lower("usb_connected")
        <5>1. w[1] = "usb_connected" /\ w[2] = FALSE /\ Settles("tinyusb", w)
          BY <1>1, <2>2, <3>1, OneWrite DEF UsbInv
        <5> HIDE DEF w
        <5> QED BY <2>1, <5>1, AtRest
      <4> QED BY <1>1, <2>1, <3>1, <4>1 DEF ShownUsb, UsbInv
    <3>2. CASE usb = "solid" /\ ~early
      <4>1. flags["usb_connected"] = TRUE
        <5> DEFINE w == Raise("usb_connected")
        <5>1. w[1] = "usb_connected" /\ w[2] = TRUE /\ Settles("tinyusb", w)
          BY <1>1, <2>2, <3>2, OneWrite DEF UsbInv
        <5> HIDE DEF w
        <5> QED BY <2>1, <5>1, AtRest
      <4> QED BY <1>1, <2>1, <3>2, <4>1 DEF ShownUsb, UsbInv
    <3>3. CASE usb = "solid" /\ early
      BY <1>1, <2>1, <3>3 DEF ShownUsb, UsbInv
    <3> QED BY <1>1, <3>1, <3>2, <3>3 DEF LedTypeOK, Usbs
  <2>4. \A f \in WifiFlags : wifi # StateOf(f) => flags[f] = FALSE
    BY <2>1, UpIsPresent
  <2>5. \A f \in WifiFlags : wifi = StateOf(f) => flags[f] = TRUE
    <3> SUFFICES ASSUME NEW f \in WifiFlags, wifi = StateOf(f) PROVE flags[f] = TRUE
      OBVIOUS
    <3> DEFINE w == Wish(f, wifi)
    <3>1. w[1] = f /\ w[2] = TRUE /\ Settles("events", w)
      BY <1>1, FlagKinds, OneWrite DEF WifiInv, Wish
    <3> HIDE DEF w
    <3> QED BY <2>1, <3>1, AtRest
  <2>6. lights.wifi = IF wifi = "lost" THEN "dark" ELSE wifi
    BY <1>1, <2>1, <2>4, <2>5 DEF ShownWifi, StateOf, WifiFlags, LedTypeOK, Wifis
  <2> QED BY <2>3, <2>6
<1>3. reader = "delay" => lights.wifi \in recent \cup {"dark"}
  BY <1>1 DEF PassInv
<1> QED BY <1>2, <1>3 DEF LedsTellTheTruth

\* For any number of retries and events, in whatever order the tasks write and the pass
\* reads the flags: a pass that nobody disturbs shows what is so, and any other nothing but
\* dark or a state that was.
THEOREM LightsCorrect == LedSpec => []LedsTellTheTruth
BY LedInitInv, LedNextInv, LightsAreTrue, PTL DEF LedSpec

-----------------------------------------------------------------------------
(***************************************************************************)
(* Timebase.  Every count of parts is that of exactly one date of the      *)
(* calendar, so n parts after a date is what gmtime makes of its count and *)
(* n; and a pair that is kept, in the service or in a call's copy, is that *)
(* of a date in force in the call, whose wrapped uptimes differ by the     *)
(* time gone by.                                                           *)
(***************************************************************************)

LEMMA DivMod ==
    ASSUME NEW P \in Nat \ {0}, NEW n \in Nat
    PROVE  /\ n \div P \in Nat /\ n % P \in 0..(P - 1)
           /\ n = (n \div P) * P + (n % P)
<1>1. n \div P \in Nat
  <2> DEFINE q == n \div P
             r == n % P
  <2>1. q \in Int /\ r \in 0..(P - 1) /\ n = P * q + r
    OBVIOUS
  <2> HIDE DEF q, r
  <2>2. ASSUME q <= -1 PROVE P * q <= -P
    BY <2>1, <2>2
  <2>3. q > -1
    BY <2>1, <2>2
  <2>4. q \in Nat
    BY <2>1, <2>3
  <2> QED BY <2>4 DEF q
<1>2. n % P \in 0..(P - 1)
  OBVIOUS
<1>3. n = P * (n \div P) + (n % P)
  OBVIOUS
<1> QED BY <1>1, <1>2, <1>3

LEMMA DivModIs ==
    ASSUME NEW P \in Nat \ {0}, NEW q \in Nat, NEW r \in 0..(P - 1)
    PROVE  (q * P + r) \div P = q /\ (q * P + r) % P = r
OBVIOUS

LEMMA LeapIs ==
    ASSUME NEW y \in Nat, y >= 1970
    PROVE  /\ (y - 1968) \div 4 = (y - 1969) \div 4 + (IF y % 4 = 0 THEN 1 ELSE 0)
           /\ (y - 1900) \div 100 = (y - 1901) \div 100 + (IF y % 100 = 0 THEN 1 ELSE 0)
           /\ (y - 1600) \div 400 = (y - 1601) \div 400 + (IF y % 400 = 0 THEN 1 ELSE 0)
           /\ (y % 400 = 0 => y % 100 = 0) /\ (y % 100 = 0 => y % 4 = 0)
<1>1. (y - 1968) \div 4 = (y - 1969) \div 4 + (IF y % 4 = 0 THEN 1 ELSE 0)
  OBVIOUS
<1>2. (y - 1900) \div 100 = (y - 1901) \div 100 + (IF y % 100 = 0 THEN 1 ELSE 0)
  OBVIOUS
<1>3. (y - 1600) \div 400 = (y - 1601) \div 400 + (IF y % 400 = 0 THEN 1 ELSE 0)
  OBVIOUS
<1>4. y % 400 = 0 => y % 100 = 0
  OBVIOUS
<1>5. y % 100 = 0 => y % 4 = 0
  OBVIOUS
<1> QED BY <1>1, <1>2, <1>3, <1>4, <1>5

LEMMA YearLength ==
    ASSUME NEW y \in Nat, y >= 1970
    PROVE  YearStart(y) \in Int /\ YearStart(y + 1) = YearStart(y) + (IF IsLeap(y) THEN 366 ELSE 365)
<1> DEFINE a == (y - 1969) \div 4
           b == (y - 1901) \div 100
           c == (y - 1601) \div 400
<1>1. a \in Int /\ b \in Int /\ c \in Int
  OBVIOUS
<1>2. YearStart(y) = 365 * (y - 1970) + a - b + c
  BY DEF YearStart
<1>3. YearStart(y + 1) = 365 * (y + 1 - 1970) + (y - 1968) \div 4 - (y - 1900) \div 100 + (y - 1600) \div 400
  <2>1. y + 1 - 1969 = y - 1968 /\ y + 1 - 1901 = y - 1900 /\ y + 1 - 1601 = y - 1600
    OBVIOUS
  <2> QED BY <2>1 DEF YearStart
<1>4. YearStart(y + 1) = 365 * (y + 1 - 1970) + a + (IF y % 4 = 0 THEN 1 ELSE 0)
                         - (b + (IF y % 100 = 0 THEN 1 ELSE 0)) + (c + (IF y % 400 = 0 THEN 1 ELSE 0))
  BY <1>3, LeapIs
<1> HIDE DEF a, b, c
<1> QED BY <1>1, <1>2, <1>4, LeapIs DEF IsLeap

LEMMA MonthIs ==
    ASSUME NEW y \in Nat, y >= 1970, NEW m \in 1..12
    PROVE  LET k == IF IsLeap(y) THEN 1 ELSE 2 IN
           /\ MonthStart(y, m) =
                  YearStart(y) + CASE m = 1 -> 0 [] m = 2 -> 31 [] m = 3 -> 61 - k [] m = 4 -> 92 - k
                                   [] m = 5 -> 122 - k [] m = 6 -> 153 - k [] m = 7 -> 183 - k
                                   [] m = 8 -> 214 - k [] m = 9 -> 245 - k [] m = 10 -> 275 - k
                                   [] m = 11 -> 306 - k [] m = 12 -> 336 - k
           /\ DaysIn(y, m) = CASE m = 2 -> 30 - k [] m \in {4, 6, 9, 11} -> 30
                               [] m \in {1, 3, 5, 7, 8, 10, 12} -> 31
<1>1. IsLeap(y) \in BOOLEAN /\ YearStart(y) \in Int
  BY YearLength DEF IsLeap
<1>2. m = 1 \/ m = 2 \/ m = 3 \/ m = 4 \/ m = 5 \/ m = 6 \/ m = 7 \/ m = 8 \/ m = 9 \/ m = 10 \/ m = 11 \/ m = 12
  OBVIOUS
<1>3. /\ 5 \div 12 = 0 /\ 372 \div 12 = 31 /\ 739 \div 12 = 61 /\ 1106 \div 12 = 92 /\ 1473 \div 12 = 122
      /\ 1840 \div 12 = 153 /\ 2207 \div 12 = 183 /\ 2574 \div 12 = 214 /\ 2941 \div 12 = 245
      /\ 3308 \div 12 = 275 /\ 3675 \div 12 = 306 /\ 4042 \div 12 = 336
  OBVIOUS
<1> DEFINE n == 367 * m - 362
<1>4. /\ m = 1 => n = 5
      /\ m = 2 => n = 372
      /\ m = 3 => n = 739
      /\ m = 4 => n = 1106
      /\ m = 5 => n = 1473
      /\ m = 6 => n = 1840
      /\ m = 7 => n = 2207
      /\ m = 8 => n = 2574
      /\ m = 9 => n = 2941
      /\ m = 10 => n = 3308
      /\ m = 11 => n = 3675
      /\ m = 12 => n = 4042
  OBVIOUS
<1>5. MonthStart(y, m) = YearStart(y) + (n \div 12) - (IF m <= 2 THEN 0 ELSE IF IsLeap(y) THEN 1 ELSE 2)
  BY DEF MonthStart
<1> HIDE DEF n
<1> QED BY <1>1, <1>2, <1>3, <1>4, <1>5 DEF DaysIn

\* A month follows the one before, and a year its December.
LEMMA MonthFollows ==
    ASSUME NEW y \in Nat, y >= 1970, NEW m \in 1..12
    PROVE  /\ MonthStart(y, m) \in Int /\ DaysIn(y, m) \in 28..31 /\ MonthStart(y, 1) = YearStart(y)
           /\ MonthStart(y, m) >= YearStart(y)
           /\ MonthStart(y, m) + DaysIn(y, m) = IF m = 12 THEN YearStart(y + 1) ELSE MonthStart(y, m + 1)
           /\ MonthStart(y, m) + DaysIn(y, m) <= YearStart(y + 1)
           /\ \A k \in 1..12 : m < k => MonthStart(y, m) + DaysIn(y, m) <= MonthStart(y, k)
<1>1. YearStart(y) \in Int /\ YearStart(y + 1) = YearStart(y) + (IF IsLeap(y) THEN 366 ELSE 365)
      /\ IsLeap(y) \in BOOLEAN
  BY YearLength DEF IsLeap
<1>2. m = 1 \/ m = 2 \/ m = 3 \/ m = 4 \/ m = 5 \/ m = 6 \/ m = 7 \/ m = 8 \/ m = 9 \/ m = 10 \/ m = 11 \/ m = 12
  OBVIOUS
<1> DEFINE Y == YearStart(y)
           k == IF IsLeap(y) THEN 1 ELSE 2
<1>3. /\ MonthStart(y, m) =
             Y + CASE m = 1 -> 0 [] m = 2 -> 31 [] m = 3 -> 61 - k [] m = 4 -> 92 - k
                   [] m = 5 -> 122 - k [] m = 6 -> 153 - k [] m = 7 -> 183 - k
                   [] m = 8 -> 214 - k [] m = 9 -> 245 - k [] m = 10 -> 275 - k
                   [] m = 11 -> 306 - k [] m = 12 -> 336 - k
      /\ DaysIn(y, m) = CASE m = 2 -> 30 - k [] m \in {4, 6, 9, 11} -> 30
                          [] m \in {1, 3, 5, 7, 8, 10, 12} -> 31
  BY MonthIs
<1>4. \A j \in 1..12 : MonthStart(y, j) =
             Y + CASE j = 1 -> 0 [] j = 2 -> 31 [] j = 3 -> 61 - k [] j = 4 -> 92 - k
                   [] j = 5 -> 122 - k [] j = 6 -> 153 - k [] j = 7 -> 183 - k
                   [] j = 8 -> 214 - k [] j = 9 -> 245 - k [] j = 10 -> 275 - k
                   [] j = 11 -> 306 - k [] j = 12 -> 336 - k
  BY MonthIs
<1>5. k \in {1, 2} /\ Y \in Int /\ YearStart(y + 1) = Y + 367 - k
  BY <1>1
<1> HIDE DEF k, Y
<1>6. MonthStart(y, m) \in Int /\ DaysIn(y, m) \in 28..31
  BY <1>2, <1>3, <1>5
<1>7. MonthStart(y, 1) = Y /\ MonthStart(y, m) >= Y
  BY <1>2, <1>4, <1>5
<1>8. MonthStart(y, m) + DaysIn(y, m) = IF m = 12 THEN YearStart(y + 1) ELSE MonthStart(y, m + 1)
  <2>1. CASE m = 12
    BY <1>3, <1>5, <2>1
  <2>2. CASE m # 12
    <3>1. m + 1 \in 1..12
      BY <2>2
    <3> DEFINE j == m + 1
    <3>2. MonthStart(y, j) =
             Y + CASE j = 1 -> 0 [] j = 2 -> 31 [] j = 3 -> 61 - k [] j = 4 -> 92 - k
                   [] j = 5 -> 122 - k [] j = 6 -> 153 - k [] j = 7 -> 183 - k
                   [] j = 8 -> 214 - k [] j = 9 -> 245 - k [] j = 10 -> 275 - k
                   [] j = 11 -> 306 - k [] j = 12 -> 336 - k
      BY <1>4, <3>1
    <3> QED BY <1>2, <1>3, <1>5, <2>2, <3>2
  <2> QED BY <2>1, <2>2
<1>9. MonthStart(y, m) + DaysIn(y, m) <= YearStart(y + 1)
  BY <1>2, <1>3, <1>5
<1>10. ASSUME NEW j \in 1..12, m < j PROVE MonthStart(y, m) + DaysIn(y, m) <= MonthStart(y, j)
  <2>1. j = 2 \/ j = 3 \/ j = 4 \/ j = 5 \/ j = 6 \/ j = 7 \/ j = 8 \/ j = 9 \/ j = 10 \/ j = 11 \/ j = 12
    BY <1>10
  <2>2. MonthStart(y, j) =
             Y + CASE j = 1 -> 0 [] j = 2 -> 31 [] j = 3 -> 61 - k [] j = 4 -> 92 - k
                   [] j = 5 -> 122 - k [] j = 6 -> 153 - k [] j = 7 -> 183 - k
                   [] j = 8 -> 214 - k [] j = 9 -> 245 - k [] j = 10 -> 275 - k
                   [] j = 11 -> 306 - k [] j = 12 -> 336 - k
    BY <1>4
  <2> QED BY <1>2, <1>3, <1>5, <1>10, <2>1, <2>2
<1> QED BY <1>6, <1>7, <1>8, <1>9, <1>10 DEF Y

\* A set of natural numbers has a least one.
LEMMA LeastNat ==
    ASSUME NEW S \in SUBSET Nat, S # {}
    PROVE  \E w \in S : \A v \in S : ~(v < w)
<1>1. PICK w \in S : \A v \in S : <<v, w>> \notin OpToRel(<, Nat)
  BY NatLessThanWellFounded, WFMin
<1>2. ASSUME NEW v \in S, v < w PROVE FALSE
  <2>1. <<v, w>> \in OpToRel(<, Nat)
    BY <1>2 DEF OpToRel
  <2> QED BY <1>1, <2>1
<1> QED BY <1>2

\* Years begin one after the other.
LEMMA YearsFollow ==
    ASSUME NEW y \in Nat, NEW z \in Nat, y >= 1970, y < z
    PROVE  YearStart(y + 1) <= YearStart(z) /\ YearStart(z) \in Int
<1> DEFINE Late(w) == y < w /\ ~(YearStart(y + 1) <= YearStart(w))
<1>1. YearStart(z) \in Int
  BY YearLength
<1>2. \A w \in Nat : y < w => YearStart(w) <= YearStart(w + 1) /\ YearStart(w) \in Int /\ YearStart(w + 1) \in Int
  BY YearLength
<1>3. YearStart(y + 1) \in Int
  BY YearLength
<1> DEFINE Early == {w \in Nat : Late(w)}
<1>4. ASSUME NEW w \in Nat, Late(w) PROVE w - 1 \in Nat /\ Late(w - 1)
  <2>1. w # y + 1
    BY <1>3, <1>4
  <2>2. w - 1 \in Nat /\ y < w - 1 /\ (w - 1) + 1 = w
    BY <1>4, <2>1
  <2>3. YearStart(w - 1) <= YearStart(w) /\ YearStart(w - 1) \in Int /\ YearStart(w) \in Int
    BY <1>2, <2>2
  <2> QED BY <1>3, <1>4, <2>2, <2>3
<1> HIDE DEF Late
<1>5. Early = {}
  <2> SUFFICES ASSUME Early # {} PROVE FALSE
    OBVIOUS
  <2>1. Early \in SUBSET Nat
    OBVIOUS
  <2> HIDE DEF Early
  <2>2. PICK w \in Early : \A v \in Early : ~(v < w)
    BY <2>1, LeastNat
  <2> USE DEF Early
  <2>3. w \in Nat /\ Late(w)
    OBVIOUS
  <2>4. w - 1 \in Nat /\ Late(w - 1)
    BY <1>4, <2>3
  <2>5. w - 1 \in Early /\ w - 1 < w
    BY <2>3, <2>4
  <2> QED BY <2>2, <2>5
<1>6. ~Late(z)
  BY <1>5
<1>7. YearStart(y + 1) <= YearStart(z)
  BY <1>6 DEF Late
<1> QED BY <1>1, <1>7

\* The dates there are.
Calendar ==
    {t \in [y : Nat, m : 1..12, d : 1..31, part : 0..(DayParts - 1)] :
         t.y >= 1970 /\ t.d <= DaysIn(t.y, t.m)}

DayOf(t) == MonthStart(t.y, t.m) + t.d - 1

LEMMA DayIs ==
    ASSUME NEW t \in Calendar
    PROVE  /\ t.y \in Nat /\ t.y >= 1970 /\ t.m \in 1..12 /\ t.d \in 1..31 /\ t.part \in 0..(DayParts - 1)
           /\ DayOf(t) \in Nat /\ YearStart(t.y) <= DayOf(t) /\ DayOf(t) < YearStart(t.y + 1)
           /\ MonthStart(t.y, t.m) <= DayOf(t)
           /\ \A k \in 1..12 : t.m < k => DayOf(t) < MonthStart(t.y, k)
           /\ t = [y |-> t.y, m |-> t.m, d |-> t.d, part |-> t.part]
           /\ timegm(t) = DayOf(t) * DayParts + t.part /\ timegm(t) \in Nat
<1>1. /\ t.y \in Nat /\ t.y >= 1970 /\ t.m \in 1..12 /\ t.d \in 1..31 /\ t.part \in 0..(DayParts - 1)
      /\ t.d <= DaysIn(t.y, t.m) /\ DayParts \in Nat \ {0}
      /\ t = [y |-> t.y, m |-> t.m, d |-> t.d, part |-> t.part]
  BY ClockAssumption DEF Calendar, ClockAssumption
<1> DEFINE M == MonthStart(t.y, t.m)
           n == DaysIn(t.y, t.m)
<1>2. /\ M \in Int /\ n \in 28..31 /\ M >= YearStart(t.y) /\ M + n <= YearStart(t.y + 1)
      /\ \A k \in 1..12 : t.m < k => M + n <= MonthStart(t.y, k)
  BY <1>1, MonthFollows
<1>3. \A k \in 1..12 : MonthStart(t.y, k) \in Int
  BY <1>1, MonthFollows
<1>4. YearStart(t.y) \in Int /\ YearStart(t.y + 1) \in Int
  BY <1>1, YearLength
<1>5. DayOf(t) = M + t.d - 1
  BY DEF DayOf
<1>6. 0 <= YearStart(t.y)
  <2>1. YearStart(1970) = 0
    BY DEF YearStart
  <2>2. t.y > 1970 => YearStart(1970 + 1) <= YearStart(t.y)
    BY <1>1, YearsFollow
  <2>3. YearStart(1970 + 1) = 365
    BY DEF YearStart
  <2> QED BY <1>1, <1>4, <2>1, <2>2, <2>3
<1> HIDE DEF M, n
<1>7. DayOf(t) \in Nat /\ YearStart(t.y) <= DayOf(t) /\ DayOf(t) < YearStart(t.y + 1) /\ M <= DayOf(t)
  BY <1>1, <1>2, <1>4, <1>5, <1>6 DEF n
<1>8. ASSUME NEW k \in 1..12, t.m < k PROVE DayOf(t) < MonthStart(t.y, k)
  BY <1>1, <1>2, <1>3, <1>5, <1>8 DEF n
<1>9. timegm(t) = DayOf(t) * DayParts + t.part
  BY DEF timegm, DayOf
<1>10. timegm(t) \in Nat
  <2>1. DayOf(t) * DayParts \in Nat
    BY <1>1, <1>7
  <2> QED BY <1>1, <1>9, <2>1
<1> QED BY <1>1, <1>7, <1>8, <1>9, <1>10 DEF M

LEMMA NextFields ==
    ASSUME NEW t, t = [y |-> t.y, m |-> t.m, d |-> t.d, part |-> t.part]
    PROVE  NextPart(t) =
               IF t.part + 1 < DayParts THEN [y |-> t.y, m |-> t.m, d |-> t.d, part |-> t.part + 1]
               ELSE IF t.d < DaysIn(t.y, t.m) THEN [y |-> t.y, m |-> t.m, d |-> t.d + 1, part |-> 0]
               ELSE IF t.m < 12 THEN [y |-> t.y, m |-> t.m + 1, d |-> 1, part |-> 0]
               ELSE [y |-> t.y + 1, m |-> 1, d |-> 1, part |-> 0]
<1>1. [t EXCEPT !.part = @ + 1] = [y |-> t.y, m |-> t.m, d |-> t.d, part |-> t.part + 1]
  OBVIOUS
<1> DEFINE u == [t EXCEPT !.part = 0]
           v == [u EXCEPT !.d = 1]
           w == [v EXCEPT !.m = 1]
<1>2. u = [y |-> t.y, m |-> t.m, d |-> t.d, part |-> 0]
  OBVIOUS
<1>3. [t EXCEPT !.part = 0, !.d = @ + 1] = [u EXCEPT !.d = t.d + 1]
  OBVIOUS
<1>4. [t EXCEPT !.part = 0, !.d = 1, !.m = @ + 1] = [v EXCEPT !.m = t.m + 1]
  OBVIOUS
<1>5. [t EXCEPT !.part = 0, !.d = 1, !.m = 1, !.y = @ + 1] = [w EXCEPT !.y = t.y + 1]
  OBVIOUS
<1>6. NextPart(t) =
          IF t.part + 1 < DayParts THEN [t EXCEPT !.part = @ + 1]
          ELSE IF t.d < DaysIn(t.y, t.m) THEN [u EXCEPT !.d = t.d + 1]
          ELSE IF t.m < 12 THEN [v EXCEPT !.m = t.m + 1]
          ELSE [w EXCEPT !.y = t.y + 1]
  BY <1>3, <1>4, <1>5, Zenon DEF NextPart
<1> HIDE DEF u
<1>7. v = [y |-> t.y, m |-> t.m, d |-> 1, part |-> 0] /\ [u EXCEPT !.d = t.d + 1] = [y |-> t.y, m |-> t.m, d |-> t.d + 1, part |-> 0]
  BY <1>2
<1> HIDE DEF v
<1>8. w = [y |-> t.y, m |-> 1, d |-> 1, part |-> 0] /\ [v EXCEPT !.m = t.m + 1] = [y |-> t.y, m |-> t.m + 1, d |-> 1, part |-> 0]
  BY <1>7
<1> HIDE DEF w
<1>9. [w EXCEPT !.y = t.y + 1] = [y |-> t.y + 1, m |-> 1, d |-> 1, part |-> 0]
  BY <1>8
<1> QED BY <1>1, <1>6, <1>7, <1>8, <1>9, Zenon

\* A date that is a part later counts one part more.
LEMMA NextIs ==
    ASSUME NEW t \in Calendar
    PROVE  NextPart(t) \in Calendar /\ timegm(NextPart(t)) = timegm(t) + 1
<1> DEFINE s == NextPart(t)
<1>1. /\ t.y \in Nat /\ t.y >= 1970 /\ t.m \in 1..12 /\ t.d \in 1..31 /\ t.part \in 0..(DayParts - 1)
      /\ DayOf(t) \in Nat /\ timegm(t) = DayOf(t) * DayParts + t.part
      /\ t = [y |-> t.y, m |-> t.m, d |-> t.d, part |-> t.part]
  BY DayIs
<1>2. t.d <= DaysIn(t.y, t.m) /\ DayParts \in Nat \ {0}
  BY ClockAssumption DEF Calendar, ClockAssumption
<1>3. DaysIn(t.y, t.m) \in 28..31
  BY <1>1, MonthFollows
<1>4. ASSUME DayOf(s) = DayOf(t) + 1, s.part = 0, t.part + 1 = DayParts, s \in Calendar
      PROVE  s \in Calendar /\ timegm(s) = timegm(t) + 1
  <2>1. timegm(s) = DayOf(s) * DayParts + s.part
    BY <1>4, DayIs
  <2> DEFINE D == DayOf(t)
  <2>2. (D + 1) * DayParts = D * DayParts + DayParts
    BY <1>1, <1>2
  <2>3. D * DayParts \in Int
    BY <1>1, <1>2
  <2> HIDE DEF s, D
  <2>4. timegm(s) = D * DayParts + DayParts
    BY <1>2, <1>4, <2>1, <2>2, <2>3 DEF D
  <2>5. timegm(t) = D * DayParts + t.part
    BY <1>1 DEF D
  <2> QED BY <1>1, <1>2, <1>4, <2>3, <2>4, <2>5
<1>5. CASE t.part + 1 < DayParts
  <2>1. s = [y |-> t.y, m |-> t.m, d |-> t.d, part |-> t.part + 1]
    BY <1>1, <1>5, NextFields
  <2>2. s \in Calendar
    BY <1>1, <1>2, <1>5, <2>1 DEF Calendar
  <2>3. DayOf(s) = DayOf(t) /\ s.part = t.part + 1
    BY <2>1 DEF DayOf
  <2>4. timegm(s) = DayOf(s) * DayParts + s.part
    BY <2>2, DayIs
  <2>5. DayOf(t) * DayParts \in Int
    BY <1>1, <1>2
  <2> HIDE DEF s
  <2> QED BY <1>1, <2>2, <2>3, <2>4, <2>5 DEF s
<1>6. CASE ~(t.part + 1 < DayParts) /\ t.d < DaysIn(t.y, t.m)
  <2>1. s = [y |-> t.y, m |-> t.m, d |-> t.d + 1, part |-> 0]
    BY <1>1, <1>6, NextFields
  <2>2. s \in Calendar
    BY <1>1, <1>2, <1>3, <1>6, <2>1 DEF Calendar
  <2>3. MonthStart(t.y, t.m) \in Int
    BY <1>1, MonthFollows
  <2>4. DayOf(s) = DayOf(t) + 1 /\ s.part = 0 /\ t.part + 1 = DayParts
    BY <1>1, <1>2, <1>6, <2>1, <2>3 DEF DayOf
  <2> QED BY <1>4, <2>2, <2>4
<1>7. CASE ~(t.part + 1 < DayParts) /\ ~(t.d < DaysIn(t.y, t.m)) /\ t.m < 12
  <2>1. s = [y |-> t.y, m |-> t.m + 1, d |-> 1, part |-> 0]
    BY <1>1, <1>7, NextFields
  <2>2. t.m + 1 \in 1..12 /\ DaysIn(t.y, t.m + 1) \in 28..31 /\ MonthStart(t.y, t.m + 1) \in Int
    BY <1>1, <1>7, MonthFollows
  <2>3. s \in Calendar
    BY <1>1, <1>2, <2>1, <2>2 DEF Calendar
  <2>4. MonthStart(t.y, t.m) + DaysIn(t.y, t.m) = MonthStart(t.y, t.m + 1) /\ MonthStart(t.y, t.m) \in Int
    BY <1>1, <1>7, MonthFollows
  <2>5. t.d = DaysIn(t.y, t.m) /\ t.part + 1 = DayParts
    BY <1>1, <1>2, <1>3, <1>7
  <2>6. DayOf(s) = DayOf(t) + 1 /\ s.part = 0
    BY <1>1, <2>1, <2>2, <2>4, <2>5 DEF DayOf
  <2> QED BY <1>4, <2>3, <2>5, <2>6
<1>8. CASE ~(t.part + 1 < DayParts) /\ ~(t.d < DaysIn(t.y, t.m)) /\ ~(t.m < 12)
  <2>1. s = [y |-> t.y + 1, m |-> 1, d |-> 1, part |-> 0]
    BY <1>1, <1>8, NextFields
  <2>2. t.y + 1 \in Nat /\ t.y + 1 >= 1970 /\ 1 \in 1..12
    BY <1>1
  <2>3. DaysIn(t.y + 1, 1) \in 28..31 /\ MonthStart(t.y + 1, 1) = YearStart(t.y + 1)
    BY <2>2, MonthFollows
  <2>4. s \in Calendar
    BY <1>1, <1>2, <2>1, <2>2, <2>3 DEF Calendar
  <2>5. MonthStart(t.y, t.m) + DaysIn(t.y, t.m) = YearStart(t.y + 1) /\ MonthStart(t.y, t.m) \in Int
    BY <1>1, <1>8, MonthFollows
  <2>6. t.d = DaysIn(t.y, t.m) /\ t.part + 1 = DayParts
    BY <1>1, <1>2, <1>3, <1>8
  <2>7. DayOf(s) = DayOf(t) + 1 /\ s.part = 0
    BY <1>1, <2>1, <2>3, <2>5, <2>6 DEF DayOf
  <2> QED BY <1>4, <2>4, <2>6, <2>7
<1> QED BY <1>5, <1>6, <1>7, <1>8

\* The C library's two conversions, as the model has them, are each other's inverses.
LEMMA GmtimeOfTimegm ==
    ASSUME NEW t \in Calendar
    PROVE  gmtime(timegm(t)) = t
<1> DEFINE n == timegm(t) \div DayParts
           Year(z) == YearStart(z) <= n /\ n < YearStart(z + 1)
           Month(k) == MonthStart(t.y, k) <= n /\ (k = 12 \/ n < MonthStart(t.y, k + 1))
           Ys == (1970 + n \div 366)..(1970 + n \div 365)
<1>0. /\ t.y \in Nat /\ t.y >= 1970 /\ t.m \in 1..12 /\ t.d \in 1..31 /\ t.part \in 0..(DayParts - 1)
      /\ DayOf(t) \in Nat /\ YearStart(t.y) <= DayOf(t) /\ DayOf(t) < YearStart(t.y + 1)
      /\ MonthStart(t.y, t.m) <= DayOf(t)
      /\ \A k \in 1..12 : t.m < k => DayOf(t) < MonthStart(t.y, k)
      /\ t = [y |-> t.y, m |-> t.m, d |-> t.d, part |-> t.part]
      /\ timegm(t) = DayOf(t) * DayParts + t.part
  BY DayIs
<1>2. DayParts \in Nat \ {0}
  BY ClockAssumption DEF ClockAssumption
<1>3. n = DayOf(t) /\ timegm(t) % DayParts = t.part
  <2> DEFINE D == DayOf(t)
  <2>1. D \in Nat /\ timegm(t) = D * DayParts + t.part
    BY <1>0
  <2> HIDE DEF D
  <2>2. (D * DayParts + t.part) \div DayParts = D /\ (D * DayParts + t.part) % DayParts = t.part
    BY <1>0, <1>2, <2>1, DivModIs
  <2> QED BY <2>1, <2>2 DEF D
<1>4. n = MonthStart(t.y, t.m) + t.d - 1
  BY <1>3 DEF DayOf
<1> HIDE DEF n
<1>1. /\ t.y \in Nat /\ t.y >= 1970 /\ t.m \in 1..12 /\ t.d \in 1..31 /\ t.part \in 0..(DayParts - 1)
      /\ n \in Nat /\ YearStart(t.y) <= n /\ n < YearStart(t.y + 1)
      /\ MonthStart(t.y, t.m) <= n
      /\ \A k \in 1..12 : t.m < k => n < MonthStart(t.y, k)
      /\ t = [y |-> t.y, m |-> t.m, d |-> t.d, part |-> t.part]
  BY <1>0, <1>3
<1>5. t.y \in Ys
  <2> DEFINE a == (t.y - 1969) \div 4
             b == (t.y - 1901) \div 100
             c == (t.y - 1601) \div 400
  <2>1. 365 * (t.y - 1970) <= YearStart(t.y)
    <3>1. YearStart(t.y) = 365 * (t.y - 1970) + a - b + c
      BY DEF YearStart
    <3>2. a - b + c >= 0
      BY <1>1
    <3>3. a \in Int /\ b \in Int /\ c \in Int
      BY <1>1
    <3> HIDE DEF a, b, c
    <3> QED BY <1>1, <3>1, <3>2, <3>3
  <2>2. YearStart(t.y + 1) <= 366 * (t.y + 1 - 1970)
    <3> DEFINE z == t.y + 1
               e == (z - 1969) \div 4
               f == (z - 1901) \div 100
               g == (z - 1601) \div 400
    <3>1. z \in Nat /\ z >= 1971
      BY <1>1
    <3> HIDE DEF z
    <3>2. YearStart(z) = 365 * (z - 1970) + e - f + g
      BY DEF YearStart
    <3>3. e - f + g <= z - 1970
      BY <3>1
    <3>4. e \in Int /\ f \in Int /\ g \in Int
      BY <3>1
    <3> HIDE DEF e, f, g
    <3>5. YearStart(z) <= 366 * (z - 1970)
      BY <3>1, <3>2, <3>3, <3>4
    <3>6. z = t.y + 1 /\ z - 1970 = t.y + 1 - 1970
      BY <1>1 DEF z
    <3> QED BY <3>5, <3>6
  <2>3. YearStart(t.y) \in Int /\ YearStart(t.y + 1) \in Int
    BY <1>1, YearLength
  <2>4. 365 * (t.y - 1970) <= n /\ n < 366 * (t.y + 1 - 1970)
    BY <1>1, <2>1, <2>2, <2>3
  <2>5. t.y - 1970 <= n \div 365 /\ n \div 366 <= t.y - 1970
    BY <1>1, <2>4
  <2> QED BY <1>1, <2>5
<1>6. (CHOOSE z \in Ys : Year(z)) = t.y
  <2>1. Year(t.y)
    BY <1>1
  <2>2. ASSUME NEW z \in Ys, Year(z) PROVE z = t.y
    <3>1. z \in Nat /\ z >= 1970
      <4>1. n \div 366 \in Nat
        BY <1>1
      <4> QED BY <4>1
    <3>2. YearStart(z) \in Int /\ YearStart(z + 1) \in Int /\ YearStart(t.y) \in Int /\ YearStart(t.y + 1) \in Int
      BY <1>1, <3>1, YearLength
    <3>3. ~(z < t.y)
      BY <1>1, <2>2, <3>1, <3>2, YearsFollow
    <3>4. ~(t.y < z)
      BY <1>1, <2>2, <3>1, <3>2, YearsFollow
    <3> QED BY <1>1, <3>1, <3>3, <3>4
  <2> HIDE DEF Ys, Year
  <2> QED BY <1>5, <2>1, <2>2
<1>7. (CHOOSE k \in 1..12 : Month(k)) = t.m
  <2>1. Month(t.m)
    <3>1. t.m # 12 => t.m + 1 \in 1..12 /\ t.m < t.m + 1
      BY <1>1
    <3> QED BY <1>1, <3>1
  <2>2. ASSUME NEW k \in 1..12, Month(k) PROVE k = t.m
    <3>1. ~(t.m < k)
      <4>1. MonthStart(t.y, k) \in Int
        BY <1>1, MonthFollows
      <4> QED BY <1>1, <2>2, <4>1
    <3>2. ~(k < t.m)
      <4> SUFFICES ASSUME k < t.m PROVE FALSE
        OBVIOUS
      <4>1. k + 1 \in 1..12 /\ n < MonthStart(t.y, k + 1)
        BY <1>1, <2>2
      <4>2. MonthStart(t.y, k) + DaysIn(t.y, k) = MonthStart(t.y, k + 1)
            /\ MonthStart(t.y, k) + DaysIn(t.y, k) <= MonthStart(t.y, t.m)
        BY <1>1, <4>1, MonthFollows
      <4>3. MonthStart(t.y, k + 1) \in Int /\ MonthStart(t.y, t.m) \in Int
        BY <1>1, <4>1, MonthFollows
      <4> QED BY <1>1, <4>1, <4>2, <4>3
    <3> QED BY <1>1, <3>1, <3>2
  <2> HIDE DEF Month
  <2> QED BY <1>1, <2>1, <2>2
<1>8. n - MonthStart(t.y, t.m) + 1 = t.d
  <2>1. MonthStart(t.y, t.m) \in Int
    BY <1>1, MonthFollows
  <2> QED BY <1>1, <1>4, <2>1
<1>9. gmtime(timegm(t)) = [y |-> t.y, m |-> t.m, d |-> t.d, part |-> t.part]
  <2>1. gmtime(timegm(t)) =
            LET z == CHOOSE z \in Ys : Year(z)
                k == CHOOSE k \in 1..12 : MonthStart(z, k) <= n /\ (k = 12 \/ n < MonthStart(z, k + 1))
            IN [y |-> z, m |-> k, d |-> n - MonthStart(z, k) + 1, part |-> timegm(t) % DayParts]
    BY Zenon DEF gmtime, n
  <2>2. gmtime(timegm(t)) =
            LET k == CHOOSE k \in 1..12 : Month(k)
            IN [y |-> t.y, m |-> k, d |-> n - MonthStart(t.y, k) + 1, part |-> t.part]
    <3> DEFINE r(z) == LET k == CHOOSE k \in 1..12 : MonthStart(z, k) <= n /\ (k = 12 \/ n < MonthStart(z, k + 1))
                       IN [y |-> z, m |-> k, d |-> n - MonthStart(z, k) + 1, part |-> t.part]
               Z == CHOOSE z \in Ys : Year(z)
    <3>1. gmtime(timegm(t)) = r(Z)
      BY <1>3, <2>1, Zenon
    <3>2. Z = t.y
      BY <1>6
    <3> HIDE DEF r, Z
    <3>3. gmtime(timegm(t)) = r(t.y)
      BY <3>1, <3>2
    <3> QED BY <3>3, Zenon DEF r
  <2> QED BY <1>7, <1>8, <2>2, Zenon
<1> QED BY <1>1, <1>9

LEMMA WrapIs == DayParts \in Nat \ {0} /\ Wrap \in Nat \ {0}
BY ClockAssumption DEF ClockAssumption

LEMMA EpochIs == Epoch \in Calendar /\ timegm(Epoch) = 0
<1>1. DaysIn(1970, 1) \in 28..31 /\ MonthStart(1970, 1) = YearStart(1970)
  BY MonthFollows
<1>2. YearStart(1970) = 0
  BY DEF YearStart
<1>3. Epoch \in Calendar
  BY <1>1, WrapIs DEF Epoch, Calendar
<1>4. DayOf(Epoch) = 0
  BY <1>1, <1>2 DEF DayOf, Epoch
<1>5. timegm(Epoch) = DayOf(Epoch) * DayParts + Epoch.part
  BY <1>3, DayIs
<1>6. timegm(Epoch) = 0
  BY WrapIs, <1>4, <1>5 DEF Epoch
<1> QED BY <1>3, <1>6

\* Every count of parts is that of a date.
LEMMA DateOf ==
    ASSUME NEW u \in Nat
    PROVE  gmtime(u) \in Calendar /\ timegm(gmtime(u)) = u
<1> DEFINE Dated(v) == \E t \in Calendar : timegm(t) = v
           Undated == {v \in Nat : ~Dated(v)}
<1>1. Dated(0)
  BY EpochIs
<1>2. ASSUME NEW v \in Nat, Dated(v) PROVE Dated(v + 1)
  <2>1. PICK t \in Calendar : timegm(t) = v
    BY <1>2
  <2>2. NextPart(t) \in Calendar /\ timegm(NextPart(t)) = v + 1
    BY <2>1, NextIs
  <2> QED BY <2>2
<1> HIDE DEF Dated
<1>3. Undated = {}
  <2> SUFFICES ASSUME Undated # {} PROVE FALSE
    OBVIOUS
  <2>1. Undated \in SUBSET Nat
    OBVIOUS
  <2> HIDE DEF Undated
  <2>2. PICK w \in Undated : \A v \in Undated : ~(v < w)
    BY <2>1, LeastNat
  <2> USE DEF Undated
  <2>3. w \in Nat /\ ~Dated(w) /\ w # 0
    BY <1>1
  <2>4. w - 1 \in Nat /\ w - 1 < w /\ (w - 1) + 1 = w
    BY <2>3
  <2>5. Dated(w - 1)
    BY <2>2, <2>4
  <2>6. Dated((w - 1) + 1)
    BY <1>2, <2>4, <2>5
  <2> QED BY <2>3, <2>4, <2>6
<1>4. Dated(u)
  BY <1>3
<1>5. PICK t \in Calendar : timegm(t) = u
  BY <1>4 DEF Dated
<1>6. gmtime(timegm(t)) = t
  BY GmtimeOfTimegm
<1> QED BY <1>5, <1>6

\* The reference: n parts after a date.
LEMMA AfterIs ==
    ASSUME NEW t \in Calendar, NEW n \in Nat
    PROVE  After(t, n) = gmtime(timegm(t) + n)
<1> DEFINE u == timegm(t)
           g == [i \in 0..n |-> gmtime(u + i)]
           Walks(h) == h = [i \in 0..n |-> IF i = 0 THEN t ELSE NextPart(h[i - 1])]
           f == CHOOSE h : Walks(h)
<1>1. u \in Nat /\ gmtime(u) = t
  BY DayIs, GmtimeOfTimegm
<1>2. ASSUME NEW v \in Nat PROVE NextPart(gmtime(v)) = gmtime(v + 1)
  <2>1. gmtime(v) \in Calendar /\ timegm(gmtime(v)) = v
    BY <1>2, DateOf
  <2>2. NextPart(gmtime(v)) \in Calendar /\ timegm(NextPart(gmtime(v))) = v + 1
    BY <2>1, NextIs
  <2> QED BY <2>2, GmtimeOfTimegm
<1> HIDE DEF u
<1>3. Walks(g)
  <2>1. ASSUME NEW i \in 0..n PROVE gmtime(u + i) = IF i = 0 THEN t ELSE NextPart(g[i - 1])
    <3>1. CASE i = 0
      <4>1. u + i = u
        BY <1>1, <3>1
      <4> QED BY <1>1, <3>1, <4>1
    <3>2. CASE i # 0
      <4>1. i - 1 \in 0..n /\ u + (i - 1) \in Nat /\ (u + (i - 1)) + 1 = u + i
        BY <1>1, <2>1, <3>2
      <4>2. g[i - 1] = gmtime(u + (i - 1))
        BY <4>1
      <4>3. NextPart(gmtime(u + (i - 1))) = gmtime(u + i)
        BY <1>2, <4>1
      <4> QED BY <3>2, <4>2, <4>3
    <3> QED BY <3>1, <3>2
  <2> QED BY <2>1
<1>4. Walks(f)
  <2> HIDE DEF Walks, g
  <2> QED BY <1>3
<1>5. \A i \in 0..n : f[i] = IF i = 0 THEN t ELSE NextPart(f[i - 1])
  <2> HIDE DEF f
  <2> QED BY <1>4
<1>6. After(t, n) = f[n]
  BY DEF After
<1> HIDE DEF f, g, Walks
<1> DEFINE Off == {i \in 0..n : f[i] # gmtime(u + i)}
<1>7. Off = {}
  <2> SUFFICES ASSUME Off # {} PROVE FALSE
    OBVIOUS
  <2>1. Off \in SUBSET Nat
    OBVIOUS
  <2> HIDE DEF Off
  <2>2. PICK w \in Off : \A v \in Off : ~(v < w)
    BY <2>1, LeastNat
  <2>3. w \in 0..n /\ f[w] # gmtime(u + w)
    BY DEF Off
  <2>4. CASE w = 0
    <3>1. u + w = u
      BY <1>1, <2>4
    <3> QED BY <1>1, <1>5, <2>3, <2>4, <3>1
  <2>5. CASE w # 0
    <3>1. w - 1 \in 0..n /\ w - 1 < w /\ u + (w - 1) \in Nat /\ (u + (w - 1)) + 1 = u + w
      BY <1>1, <2>3, <2>5
    <3>2. w - 1 \notin Off
      BY <2>2, <3>1
    <3>3. f[w - 1] = gmtime(u + (w - 1))
      BY <3>1, <3>2 DEF Off
    <3>4. NextPart(gmtime(u + (w - 1))) = gmtime(u + w)
      BY <1>2, <3>1
    <3> QED BY <1>5, <2>3, <2>5, <3>3, <3>4
  <2> QED BY <2>4, <2>5
<1>8. n \in 0..n
  OBVIOUS
<1>9. f[n] = gmtime(u + n)
  BY <1>7, <1>8
<1> QED BY <1>6, <1>9 DEF u

\* The uptime's wrap cancels as long as less than a whole one has passed.
LEMMA WrapCancels ==
    ASSUME NEW W \in Nat \ {0}, NEW a \in Nat, NEW b \in Nat, b <= a, a - b < W
    PROVE  ((a % W) - (b % W)) % W = a - b
<1> DEFINE p == a \div W
           q == b \div W
           r == a % W
           s == b % W
           x == a - b
<1>1. p \in Nat /\ r \in 0..(W - 1) /\ a = p * W + r
  BY DivMod
<1>2. q \in Nat /\ s \in 0..(W - 1) /\ b = q * W + s
  BY DivMod
<1>3. x \in 0..(W - 1)
  OBVIOUS
<1> HIDE DEF p, q, r, s
<1> DEFINE k == p - q
<1>4. k \in Int /\ x = k * W + (r - s)
  BY <1>1, <1>2
<1> HIDE DEF k, x
<1>5. k * W \in Int /\ -W < k * W /\ k * W < 2 * W
  BY <1>1, <1>2, <1>3, <1>4
<1>6. k \in {0, 1}
  <2>1. k <= -1 => k * W <= -W
    BY <1>4
  <2>2. k >= 2 => k * W >= 2 * W
    BY <1>4
  <2>3. -W \in Int /\ 2 * W \in Int
    OBVIOUS
  <2> DEFINE kw == k * W
  <2>4. kw \in Int /\ -W < kw /\ kw < 2 * W /\ (k <= -1 => kw <= -W) /\ (k >= 2 => kw >= 2 * W)
    BY <1>5, <2>1, <2>2
  <2> HIDE DEF kw
  <2> QED BY <1>4, <2>4
<1>7. r - s = x \/ r - s = x - W
  BY <1>1, <1>2, <1>3, <1>4, <1>6
<1>8. x % W = x /\ (x - W) % W = x
  BY <1>3
<1>9. (r - s) % W = x
  BY <1>7, <1>8
<1> QED BY <1>9 DEF r, s, x

\* A date that is accepted is one there is.
LEMMA AcceptedIs ==
    ASSUME NEW t \in Dates, Accepted(t)
    PROVE  t \in Calendar
<1>1. /\ t.y \in Nat /\ t.y >= 1970 /\ t.m \in 1..12 /\ t.d \in 1..31 /\ t.part \in Nat
      /\ gmtime(timegm(t)) = t /\ DayParts \in Nat \ {0}
  BY ClockAssumption DEF ClockAssumption, Accepted
<1>2. YearStart(t.y) >= 0 /\ YearStart(t.y) \in Int
  <2>1. YearStart(1970) = 0 /\ YearStart(1970 + 1) = 365
    BY DEF YearStart
  <2>2. t.y > 1970 => YearStart(1970 + 1) <= YearStart(t.y)
    BY <1>1, YearsFollow
  <2>3. YearStart(t.y) \in Int
    BY <1>1, YearLength
  <2> QED BY <1>1, <2>1, <2>2, <2>3
<1>3. MonthStart(t.y, t.m) >= YearStart(t.y) /\ MonthStart(t.y, t.m) \in Int
  BY <1>1, MonthFollows
<1> DEFINE day == MonthStart(t.y, t.m) + t.d - 1
<1>4. day \in Nat
  BY <1>1, <1>2, <1>3
<1>5. timegm(t) = day * DayParts + t.part
  BY DEF timegm
<1> HIDE DEF day
<1>6. timegm(t) \in Nat
  <2>1. day * DayParts \in Nat
    BY <1>1, <1>4
  <2> QED BY <1>1, <1>5, <2>1
<1> QED BY <1>1, <1>6, DateOf

Bases == [date : Calendar, at : Nat]
Mappings == [unix_ms : Nat, uptime_ms : Nat]
Calls == {Nothing} \cup [mapping : Mappings, bases : SUBSET Bases]

\* The pair that a base is kept as.
Keeps(mapping, b, n) ==
    /\ b \in Bases /\ b.at <= n
    /\ mapping.unix_ms = timegm(b.date) /\ mapping.uptime_ms = b.at % Wrap

ClockInv ==
    /\ elapsed \in Nat /\ base_mapping \in Mappings /\ call \in [Sessions -> Calls]
    /\ Keeps(base_mapping, set_at, elapsed)
    /\ \A s \in Sessions : call[s] # Nothing => \E b \in call[s].bases : Keeps(call[s].mapping, b, elapsed)
    /\ ReadingIsTime

LEMMA NotNothing ==
    ASSUME NEW mapping, NEW bases
    PROVE  [mapping |-> mapping, bases |-> bases] # Nothing
<1> SUFFICES ASSUME [mapping |-> mapping, bases |-> bases] = Nothing PROVE FALSE
  OBVIOUS
<1>1. "answer" \in DOMAIN [mapping |-> mapping, bases |-> bases]
  BY DEF Nothing
<1> QED BY <1>1

LEMMA CallIs ==
    ASSUME ClockInv, NEW s \in Sessions
    PROVE  /\ call[s] \in Calls
           /\ call[s] # Nothing =>
                  /\ call[s].mapping \in Mappings /\ call[s].bases \subseteq Bases
                  /\ call[s] = [mapping |-> call[s].mapping, bases |-> call[s].bases]
BY DEF ClockInv, Calls

\* What an answer that adds the time gone by to a kept base says.
LEMMA ReadingOf ==
    ASSUME NEW mapping, NEW b, NEW n \in Nat, b \in Bases, b.at <= n, n - b.at < Wrap,
           mapping.unix_ms = timegm(b.date), mapping.uptime_ms = b.at % Wrap
    PROVE  /\ b.date.d <= DaysIn(b.date.y, b.date.m)
           /\ gmtime(mapping.unix_ms + (((n % Wrap) - mapping.uptime_ms) % Wrap)) = After(b.date, n - b.at)
<1>1. b.date \in Calendar /\ b.at \in Nat
  BY DEF Bases
<1>2. b.date.d <= DaysIn(b.date.y, b.date.m)
  BY <1>1 DEF Calendar
<1>3. ((n % Wrap) - (b.at % Wrap)) % Wrap = n - b.at
  BY <1>1, WrapIs, WrapCancels
<1>4. n - b.at \in Nat
  BY <1>1
<1>5. After(b.date, n - b.at) = gmtime(timegm(b.date) + (n - b.at))
  BY <1>1, <1>4, AfterIs
<1> QED BY <1>2, <1>3, <1>5

LEMMA InitClock == ClockInit => ClockInv
<1> SUFFICES ASSUME ClockInit PROVE ClockInv
  OBVIOUS
<1>1. Epoch \in Calendar /\ timegm(Epoch) = 0
  BY EpochIs
<1>2. elapsed = 0 /\ base_mapping = [unix_ms |-> 0, uptime_ms |-> 0] /\ call = [s \in Sessions |-> Nothing]
      /\ set_at = [date |-> Epoch, at |-> 0] /\ shown = Nothing
  BY DEF ClockInit
<1>3. 0 % Wrap = 0
  BY WrapIs
<1>4. Keeps(base_mapping, set_at, elapsed)
  BY <1>1, <1>2, <1>3 DEF Keeps, Bases
<1>5. base_mapping \in Mappings /\ call \in [Sessions -> Calls]
  BY <1>2 DEF Mappings, Calls
<1>6. \A s \in Sessions : call[s] = Nothing
  BY <1>2
<1>7. ReadingIsTime
  BY <1>2 DEF ReadingIsTime
<1> QED BY <1>2, <1>4, <1>5, <1>6, <1>7 DEF ClockInv

LEMMA ElapseClock == ClockInv /\ Elapse => ClockInv'
<1> SUFFICES ASSUME ClockInv, Elapse PROVE ClockInv'
  OBVIOUS
<1>1. elapsed \in Nat /\ elapsed' = elapsed + 1 /\ base_mapping' = base_mapping /\ call' = call
      /\ set_at' = set_at /\ shown' = shown
  BY DEF ClockInv, Elapse
<1>3. Keeps(base_mapping', set_at', elapsed')
  <2>1. Keeps(base_mapping, set_at, elapsed)
    BY DEF ClockInv
  <2> QED BY <1>1, <2>1 DEF Keeps, Bases
<1>4. ASSUME NEW s \in Sessions, call[s] # Nothing
      PROVE  \E b \in call[s].bases : Keeps(call[s].mapping, b, elapsed')
  <2>1. PICK b \in call[s].bases : Keeps(call[s].mapping, b, elapsed)
    BY <1>4 DEF ClockInv
  <2> QED BY <1>1, <2>1 DEF Keeps, Bases
<1>5. ReadingIsTime'
  BY <1>1 DEF ClockInv, ReadingIsTime
<1> QED BY <1>1, <1>3, <1>4, <1>5 DEF ClockInv, Keeps

LEMMA SetDateClock == ClockInv /\ SetDate => ClockInv'
<1> SUFFICES ASSUME ClockInv, SetDate PROVE ClockInv'
  OBVIOUS
<1>1. PICK t \in Dates :
          /\ Accepted(t)
          /\ base_mapping' = [unix_ms |-> timegm(t), uptime_ms |-> elapsed % Wrap]
          /\ set_at' = [date |-> t, at |-> elapsed]
          /\ call' = [s \in Sessions |->
                 IF call[s] = Nothing THEN Nothing ELSE [call[s] EXCEPT !.bases = @ \cup {set_at'}]]
  BY DEF SetDate, SetBase, timebase_svc_uptime_ms
<1>2. elapsed \in Nat /\ elapsed' = elapsed /\ shown' = shown
  BY DEF ClockInv, SetDate
<1>3. t \in Calendar /\ timegm(t) \in Nat /\ elapsed % Wrap \in Nat
  BY <1>1, <1>2, AcceptedIs, DayIs, WrapIs
<1>4. base_mapping' \in Mappings
  BY <1>1, <1>3 DEF Mappings
<1>5. set_at' \in Bases /\ set_at'.at <= elapsed /\ Keeps(base_mapping', set_at', elapsed')
  BY <1>1, <1>2, <1>3 DEF Keeps, Bases
<1>6. ASSUME NEW s \in Sessions
      PROVE  /\ call'[s] \in Calls
             /\ call'[s] # Nothing => \E b \in call'[s].bases : Keeps(call'[s].mapping, b, elapsed')
  <2>1. CASE call[s] = Nothing
    <3>1. call'[s] = Nothing
      BY <1>1, <2>1
    <3> QED BY <3>1 DEF Calls
  <2>2. CASE call[s] # Nothing
    <3> DEFINE c == call[s]
               all == c.bases \cup {set_at'}
    <3>1. c.mapping \in Mappings /\ c.bases \subseteq Bases /\ c = [mapping |-> c.mapping, bases |-> c.bases]
      BY <2>2, CallIs
    <3>2. call'[s] = [c EXCEPT !.bases = all]
      BY <1>1, <2>2
    <3> HIDE DEF c
    <3>3. call'[s] = [mapping |-> c.mapping, bases |-> all]
      BY <3>1, <3>2
    <3>4. all \subseteq Bases
      BY <1>5, <3>1
    <3>5. PICK b \in c.bases : Keeps(c.mapping, b, elapsed)
      BY <2>2 DEF ClockInv, c
    <3>6. b \in all /\ Keeps(c.mapping, b, elapsed')
      BY <1>2, <3>5 DEF Keeps
    <3> HIDE DEF all
    <3>7. call'[s] \in Calls
      BY <3>1, <3>3, <3>4 DEF Calls
    <3>8. call'[s].mapping = c.mapping /\ call'[s].bases = all
      BY <3>3
    <3> QED BY <3>6, <3>7, <3>8 DEF Keeps
  <2> QED BY <2>1, <2>2
<1>7. call' \in [Sessions -> Calls]
  <2>1. call' = [s \in Sessions |-> call'[s]]
    BY <1>1
  <2> QED BY <1>6, <2>1
<1>8. ReadingIsTime'
  BY <1>2 DEF ClockInv, ReadingIsTime
<1> QED BY <1>2, <1>4, <1>5, <1>6, <1>7, <1>8 DEF ClockInv, Keeps

LEMMA CopyBaseClock == \A s \in Sessions : ClockInv /\ CopyBase(s) => ClockInv'
<1> SUFFICES ASSUME NEW s \in Sessions, ClockInv, CopyBase(s) PROVE ClockInv'
  OBVIOUS
<1> DEFINE c == [mapping |-> base_mapping, bases |-> {set_at}]
<1>1. call' = [call EXCEPT ![s] = c] /\ elapsed' = elapsed /\ base_mapping' = base_mapping
      /\ set_at' = set_at /\ shown' = shown
  BY DEF CopyBase
<1>2. elapsed \in Nat /\ base_mapping \in Mappings /\ call \in [Sessions -> Calls] /\ Keeps(base_mapping, set_at, elapsed)
  BY DEF ClockInv
<1>3. c \in Calls /\ c.mapping = base_mapping /\ c.bases = {set_at}
  BY <1>2 DEF Calls, Keeps
<1> HIDE DEF c
<1>4. call' \in [Sessions -> Calls]
  BY <1>1, <1>2, <1>3
<1>5. ASSUME NEW r \in Sessions, call'[r] # Nothing
      PROVE  \E b \in call'[r].bases : Keeps(call'[r].mapping, b, elapsed)
  <2>1. CASE r = s
    BY <1>1, <1>2, <1>3, <2>1
  <2>2. CASE r # s
    <3>1. call'[r] = call[r]
      BY <1>1, <1>2, <2>2
    <3> QED BY <1>5, <3>1 DEF ClockInv
  <2> QED BY <2>1, <2>2
<1>7. ReadingIsTime'
  BY <1>1 DEF ClockInv, ReadingIsTime
<1> QED BY <1>1, <1>2, <1>4, <1>5, <1>7 DEF ClockInv, Keeps

LEMMA AnswerClock == \A s \in Sessions : ClockInv /\ Answer(s) => ClockInv'
<1> SUFFICES ASSUME NEW s \in Sessions, ClockInv, Answer(s) PROVE ClockInv'
  OBVIOUS
<1> DEFINE mapping == call[s].mapping
           unix == mapping.unix_ms + (((elapsed % Wrap) - mapping.uptime_ms) % Wrap)
<1>1. /\ call[s] # Nothing /\ call' = [call EXCEPT ![s] = Nothing]
      /\ elapsed' = elapsed /\ base_mapping' = base_mapping /\ set_at' = set_at
      /\ shown' = [answer |-> Formatted(gmtime(unix)), at |-> elapsed, bases |-> call[s].bases]
  BY DEF Answer, timebase_svc_uptime_ms
<1>2. elapsed \in Nat /\ base_mapping \in Mappings /\ call \in [Sessions -> Calls] /\ Keeps(base_mapping, set_at, elapsed)
  BY DEF ClockInv
<1>3. call' \in [Sessions -> Calls]
  BY <1>1, <1>2 DEF Calls
<1>4. ASSUME NEW r \in Sessions, call'[r] # Nothing
      PROVE  \E b \in call'[r].bases : Keeps(call'[r].mapping, b, elapsed)
  <2>1. r # s
    BY <1>1, <1>2, <1>4
  <2>2. call'[r] = call[r]
    BY <1>1, <1>2, <2>1
  <2> QED BY <1>4, <2>2 DEF ClockInv
<1>5. PICK b \in call[s].bases : Keeps(mapping, b, elapsed)
  BY <1>1 DEF ClockInv
<1> HIDE DEF mapping
<1>6. \/ elapsed - b.at >= Wrap
      \/ /\ b.date.d <= DaysIn(b.date.y, b.date.m)
         /\ Formatted(gmtime(unix)) = Formatted(After(b.date, elapsed - b.at))
  <2>1. b \in Bases /\ b.at \in Nat /\ b.at <= elapsed /\ mapping.unix_ms = timegm(b.date)
        /\ mapping.uptime_ms = b.at % Wrap
    BY <1>5 DEF Keeps, Bases
  <2>2. CASE elapsed - b.at < Wrap
    <3>1. /\ b.date.d <= DaysIn(b.date.y, b.date.m)
          /\ gmtime(unix) = After(b.date, elapsed - b.at)
      BY <1>2, <2>1, <2>2, ReadingOf
    <3> HIDE DEF unix
    <3> QED BY <3>1
  <2>3. elapsed - b.at < Wrap \/ elapsed - b.at >= Wrap
    BY <1>2, <2>1, WrapIs
  <2> QED BY <2>2, <2>3
<1> HIDE DEF unix
<1>7. shown'.answer = Formatted(gmtime(unix)) /\ shown'.at = elapsed /\ shown'.bases = call[s].bases
  BY <1>1
<1>8. ReadingIsTime'
  <2>1. b \in shown'.bases
    BY <1>7
  <2>2. \/ shown'.at - b.at >= Wrap
        \/ /\ b.date.d <= DaysIn(b.date.y, b.date.m)
           /\ shown'.answer = Formatted(After(b.date, shown'.at - b.at))
    BY <1>6, <1>7
  <2> QED BY <2>1, <2>2 DEF ReadingIsTime
<1> QED BY <1>1, <1>2, <1>3, <1>4, <1>8 DEF ClockInv, Keeps

LEMMA ReadMapClock == ClockInv /\ ReadMap => ClockInv'
<1> SUFFICES ASSUME ClockInv, ReadMap PROVE ClockInv'
  OBVIOUS
<1>1. /\ shown' = [answer |-> Formatted(gmtime(base_mapping.unix_ms)), at |-> set_at.at, bases |-> {set_at}]
      /\ elapsed' = elapsed /\ base_mapping' = base_mapping /\ set_at' = set_at /\ call' = call
  BY DEF ReadMap
<1>2. Keeps(base_mapping, set_at, elapsed)
  BY DEF ClockInv
<1> DEFINE b == set_at
<1>3. b \in Bases /\ b.date \in Calendar /\ b.at \in Nat /\ base_mapping.unix_ms = timegm(b.date)
  BY <1>2 DEF Keeps, Bases
<1>4. b.date.d <= DaysIn(b.date.y, b.date.m)
  BY <1>3 DEF Calendar
<1>5. gmtime(base_mapping.unix_ms) = After(b.date, b.at - b.at)
  <2>1. b.at - b.at = 0 /\ timegm(b.date) + 0 = timegm(b.date)
    BY <1>3, DayIs
  <2>2. After(b.date, 0) = gmtime(timegm(b.date) + 0)
    BY <1>3, AfterIs
  <2> QED BY <1>3, <2>1, <2>2
<1>6. shown'.answer = Formatted(gmtime(base_mapping.unix_ms)) /\ shown'.at = b.at /\ b \in shown'.bases
  BY <1>1
<1>7. ReadingIsTime'
  <2>1. shown'.answer = Formatted(After(b.date, shown'.at - b.at))
    BY <1>5, <1>6
  <2> HIDE DEF b
  <2> QED BY <1>4, <1>6, <2>1 DEF ReadingIsTime
<1>8. ASSUME NEW s \in Sessions, call'[s] # Nothing
      PROVE  \E a \in call'[s].bases : Keeps(call'[s].mapping, a, elapsed)
  BY <1>1, <1>8 DEF ClockInv
<1> QED BY <1>1, <1>2, <1>7, <1>8 DEF ClockInv, Keeps

\* A reading is the date that was set plus the time that has passed, over the ends of months
\* and years and one wrap of the uptime.
THEOREM ReadingCorrect == ClockSpec => []ReadingIsTime
<1>1. ClockInv /\ [ClockNext]_timebaseVars => ClockInv'
  <2> SUFFICES ASSUME ClockInv, [ClockNext]_timebaseVars PROVE ClockInv'
    OBVIOUS
  <2>1. CASE Elapse
    BY <2>1, ElapseClock
  <2>2. CASE SetDate
    BY <2>2, SetDateClock
  <2>3. CASE ReadMap
    BY <2>3, ReadMapClock
  <2>4. CASE \E s \in Sessions : CopyBase(s) \/ Answer(s)
    BY <2>4, CopyBaseClock, AnswerClock
  <2>5. CASE UNCHANGED timebaseVars
    BY <2>5 DEF timebaseVars, ClockInv, Keeps, ReadingIsTime
  <2> QED BY <2>1, <2>2, <2>3, <2>4, <2>5 DEF ClockNext
<1>2. ClockInv => ReadingIsTime
  BY DEF ClockInv
<1> QED BY <1>1, <1>2, InitClock, PTL DEF ClockSpec
=============================================================================
