------------------------------ MODULE TimerSvc ------------------------------
(***************************************************************************)
(* The timed relay steps of timer_svc.c against a clock: the queue, its    *)
(* countdown, the task that sleeps until the deadline, and the calls and   *)
(* relay changes that start, stop and empty it at any moment.  (How the    *)
(* relay, its lock and the protection latches take part is RelayControl's.)*)
(*                                                                         *)
(* The clock counts parts of a millisecond; the scheduler wakes tasks at   *)
(* whole ticks.  Code takes no time but while the timer's lock is held by  *)
(* a resume that has to clear a trip and waits for the protection lock.    *)
(***************************************************************************)
EXTENDS Integers, Sequences

CONSTANTS
    Steps,        \* what clients add: [id, duration in ms, on]
    MaxSteps,     \* TIMER_SVC_MAX_STEPS
    MsParts,      \* parts of a millisecond that the clock tells apart
    TickMs,       \* portTICK_PERIOD_MS
    MaxNow,       \* bound on the clock
    MaxCalls      \* bound on calls and relay changes

ASSUME TimerAssumption ==
    /\ \A step \in Steps : step.duration \in Nat /\ step.on \in BOOLEAN
    /\ {MsParts, TickMs} \subseteq Nat \ {0} /\ {MaxSteps, MaxNow, MaxCalls} \subseteq Nat

VARIABLES
    now,          \* esp_timer_get_time
    steps, timer_state, remaining, deadline,   \* s_timer_svc
    notified,     \* the task's notification
    task,         \* where the task is: "sleep", "read", "pop", "apply", "plan"
    seen,         \* the time it read
    wait_until,   \* when its sleep ends, Forever if nothing is counted down
    popped,       \* the step it holds
    resuming,     \* a resume holds the lock: the time it read, or NotResuming
    clearing,     \* a clear has emptied the queue and not yet switched off
    relay,
    ran,          \* history: time the first step has counted down
    pauses,       \* history: how often it was paused
    held,         \* history: time it counted down with the lock held
    cleared,      \* history: nothing was started or switched since a clear emptied the queue
    calls,        \* calls and relay changes so far
    straggler     \* history: a step was popped and not applied when it emptied the queue

timerVars == <<steps, timer_state, remaining, deadline>>
taskVars == <<notified, task, seen, wait_until, popped>>
histories == <<ran, pauses, held>>
clearVars == <<clearing, relay, cleared, straggler>>
svcVars == <<now, timerVars, taskVars, resuming, clearVars, histories, calls>>

Forever == MaxNow + 1
NotResuming == -1
NoStep == [id |-> "none", duration |-> 0, on |-> FALSE]
Tick == TickMs * MsParts
Locked == resuming # NotResuming

TimerInit ==
    /\ now = 0
    /\ steps = <<>> /\ timer_state = "IDLE" /\ remaining = 0 /\ deadline = 0
    /\ notified = FALSE /\ task = "sleep" /\ seen = 0 /\ wait_until = Forever /\ popped = NoStep
    /\ resuming = NotResuming
    /\ clearing = FALSE /\ relay = FALSE /\ cleared = FALSE /\ straggler = FALSE
    /\ ran = 0 /\ pauses = 0 /\ held = 0 /\ calls = 0

\* timer_svc_remaining_from_deadline: rounded up to a millisecond.
Remaining(t) == IF deadline <= t THEN 0 ELSE (deadline - t + MsParts - 1) \div MsParts

Awake == task # "sleep" \/ notified \/ now >= wait_until

\* Time passes when the task sleeps or waits for the lock.
Advance ==
    /\ now < MaxNow
    /\ Locked \/ (~Awake /\ ~clearing)
    /\ now' = now + 1
    /\ ran' = IF timer_state = "RUNNING" THEN ran + 1 ELSE ran
    /\ held' = IF timer_state = "RUNNING" /\ Locked THEN held + 1 ELSE held
    /\ UNCHANGED <<timerVars, taskVars, resuming, clearVars, pauses>>
-----------------------------------------------------------------------------
(* The task *)

Wake ==
    /\ task = "sleep" /\ Awake
    /\ notified' = FALSE /\ task' = "read"
    /\ UNCHANGED <<now, timerVars, seen, wait_until, popped, resuming, clearVars, histories>>

ReadClock ==
    /\ task = "read"
    /\ seen' = now /\ task' = "pop"
    /\ UNCHANGED <<now, timerVars, notified, wait_until, popped, resuming, clearVars, histories>>

Due == timer_state = "RUNNING" /\ steps # <<>> /\ deadline <= seen

\* timer_svc_start_next_countdown_locked, at the time read before the lock was taken.
StartNext(queue) ==
    /\ steps' = queue
    /\ IF queue = <<>>
       THEN timer_state' = "IDLE" /\ remaining' = 0 /\ deadline' = 0 /\ ran' = 0 /\ held' = 0
       ELSE /\ timer_state' = "RUNNING"
            /\ remaining' = Head(queue).duration
            /\ deadline' = seen + Head(queue).duration * MsParts
            /\ ran' = now - seen /\ held' = now - seen

Pop ==
    /\ task = "pop" /\ ~Locked /\ Due
    /\ popped' = Head(steps) /\ task' = "apply"
    /\ StartNext(Tail(steps))
    /\ pauses' = 0
    /\ UNCHANGED <<now, notified, seen, wait_until, resuming, clearVars>>

NothingDue ==
    /\ task = "pop" /\ ~Locked /\ ~Due
    /\ task' = "plan"
    /\ UNCHANGED <<now, timerVars, notified, seen, wait_until, popped, resuming, clearVars, histories>>

\* output_ctrl_set_with_cause, outside the lock; the timer's listener ignores it.
Apply ==
    /\ task = "apply"
    /\ relay' = popped.on /\ popped' = NoStep /\ task' = "read"
    /\ UNCHANGED <<now, timerVars, notified, seen, wait_until, resuming, clearing, cleared,
                   straggler, histories>>

\* Mutant: the wait is what is left in ms.
PlanInMs ==
    /\ task = "plan" /\ ~Locked
    /\ wait_until' =
           IF timer_state = "RUNNING" THEN (now \div Tick + Remaining(now)) * Tick ELSE Forever
    /\ task' = "sleep"
    /\ UNCHANGED <<now, timerVars, notified, seen, popped, resuming, clearVars, histories>>

\* The head of timer_svc_task's loop: at least one tick, and the ticks end with the scheduler's.
Plan ==
    /\ task = "plan" /\ ~Locked
    /\ LET ticks == Remaining(now) \div TickMs IN
       wait_until' =
           IF timer_state = "RUNNING" THEN (now \div Tick + (IF ticks = 0 THEN 1 ELSE ticks)) * Tick
           ELSE Forever
    /\ task' = "sleep"
    /\ UNCHANGED <<now, timerVars, notified, seen, popped, resuming, clearVars, histories>>
-----------------------------------------------------------------------------
(* The calls, each in one hold of the lock *)

\* Mutant: the ids of the queue are not looked at.
AddStepAgain ==
    /\ ~Locked /\ Len(steps) < MaxSteps
    /\ \E step \in Steps : steps' = Append(steps, step)
    /\ notified' = TRUE
    /\ UNCHANGED <<now, timer_state, remaining, deadline, task, seen, wait_until, popped,
                   resuming, clearVars, histories>>

\* Refused when the queue is full or has the id.
AddStep ==
    /\ ~Locked /\ Len(steps) < MaxSteps
    /\ \E step \in Steps :
           /\ \A i \in DOMAIN steps : steps[i].id # step.id
           /\ steps' = Append(steps, step)
    /\ notified' = TRUE
    /\ UNCHANGED <<now, timer_state, remaining, deadline, task, seen, wait_until, popped,
                   resuming, clearVars, histories>>

\* Mutant: the relay is switched off only when a countdown is under way.
ClearIfCounting ==
    /\ ~Locked /\ ~clearing /\ clearing' = (timer_state # "IDLE")
    /\ steps' = <<>> /\ timer_state' = "IDLE" /\ remaining' = 0 /\ deadline' = 0
    /\ notified' = TRUE
    /\ cleared' = TRUE /\ straggler' = (task = "apply")
    /\ ran' = 0 /\ pauses' = 0 /\ held' = 0
    /\ UNCHANGED <<now, task, seen, wait_until, popped, resuming, relay>>

\* timer_svc_clear empties the queue and then switches the relay off.
Clear ==
    /\ ~Locked /\ ~clearing /\ clearing' = TRUE
    /\ steps' = <<>> /\ timer_state' = "IDLE" /\ remaining' = 0 /\ deadline' = 0
    /\ notified' = TRUE
    /\ cleared' = TRUE /\ straggler' = (task = "apply")
    /\ ran' = 0 /\ pauses' = 0 /\ held' = 0
    /\ UNCHANGED <<now, task, seen, wait_until, popped, resuming, relay>>

SwitchOff ==
    /\ clearing /\ clearing' = FALSE
    /\ relay' = FALSE
    /\ UNCHANGED <<now, timerVars, taskVars, resuming, cleared, straggler, histories>>

\* timer_svc_pause_locked.
PauseAs(kind) ==
    /\ timer_state' = kind
    /\ remaining' = Remaining(now) /\ deadline' = 0
    /\ pauses' = pauses + 1

TogglePause ==
    /\ ~Locked /\ steps # <<>> /\ timer_state = "RUNNING"
    /\ PauseAs("PAUSED")
    /\ notified' = TRUE
    /\ UNCHANGED <<now, steps, task, seen, wait_until, popped, resuming, clearVars, ran, held>>

\* A start or resume counted from time t, with ms to go.
Count(t, ms) ==
    /\ remaining' = ms
    /\ deadline' = t + ms * MsParts
    /\ timer_state' = "RUNNING"
    /\ notified' = TRUE /\ cleared' = FALSE
    /\ ran' = ran + (now - t) /\ held' = held + (now - t)
    /\ UNCHANGED <<now, steps, task, seen, wait_until, popped, clearing, relay, straggler, pauses>>

ToggleRun ==
    /\ ~Locked /\ steps # <<>> /\ timer_state \in {"IDLE", "PAUSED", "OVR"}
    /\ Count(now, IF timer_state = "IDLE" THEN Head(steps).duration ELSE remaining)
    /\ UNCHANGED resuming

\* After a trip protection_svc_clear_trips is called with the timer's lock held.
ToggleAfterTrip ==
    /\ ~Locked /\ steps # <<>> /\ timer_state \in {"OVP", "OCP"}
    /\ resuming' = now
    /\ UNCHANGED <<now, timerVars, taskVars, clearVars, histories>>

TripCleared ==
    /\ Locked /\ resuming' = NotResuming
    /\ Count(resuming, remaining)

TripStays ==
    /\ Locked /\ resuming' = NotResuming
    /\ UNCHANGED <<now, timerVars, taskVars, clearVars, histories>>

\* timer_svc_output_listener: any change that is not the timer's pauses the countdown.
RelayChanged ==
    /\ ~Locked
    /\ \E on \in BOOLEAN, kind \in {"OVP", "OCP", "OVR"} :
           /\ on => kind = "OVR"
           /\ relay' = on
           /\ IF timer_state = "RUNNING" /\ steps # <<>>
              THEN PauseAs(kind) /\ notified' = TRUE
              ELSE UNCHANGED <<timer_state, remaining, deadline, pauses, notified>>
    /\ cleared' = FALSE
    /\ UNCHANGED <<now, steps, task, seen, wait_until, popped, resuming, clearing, straggler, ran, held>>

Task == Wake \/ ReadClock \/ Pop \/ NothingDue \/ Apply \/ Plan

Called ==
    \/ AddStep \/ Clear \/ TogglePause \/ ToggleRun \/ ToggleAfterTrip \/ RelayChanged

TimerNext ==
    \/ (Advance \/ Task \/ SwitchOff \/ TripCleared \/ TripStays) /\ UNCHANGED calls
    \/ calls < MaxCalls /\ calls' = calls + 1 /\ Called

TimerSpec == TimerInit /\ [][TimerNext]_svcVars
-----------------------------------------------------------------------------
TimerTypeOK ==
    /\ {now, remaining, deadline, seen, wait_until, ran, pauses, held} \subseteq Nat
    /\ calls \in 0..MaxCalls
    /\ steps \in Seq(Steps) /\ Len(steps) <= MaxSteps /\ popped \in Steps \cup {NoStep}
    /\ timer_state \in {"IDLE", "RUNNING", "PAUSED", "OVR", "OVP", "OCP"}
    /\ task \in {"sleep", "read", "pop", "apply", "plan"}
    /\ resuming \in Nat \cup {NotResuming}
    /\ {notified, clearing, relay, cleared, straggler} \subseteq BOOLEAN

\* timer_svc_get_status.
StatusRemaining ==
    CASE timer_state = "RUNNING" -> Remaining(now)
      [] timer_state = "IDLE" -> Head(steps).duration
      [] OTHER -> remaining

\* Through any pauses, resumes and notifications a step counts down for its duration: it is
\* popped no earlier, and no later than the rounding of each pause, one tick and the time
\* the lock was held; what TIMer:STATus? shows as left is never less than is left.
StepRunsItsTime ==
    /\ steps # <<>> /\ timer_state # "IDLE" =>
           LET whole == Head(steps).duration * MsParts IN
           /\ ran <= whole + pauses * (MsParts - 1) + Tick + held
           /\ whole <= ran + StatusRemaining * MsParts
           /\ StatusRemaining <= Head(steps).duration
    /\ (task = "pop" /\ ~Locked /\ Due) => Head(steps).duration * MsParts <= ran

\* After TIMer:CLEar the relay stays off until something is started or switched on, but for
\* a step that the task had popped and not applied when the queue was emptied.
ClearTurnsOff == cleared /\ ~clearing => ~relay \/ straggler

\* What StepQueue promises, whatever the clock, the ticks and the wakings of the task.
TimerQueue == INSTANCE StepQueue WITH
    Callers <- {"clearing", "switching"},
    queue <- steps, state <- timer_state,
    taken <- IF task = "apply" THEN {popped.on} ELSE {},
    opening <- IF clearing THEN {"clearing"} ELSE {},
    untold <- [c \in {"clearing", "switching"} |-> "told"]
TimerImplementsQueue == TimerQueue!Spec
=============================================================================
