---------------------------- MODULE RelayControl ----------------------------
(***************************************************************************)
(* The CH1 relay and the tasks that drive it: output_ctrl (the GPIO, the   *)
(* cached state and the listener call), protection_svc (trip latches and   *)
(* the enable interlock), timer_svc (the step queue), the built-in trigger *)
(* actions and the calibration transaction that suspends protection.       *)
(*                                                                         *)
(* Every task is a program counter over the points where another task can *)
(* run: a short critical section that calls nothing is one step, a mutex   *)
(* held across a call is held in lock.  Measured values are reduced to     *)
(* over/under their limit and time to whether the deadline has passed.     *)
(***************************************************************************)
EXTENDS Integers, Sequences

CONSTANTS
    ScpiTasks,      \* tasks that run SCPI commands (TinyUSB task, tcp_server)
    MqttTasks,      \* the MQTT worker, which applies relay/set commands
    TriggerTasks,   \* the trigger_svc worker
    TimerTask,      \* the timer_svc task
    Sampler,        \* measure_sampler: publishes samples to the listeners
    NoTask,
    StepIds,        \* ids a client may give a timer step
    MaxSteps        \* TIMER_SVC_MAX_STEPS

Requesters == ScpiTasks \union MqttTasks     \* callers of set_ch1_output
Tasks == Requesters \union TriggerTasks \union {TimerTask, Sampler}

ASSUME TasksAssumption ==
    /\ ScpiTasks \intersect MqttTasks = {}
    /\ TriggerTasks \intersect Requesters = {}
    /\ TimerTask \notin Requesters \union TriggerTasks
    /\ Sampler \notin Requesters \union TriggerTasks \union {TimerTask}
    /\ NoTask \notin Tasks

ASSUME MaxStepsAssumption == MaxSteps \in Nat \ {0}

TimerCauses == {"timer_expiry", "timer_clear"}
ProtectionCauses == {"ovp", "ocp"}
Causes == {"scpi", "mqtt", "trigger"} \union ProtectionCauses \union TimerCauses

Ch1Trips == {"ch1_ovp", "ch1_ocp"}
Trips == {"ch0_ovp"} \union Ch1Trips

Mutexes == {"calibration", "protection", "timer"}

TimerStates == {"IDLE", "RUNNING", "PAUSED", "OVP", "OCP", "OVR"}

VARIABLES
    pc,             \* where each task is
    job,            \* the output_ctrl_set_with_cause call a task is making
    lock,           \* the holder of each mutex held across a call
    gpio_level,     \* the level of the relay pin
    ch1_enabled,    \* the cached output state
    trips,          \* the protection latches that are set
    txn,            \* the calibration transaction
    steps,          \* the timer queue
    timer_state,
    due,            \* the running countdown's deadline has passed
    raced           \* history: the pin was last written by the timer, or by an
                    \* enable during which a CH1 latch was set

output_vars == <<gpio_level, ch1_enabled, raced>>
timer_vars == <<steps, timer_state, due>>
vars == <<pc, job, lock, output_vars, trips, txn, timer_vars>>

-----------------------------------------------------------------------------
Step == [id : StepIds, on : BOOLEAN]

\* stale is history: a CH1 latch has been set since the enable cleared them.
Job == [on : BOOLEAN, cause : Causes, stale : BOOLEAN]
NewJob(on, cause) == [on |-> on, cause |-> cause, stale |-> FALSE]
NoJob == NewJob(FALSE, "scpi")

Points == {"idle", "check", "interlock", "drive", "cache", "notify",
           "judge", "release", "resume", "storing"}

Init ==
    /\ pc = [t \in Tasks |-> "idle"]
    /\ job = [t \in Tasks |-> NoJob]
    /\ lock = [m \in Mutexes |-> NoTask]
    /\ gpio_level = FALSE
    /\ ch1_enabled = FALSE
    /\ trips = {}
    /\ txn = "IDLE"
    /\ steps = <<>>
    /\ timer_state = "IDLE"
    /\ due = FALSE
    /\ raced = FALSE

Free(m) == lock[m] = NoTask
Acquired(m, t) == [lock EXCEPT ![m] = t]
Released(ms) == [m \in Mutexes |-> IF m \in ms THEN NoTask ELSE lock[m]]

Goto(t, point) == pc' = [pc EXCEPT ![t] = point]

Return(t) ==
    /\ Goto(t, "idle")
    /\ job' = [job EXCEPT ![t] = NoJob]

\* The call output_ctrl_set_with_cause(CH1, on, cause).
CallDrive(t, on, cause) ==
    /\ Goto(t, "drive")
    /\ job' = [job EXCEPT ![t] = NewJob(on, cause)]

\* Tasks that have cleared the latches to close the relay and not yet done so.
Enabling(t) == job[t].on /\ pc[t] \in {"check", "interlock", "drive"}

-----------------------------------------------------------------------------
(* output_ctrl: no lock covers the pin and the cached state together.      *)

DriveLevel(t) ==
    /\ pc[t] = "drive"
    /\ gpio_level' = job[t].on
    /\ raced' = (t = TimerTask \/ job[t].stale)
    /\ Goto(t, "cache")
    /\ UNCHANGED <<job, lock, ch1_enabled, trips, txn, timer_vars>>

\* What follows the call: the sampler still holds its two mutexes.
AfterDrive(t) ==
    IF t = Sampler
    THEN Goto(t, "release") /\ UNCHANGED job
    ELSE Return(t)

\* Mutant: the listener is called only if the cached state changes.
CacheLevelIfNew(t) ==
    /\ pc[t] = "cache"
    /\ ch1_enabled' = job[t].on
    /\ IF job[t].cause \in TimerCauses \/ ch1_enabled = job[t].on
       THEN AfterDrive(t)
       ELSE Goto(t, "notify") /\ UNCHANGED job
    /\ UNCHANGED <<lock, gpio_level, raced, trips, txn, timer_vars>>

\* The timer's listener ignores the changes the timer makes itself.
CacheLevel(t) ==
    /\ pc[t] = "cache"
    /\ ch1_enabled' = job[t].on
    /\ IF job[t].cause \in TimerCauses
       THEN AfterDrive(t)
       ELSE Goto(t, "notify") /\ UNCHANGED job
    /\ UNCHANGED <<lock, gpio_level, raced, trips, txn, timer_vars>>

StatusFromCause(cause) ==
    CASE cause = "ovp" -> "OVP"
      [] cause = "ocp" -> "OCP"
      [] OTHER -> "OVR"

\* timer_svc_output_listener: any other change pauses a running countdown.
NotifyTimer(t) ==
    /\ pc[t] = "notify"
    /\ Free("timer")
    /\ \/ /\ timer_state = "RUNNING" /\ steps # <<>>
          /\ timer_state' = StatusFromCause(job[t].cause)
          /\ due' = FALSE
          /\ UNCHANGED steps
       \/ /\ timer_state # "RUNNING" \/ steps = <<>>
          /\ UNCHANGED timer_vars
    /\ AfterDrive(t)
    /\ UNCHANGED <<lock, output_vars, trips, txn>>

-----------------------------------------------------------------------------
(* protection_svc: requests from SCPI and MQTT.                            *)

CauseOf(t) == IF t \in MqttTasks THEN "mqtt" ELSE "scpi"

\* protection_svc_set_ch1_output(true): clear_trips comes first.
RequestOn(t) ==
    /\ pc[t] = "idle"
    /\ Free("protection")
    /\ trips' = trips \ Ch1Trips
    /\ Goto(t, "check")
    /\ job' = [job EXCEPT ![t] = NewJob(TRUE, CauseOf(t))]
    /\ UNCHANGED <<lock, output_vars, txn, timer_vars>>

\* protection_svc_set_ch1_output(false) is applied unconditionally.
RequestOff(t) ==
    /\ pc[t] = "idle"
    /\ CallDrive(t, FALSE, CauseOf(t))
    /\ UNCHANGED <<lock, output_vars, trips, txn, timer_vars>>

\* protection_svc_check_ch1_enable_allowed: an open transaction bypasses the
\* interlock and the guard is released at once.
BeginCheck(t) ==
    /\ pc[t] = "check"
    /\ Free("calibration")
    /\ \/ /\ txn # "IDLE"
          /\ Goto(t, "drive")
          /\ UNCHANGED lock
       \/ /\ txn = "IDLE"
          /\ lock' = Acquired("calibration", t)
          /\ Goto(t, "interlock")
    /\ UNCHANGED <<job, output_vars, trips, txn, timer_vars>>

\* check_ch1_enable_absolute: the CH0 reading fails, is over the limit or is
\* not; the relay is driven after the guard has been released.
CheckInterlock(t) ==
    /\ pc[t] = "interlock"
    /\ lock' = Released({"calibration"})
    /\ \/ UNCHANGED trips /\ Return(t)
       \/ Free("protection") /\ trips' = trips \union {"ch0_ovp"} /\ Return(t)
       \/ Free("protection") /\ UNCHANGED <<trips, job>> /\ Goto(t, "drive")
    /\ UNCHANGED <<output_vars, txn, timer_vars>>

\* RESET:PROTect CH0|CH1.
ResetProtection(t) ==
    /\ pc[t] = "idle"
    /\ Free("protection")
    /\ \E cleared \in {{"ch0_ovp"}, Ch1Trips} : trips' = trips \ cleared
    /\ UNCHANGED <<pc, job, lock, output_vars, txn, timer_vars>>

-----------------------------------------------------------------------------
(* protection_svc: the sample listener, on the sampler task.               *)

\* protection_svc_check_sample; a bypassed sample changes nothing.
BeginSample ==
    /\ pc[Sampler] = "idle"
    /\ Free("calibration")
    /\ txn = "IDLE"
    /\ lock' = Acquired("calibration", Sampler)
    /\ Goto(Sampler, "judge")
    /\ UNCHANGED <<job, output_vars, trips, txn, timer_vars>>

LatchOf(cause) == IF cause = "ovp" THEN "ch1_ovp" ELSE "ch1_ocp"

\* check_sample_absolute: a sample within its limit changes nothing; one over
\* it latches and opens the relay with both mutexes held.
JudgeSample ==
    /\ pc[Sampler] = "judge"
    /\ Free("protection")
    /\ \/ /\ lock' = Released({"calibration"})
          /\ Return(Sampler)
          /\ UNCHANGED trips
       \/ \E cause \in ProtectionCauses :
              /\ lock' = Acquired("protection", Sampler)
              /\ trips' = trips \union {LatchOf(cause)}
              /\ Goto(Sampler, "drive")
              /\ job' = [t \in Tasks |->
                     IF t = Sampler THEN NewJob(FALSE, cause)
                     ELSE [job[t] EXCEPT !.stale = @ \/ Enabling(t)]]
    /\ UNCHANGED <<output_vars, txn, timer_vars>>

\* Mutant: the protection lock is not given back.
EndSampleKeepsLock ==
    /\ pc[Sampler] = "release"
    /\ lock' = Released({"calibration"})
    /\ Return(Sampler)
    /\ UNCHANGED <<output_vars, trips, txn, timer_vars>>

EndSample ==
    /\ pc[Sampler] = "release"
    /\ lock' = Released({"calibration", "protection"})
    /\ Return(Sampler)
    /\ UNCHANGED <<output_vars, trips, txn, timer_vars>>

-----------------------------------------------------------------------------
(* timer_svc.                                                              *)

\* The deadline of the running countdown passes.
DeadlinePasses ==
    /\ timer_state = "RUNNING"
    /\ ~due
    /\ due' = TRUE
    /\ UNCHANGED <<pc, job, lock, output_vars, trips, txn, steps, timer_state>>

\* timer_svc_complete_due_steps: the popped step is applied after the timer
\* lock has been released.
ExpireStep ==
    /\ pc[TimerTask] = "idle"
    /\ Free("timer")
    /\ timer_state = "RUNNING" /\ steps # <<>> /\ due
    /\ steps' = Tail(steps)
    /\ timer_state' = IF Tail(steps) = <<>> THEN "IDLE" ELSE "RUNNING"
    /\ due' = FALSE
    /\ CallDrive(TimerTask, Head(steps).on, "timer_expiry")
    /\ UNCHANGED <<lock, output_vars, trips, txn>>

AddStep(t) ==
    /\ pc[t] = "idle"
    /\ Free("timer")
    /\ Len(steps) < MaxSteps
    /\ \E step \in Step :
          /\ \A i \in DOMAIN steps : steps[i].id # step.id
          /\ steps' = Append(steps, step)
    /\ UNCHANGED <<pc, job, lock, output_vars, trips, txn, timer_state, due>>

ClearTimer(t) ==
    /\ pc[t] = "idle"
    /\ Free("timer")
    /\ steps' = <<>>
    /\ timer_state' = "IDLE"
    /\ due' = FALSE
    /\ CallDrive(t, FALSE, "timer_clear")
    /\ UNCHANGED <<lock, output_vars, trips, txn>>

\* timer_svc_toggle_run_pause; a resume after a trip keeps the timer lock
\* while protection_svc_clear_trips takes the protection lock.
ToggleTimer(t) ==
    /\ pc[t] = "idle"
    /\ Free("timer")
    /\ steps # <<>>
    /\ \/ /\ timer_state = "RUNNING"
          /\ timer_state' = "PAUSED"
          /\ due' = FALSE
          /\ UNCHANGED <<pc, lock>>
       \/ /\ timer_state \in {"IDLE", "PAUSED", "OVR"}
          /\ timer_state' = "RUNNING"
          /\ UNCHANGED <<pc, lock, due>>
       \/ /\ timer_state \in {"OVP", "OCP"}
          /\ lock' = Acquired("timer", t)
          /\ Goto(t, "resume")
          /\ UNCHANGED <<timer_state, due>>
    /\ UNCHANGED <<job, output_vars, trips, txn, steps>>

\* Mutant: the latches are cleared without the protection lock.
ResumeUnlocked(t) ==
    /\ pc[t] = "resume"
    /\ trips' = trips \ Ch1Trips
    /\ timer_state' = "RUNNING"
    /\ lock' = Released({"timer"})
    /\ Goto(t, "idle")
    /\ UNCHANGED <<job, output_vars, txn, steps, due>>

ResumeAfterTrip(t) ==
    /\ pc[t] = "resume"
    /\ Free("protection")
    /\ trips' = trips \ Ch1Trips
    /\ timer_state' = "RUNNING"
    /\ lock' = Released({"timer"})
    /\ Goto(t, "idle")
    /\ UNCHANGED <<job, output_vars, txn, steps, due>>

-----------------------------------------------------------------------------
(* Trigger actions: OUT_ON, OUT_OFF, and OUT_TOGGLE, which is one or the   *)
(* other according to an earlier read of the cached state.                 *)

\* Mutant: the latches are not cleared.
TriggerOnKeepsTrips(t) ==
    /\ pc[t] = "idle"
    /\ CallDrive(t, TRUE, "trigger")
    /\ UNCHANGED <<lock, output_vars, trips, txn, timer_vars>>

TriggerOn(t) ==
    /\ pc[t] = "idle"
    /\ Free("protection")
    /\ trips' = trips \ Ch1Trips
    /\ CallDrive(t, TRUE, "trigger")
    /\ UNCHANGED <<lock, output_vars, txn, timer_vars>>

TriggerOff(t) ==
    /\ pc[t] = "idle"
    /\ CallDrive(t, FALSE, "trigger")
    /\ UNCHANGED <<lock, output_vars, trips, txn, timer_vars>>

-----------------------------------------------------------------------------
(* The calibration transaction, as far as protection depends on it.        *)

\* Mutant: the transaction starts without the calibration lock.
StartTxnUnlocked(t) ==
    /\ pc[t] = "idle"
    /\ txn = "IDLE" /\ txn' = "OPEN"
    /\ UNCHANGED <<pc, job, lock, output_vars, trips, timer_vars>>

StartTxn(t) ==
    /\ pc[t] = "idle" /\ Free("calibration")
    /\ txn = "IDLE" /\ txn' = "OPEN"
    /\ UNCHANGED <<pc, job, lock, output_vars, trips, timer_vars>>

AbortTxn(t) ==
    /\ pc[t] = "idle" /\ Free("calibration")
    /\ txn = "OPEN" /\ txn' = "IDLE"
    /\ UNCHANGED <<pc, job, lock, output_vars, trips, timer_vars>>

\* The table is stored with no lock held, in state COMMITTING.
BeginCommit(t) ==
    /\ pc[t] = "idle" /\ Free("calibration")
    /\ txn = "OPEN" /\ txn' = "COMMITTING"
    /\ Goto(t, "storing")
    /\ UNCHANGED <<job, lock, output_vars, trips, timer_vars>>

EndCommit(t) ==
    /\ pc[t] = "storing" /\ Free("calibration")
    /\ txn' \in {"IDLE", "OPEN"}
    /\ Goto(t, "idle")
    /\ UNCHANGED <<job, lock, output_vars, trips, timer_vars>>

-----------------------------------------------------------------------------
Drive(t) == DriveLevel(t) \/ CacheLevel(t) \/ NotifyTimer(t)

Request(t) == RequestOn(t) \/ RequestOff(t)
Interlock(t) == BeginCheck(t) \/ CheckInterlock(t)

Command(t) == ResetProtection(t) \/ AddStep(t) \/ ClearTimer(t)
Calibrate(t) == StartTxn(t) \/ AbortTxn(t) \/ BeginCommit(t) \/ EndCommit(t)
Toggle(t) == ToggleTimer(t) \/ ResumeAfterTrip(t)

Next ==
    \/ \E t \in Tasks : Drive(t)
    \/ \E t \in Requesters : Request(t) \/ Interlock(t)
    \/ \E t \in ScpiTasks : Command(t) \/ Calibrate(t)
    \/ \E t \in ScpiTasks \union TriggerTasks : Toggle(t)
    \/ \E t \in TriggerTasks : TriggerOn(t) \/ TriggerOff(t)
    \/ BeginSample \/ JudgeSample \/ EndSample
    \/ DeadlinePasses \/ ExpireStep

Spec == Init /\ [][Next]_vars

\* What a task that is inside a call does next.  Callers need not call again.
Continue(t) ==
    \/ Drive(t)
    \/ t \in Requesters /\ Interlock(t)
    \/ t \in ScpiTasks /\ EndCommit(t)
    \/ ResumeAfterTrip(t)
    \/ t = Sampler /\ (JudgeSample \/ EndSample)

\* A mutex that keeps being released is given to its highest waiter, and the
\* sampler sleeps between samples: a waiting task gets its turn.
Fairness ==
    /\ \A t \in Tasks : SF_vars(Continue(t))
    /\ WF_vars(ExpireStep)

FairSpec == Spec /\ Fairness

-----------------------------------------------------------------------------
(* Properties.                                                             *)

\* The variables have their types.
TypeOK ==
    /\ pc \in [Tasks -> Points]
    /\ job \in [Tasks -> Job]
    /\ lock \in [Mutexes -> Tasks \union {NoTask}]
    /\ gpio_level \in BOOLEAN
    /\ ch1_enabled \in BOOLEAN
    /\ trips \subseteq Trips
    /\ txn \in {"IDLE", "OPEN", "COMMITTING"}
    /\ steps \in Seq(Step)
    /\ Len(steps) <= MaxSteps
    /\ timer_state \in TimerStates
    /\ due \in BOOLEAN
    /\ raced \in BOOLEAN

\* A protection decision or trip that has begun finds the transaction idle
\* until it ends: "The active snapshot is valid for the entire guarded
\* operation" (measure_svc_coordination.h).
GuardSnapshotHolds == lock["calibration"] # NoTask => txn = "IDLE"

\* A countdown that is running or paused always has a step to count for, and
\* only a running one can be due, whatever the order of add, clear, toggle,
\* expiry and relay changes.
TimerStateMatchesQueue ==
    /\ timer_state # "IDLE" => steps # <<>>
    /\ due => timer_state = "RUNNING"

\* The relay is closed under a CH1 latch only while the trip has yet to write
\* the pin, or when the timer or an enable that was already past its
\* clear_trips wrote the pin after the trip: an enable requested after the
\* trip clears the latch first.
LatchedRelayWasRaced ==
    /\ gpio_level
    /\ trips \intersect Ch1Trips # {}
    /\ pc[Sampler] # "drive"
    => raced

\* The mutex a task waits for at each point.
Wants(t) ==
    CASE pc[t] \in {"check", "storing"} -> {"calibration"}
      [] pc[t] \in {"interlock", "judge", "resume"} -> {"protection"}
      [] pc[t] = "notify" -> {"timer"}
      [] OTHER -> {}

Rank == [calibration |-> 1, protection |-> 2, timer |-> 3]

\* Calibration, then protection, then timer: no task waits against this order
\* except one that resumes a tripped countdown.
LockOrderKept ==
    \A t \in Tasks : \A m, n \in Mutexes :
        lock[m] = t /\ n \in Wants(t) /\ pc[t] # "resume" => Rank[m] < Rank[n]

\* A countdown paused by a trip does not run again before the trip has
\* released the protection lock, however early it is resumed.
TripStaysPaused ==
    [][pc[Sampler] = "release" /\ timer_state \in {"OVP", "OCP"}
        => timer_state' # "RUNNING"]_vars

\* Two tasks, each holding the mutex the other one waits for.
LockCycle ==
    \E t, u \in Tasks : \E m \in Wants(t), n \in Wants(u) :
        lock[m] = u /\ lock[n] = t

\* A lock-out has one shape only: a resume after a trip waits for the latches
\* of a trip that waits to tell the timer.
OnlyResumeLocksOut ==
    LockCycle =>
        /\ pc[Sampler] = "notify"
        /\ \E t \in Tasks : pc[t] = "resume"

\* Wherever the tasks are, the guard of the calibration transaction holds, and
\* the mutexes are taken in their order but for the one lock-out.
LocksAreSound == GuardSnapshotHolds /\ LockOrderKept /\ OnlyResumeLocksOut

\* Every call returns, unless the tasks have locked each other out.
CallsReturn ==
    \A t \in Tasks : pc[t] # "idle" ~> pc[t] = "idle" \/ LockCycle

\* A countdown whose deadline has passed expires or is stopped, even when
\* other tasks have locked each other out: no task holds the timer lock
\* across a call while the countdown runs.
DueStepServed == due ~> ~due

\* What clients and the countdown wait for.
CallsAndStepsAreServed == CallsReturn /\ DueStepServed

-----------------------------------------------------------------------------
(* What the timer promises.                                                *)

\* The level of a step that was popped and not yet written to the pin.
Taken == IF pc[TimerTask] = "drive" THEN {job[TimerTask].on} ELSE {}

\* Clears that have emptied the queue and not yet written the pin.
Opening == {t \in ScpiTasks : pc[t] = "drive" /\ job[t].cause = "timer_clear"}

\* Who switches the relay, but for the timer's task.
Others == Tasks \ {TimerTask}

\* Writes of the pin that they made and the listener has not yet heard of.
Untold ==
    [t \in Others |->
        IF pc[t] \in {"cache", "notify"} /\ job[t].cause \notin TimerCauses
        THEN StatusFromCause(job[t].cause) ELSE "told"]

Queue == INSTANCE StepQueue WITH
    Steps <- Step, Callers <- Others, queue <- steps, state <- timer_state,
    taken <- Taken, opening <- Opening, untold <- Untold, relay <- gpio_level

\* However the requests, triggers and trips of other tasks overlap with it,
\* the timer keeps what StepQueue promises.
ImplementsQueue == Queue!Spec

-----------------------------------------------------------------------------
(* What the documentation promises and the code does not keep.             *)

\* "OVP is always enabled": a sample that is being checked is finished with,
\* so that the next one can be.
SamplerReturns == pc[Sampler] # "idle" ~> pc[Sampler] = "idle"

Quiet == \A t \in Tasks : pc[t] = "idle"

\* "After a protection trip, the switch shows off".
LatchedRelayIsOff == Quiet /\ trips \intersect Ch1Trips # {} => ~gpio_level

\* "OUTP? ... Returns relay output state".
CacheMatchesPin == Quiet => ch1_enabled = gpio_level

\* "Cancels the queue and forces relay off": a clear that has opened the
\* relay is not undone, before it returns, by a step it cancelled.
ClearForcesOff ==
    [][\A t \in ScpiTasks :
        pc[t] = "cache" /\ job[t].cause = "timer_clear" /\ steps = <<>>
            => ~(DriveLevel(TimerTask) /\ job[TimerTask].on)]_vars

\* "Outside a calibration transaction, CH0 OVP is checked before enabling CH1
\* output": only the requests that run the interlock close the relay.
EnableIsChecked ==
    [][\A t \in Tasks :
        DriveLevel(t) /\ job[t].on /\ txn = "IDLE"
            => job[t].cause \in {"scpi", "mqtt"}]_vars
=============================================================================
