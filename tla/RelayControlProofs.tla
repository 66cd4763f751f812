------------------------- MODULE RelayControlProofs -------------------------
(* Theorems about RelayControl, for any set of tasks and any queue length. *)
EXTENDS RelayControl, TLAPS

\* Every step is one of these, by one task.
LEMMA NextCases ==
    ASSUME Next
    PROVE  \/ \E t \in Tasks : DriveLevel(t) \/ CacheLevel(t) \/ NotifyTimer(t)
           \/ \E t \in Requesters : RequestOn(t) \/ RequestOff(t)
                                    \/ BeginCheck(t) \/ CheckInterlock(t)
           \/ \E t \in ScpiTasks : ResetProtection(t) \/ AddStep(t) \/ ClearTimer(t)
           \/ \E t \in ScpiTasks : StartTxn(t) \/ AbortTxn(t)
                                   \/ BeginCommit(t) \/ EndCommit(t)
           \/ \E t \in ScpiTasks \union TriggerTasks :
                  ToggleTimer(t) \/ ResumeAfterTrip(t)
           \/ \E t \in TriggerTasks : TriggerOn(t) \/ TriggerOff(t)
           \/ BeginSample \/ JudgeSample \/ EndSample
           \/ DeadlinePasses \/ ExpireStep
  BY DEF Next, Drive, Request, Interlock, Command, Calibrate, Toggle

-----------------------------------------------------------------------------
\* The bookkeeping of calls keeps pc and job typed.
LEMMA NewJobType ==
    ASSUME NEW on \in BOOLEAN, NEW cause \in Causes
    PROVE  NewJob(on, cause) \in Job
  BY DEF NewJob, Job

LEMMA NoJobType == NoJob \in Job
  BY NewJobType DEF NoJob, Causes

LEMMA GotoType ==
    ASSUME TypeOK, NEW t \in Tasks, NEW point \in Points, Goto(t, point)
    PROVE  pc' \in [Tasks -> Points]
  BY DEF TypeOK, Goto

LEMMA ReturnType ==
    ASSUME TypeOK, NEW t \in Tasks, Return(t)
    PROVE  pc' \in [Tasks -> Points] /\ job' \in [Tasks -> Job]
  BY NoJobType, GotoType DEF TypeOK, Return, Points

LEMMA CallDriveType ==
    ASSUME TypeOK, NEW t \in Tasks, NEW on \in BOOLEAN, NEW cause \in Causes,
           CallDrive(t, on, cause)
    PROVE  pc' \in [Tasks -> Points] /\ job' \in [Tasks -> Job]
  BY NewJobType, GotoType DEF TypeOK, CallDrive, Points

LEMMA AfterDriveType ==
    ASSUME TypeOK, NEW t \in Tasks, AfterDrive(t)
    PROVE  pc' \in [Tasks -> Points] /\ job' \in [Tasks -> Job]
  <1>1. CASE t = Sampler
    BY <1>1, GotoType DEF TypeOK, AfterDrive, Points
  <1>2. CASE t # Sampler
    BY <1>2, ReturnType DEF AfterDrive
  <1>3. QED
    BY <1>1, <1>2

LEMMA CauseOfType ==
    ASSUME NEW t \in Requesters
    PROVE  CauseOf(t) \in Causes /\ t \in Tasks
  BY DEF CauseOf, Causes, Tasks

LEMMA LockTypes ==
    ASSUME TypeOK
    PROVE  /\ \A m \in Mutexes : \A t \in Tasks :
                  Acquired(m, t) \in [Mutexes -> Tasks \union {NoTask}]
           /\ \A ms \in SUBSET Mutexes :
                  Released(ms) \in [Mutexes -> Tasks \union {NoTask}]
  BY DEF TypeOK, Acquired, Released

LEMMA JobOnType == TypeOK => \A t \in Tasks : job[t].on \in BOOLEAN /\ job[t].stale \in BOOLEAN
  BY DEF TypeOK, Job

\* The initial state has the declared types.
LEMMA InitTypeOK == Init => TypeOK
  <1> SUFFICES ASSUME Init PROVE TypeOK
    OBVIOUS
  <1>1. job \in [Tasks -> Job]
    BY NoJobType DEF Init
  <1>2. steps \in Seq(Step) /\ Len(steps) <= MaxSteps
    BY MaxStepsAssumption DEF Init
  <1>3. QED
    BY <1>1, <1>2 DEF Init, TypeOK, Points, TimerStates

\* Every step keeps them.
LEMMA NextTypeOK == TypeOK /\ [Next]_vars => TypeOK'
  <1> SUFFICES ASSUME TypeOK, [Next]_vars PROVE TypeOK'
    OBVIOUS
  <1> USE DEF output_vars, timer_vars
  <1>a. ASSUME NEW t \in ScpiTasks \union TriggerTasks PROVE t \in Tasks
    BY DEF Tasks, Requesters
  <1>b. Sampler \in Tasks /\ TimerTask \in Tasks
    BY DEF Tasks
  <1>c. "timer" \in Mutexes /\ "calibration" \in Mutexes /\ "protection" \in Mutexes
    BY DEF Mutexes
  <1>0. CASE UNCHANGED vars
    BY <1>0 DEF vars, TypeOK
  <1>1. ASSUME NEW t \in Tasks, DriveLevel(t) PROVE TypeOK'
    <2>1. pc' \in [Tasks -> Points]
      BY <1>1, GotoType DEF DriveLevel, Points
    <2>2. QED
      BY <1>1, <2>1, JobOnType DEF DriveLevel, TypeOK
  <1>2. ASSUME NEW t \in Tasks, CacheLevel(t) PROVE TypeOK'
    <2>1. pc' \in [Tasks -> Points] /\ job' \in [Tasks -> Job]
      <3>1. CASE job[t].cause \in TimerCauses
        BY <1>2, <3>1, AfterDriveType DEF CacheLevel
      <3>2. CASE job[t].cause \notin TimerCauses
        BY <1>2, <3>2, GotoType DEF CacheLevel, Points, TypeOK
      <3>3. QED
        BY <3>1, <3>2
    <2>2. QED
      BY <1>2, <2>1, JobOnType DEF CacheLevel, TypeOK
  <1>3. ASSUME NEW t \in Tasks, NotifyTimer(t) PROVE TypeOK'
    <2>1. pc' \in [Tasks -> Points] /\ job' \in [Tasks -> Job]
      BY <1>3, AfterDriveType DEF NotifyTimer
    <2>2. timer_state' \in TimerStates /\ due' \in BOOLEAN
      BY <1>3 DEF NotifyTimer, StatusFromCause, TimerStates, TypeOK
    <2>3. UNCHANGED steps
      BY <1>3 DEF NotifyTimer
    <2>4. QED
      BY <1>3, <2>1, <2>2, <2>3 DEF NotifyTimer, TypeOK
  <1>4. ASSUME NEW t \in Requesters, RequestOn(t) PROVE TypeOK'
    <2>1. pc' \in [Tasks -> Points]
      BY <1>4, CauseOfType, GotoType DEF RequestOn, Points
    <2>2. job' \in [Tasks -> Job]
      BY <1>4, CauseOfType, NewJobType DEF RequestOn, TypeOK
    <2>3. QED
      BY <1>4, <2>1, <2>2 DEF RequestOn, TypeOK
  <1>5. ASSUME NEW t \in Requesters, RequestOff(t) PROVE TypeOK'
    <2>1. pc' \in [Tasks -> Points] /\ job' \in [Tasks -> Job]
      BY <1>5, CauseOfType, CallDriveType DEF RequestOff
    <2>2. QED
      BY <1>5, <2>1 DEF RequestOff, TypeOK
  <1>6. ASSUME NEW t \in Requesters, BeginCheck(t) PROVE TypeOK'
    <2>1. pc' \in [Tasks -> Points]
      BY <1>6, CauseOfType, GotoType DEF BeginCheck, Points
    <2>2. lock' \in [Mutexes -> Tasks \union {NoTask}]
      BY <1>6, <1>c, CauseOfType, LockTypes DEF BeginCheck, TypeOK
    <2>3. QED
      BY <1>6, <2>1, <2>2 DEF BeginCheck, TypeOK
  <1>7. ASSUME NEW t \in Requesters, CheckInterlock(t) PROVE TypeOK'
    <2>1. pc' \in [Tasks -> Points] /\ job' \in [Tasks -> Job]
      BY <1>7, CauseOfType, ReturnType, GotoType DEF CheckInterlock, Points, TypeOK
    <2>2. lock' \in [Mutexes -> Tasks \union {NoTask}]
      BY <1>7, <1>c, LockTypes DEF CheckInterlock
    <2>3. trips' \subseteq Trips
      BY <1>7 DEF CheckInterlock, TypeOK, Trips
    <2>4. QED
      BY <1>7, <2>1, <2>2, <2>3 DEF CheckInterlock, TypeOK
  <1>8. ASSUME NEW t \in ScpiTasks, ResetProtection(t) PROVE TypeOK'
    BY <1>8 DEF ResetProtection, TypeOK
  <1>9. ASSUME NEW t \in ScpiTasks, AddStep(t) PROVE TypeOK'
    <2>1. PICK step \in Step : steps' = Append(steps, step)
      BY <1>9 DEF AddStep
    <2>2. steps' \in Seq(Step) /\ Len(steps') <= MaxSteps
      BY <1>9, <2>1, MaxStepsAssumption DEF AddStep, TypeOK
    <2>3. QED
      BY <1>9, <2>2 DEF AddStep, TypeOK
  <1>10. ASSUME NEW t \in ScpiTasks, ClearTimer(t) PROVE TypeOK'
    <2>1. pc' \in [Tasks -> Points] /\ job' \in [Tasks -> Job]
      BY <1>10, <1>a, CallDriveType DEF ClearTimer, Causes, TimerCauses
    <2>2. steps' \in Seq(Step) /\ Len(steps') <= MaxSteps
      BY <1>10, MaxStepsAssumption DEF ClearTimer
    <2>3. QED
      BY <1>10, <2>1, <2>2 DEF ClearTimer, TimerStates, TypeOK
  <1>11. ASSUME NEW t \in ScpiTasks, StartTxn(t) PROVE TypeOK'
    BY <1>11 DEF StartTxn, TypeOK
  <1>12. ASSUME NEW t \in ScpiTasks, AbortTxn(t) PROVE TypeOK'
    BY <1>12 DEF AbortTxn, TypeOK
  <1>13. ASSUME NEW t \in ScpiTasks, BeginCommit(t) PROVE TypeOK'
    BY <1>13, <1>a, GotoType DEF BeginCommit, TypeOK, Points
  <1>14. ASSUME NEW t \in ScpiTasks, EndCommit(t) PROVE TypeOK'
    BY <1>14, <1>a, GotoType DEF EndCommit, TypeOK, Points
  <1>15. ASSUME NEW t \in ScpiTasks \union TriggerTasks, ToggleTimer(t) PROVE TypeOK'
    <2>1. pc' \in [Tasks -> Points]
      BY <1>15, <1>a, GotoType DEF ToggleTimer, Points, TypeOK
    <2>2. lock' \in [Mutexes -> Tasks \union {NoTask}]
      BY <1>15, <1>a, <1>c, LockTypes DEF ToggleTimer, TypeOK
    <2>3. timer_state' \in TimerStates /\ due' \in BOOLEAN
      BY <1>15 DEF ToggleTimer, TimerStates, TypeOK
    <2>4. QED
      BY <1>15, <2>1, <2>2, <2>3 DEF ToggleTimer, TypeOK
  <1>16. ASSUME NEW t \in ScpiTasks \union TriggerTasks, ResumeAfterTrip(t) PROVE TypeOK'
    <2>1. pc' \in [Tasks -> Points]
      BY <1>16, <1>a, GotoType DEF ResumeAfterTrip, Points
    <2>2. lock' \in [Mutexes -> Tasks \union {NoTask}]
      BY <1>16, <1>c, LockTypes DEF ResumeAfterTrip
    <2>3. QED
      BY <1>16, <2>1, <2>2 DEF ResumeAfterTrip, TimerStates, TypeOK
  <1>17. ASSUME NEW t \in TriggerTasks, TriggerOn(t) PROVE TypeOK'
    BY <1>17, <1>a, CallDriveType DEF TriggerOn, TypeOK, Causes
  <1>18. ASSUME NEW t \in TriggerTasks, TriggerOff(t) PROVE TypeOK'
    BY <1>18, <1>a, CallDriveType DEF TriggerOff, TypeOK, Causes
  <1>19. ASSUME BeginSample PROVE TypeOK'
    BY <1>19, <1>b, <1>c, GotoType, LockTypes DEF BeginSample, TypeOK, Points
  <1>20. ASSUME JudgeSample PROVE TypeOK'
    <2>1. CASE lock' = Released({"calibration"}) /\ Return(Sampler) /\ UNCHANGED trips
      BY <1>20, <2>1, <1>b, <1>c, ReturnType, LockTypes DEF JudgeSample, TypeOK
    <2>2. ASSUME NEW cause \in ProtectionCauses,
                 lock' = Acquired("protection", Sampler),
                 trips' = trips \union {LatchOf(cause)},
                 Goto(Sampler, "drive"),
                 job' = [t \in Tasks |->
                            IF t = Sampler THEN NewJob(FALSE, cause)
                            ELSE [job[t] EXCEPT !.stale = @ \/ Enabling(t)]]
          PROVE  TypeOK'
      <3>1. job' \in [Tasks -> Job]
        <4>1. NewJob(FALSE, cause) \in Job
          BY <2>2, NewJobType DEF Causes
        <4>2. ASSUME NEW t \in Tasks
              PROVE  [job[t] EXCEPT !.stale = @ \/ Enabling(t)] \in Job
          BY DEF TypeOK, Job
        <4>3. QED
          BY <2>2, <4>1, <4>2
      <3>2. lock' \in [Mutexes -> Tasks \union {NoTask}] /\ pc' \in [Tasks -> Points]
        BY <2>2, <1>b, <1>c, GotoType, LockTypes DEF Points
      <3>3. trips' \subseteq Trips
        BY <2>2 DEF LatchOf, Trips, Ch1Trips, TypeOK
      <3>4. QED
        BY <1>20, <3>1, <3>2, <3>3 DEF JudgeSample, TypeOK
    <2>3. QED
      BY <1>20, <2>1, <2>2 DEF JudgeSample
  <1>21. ASSUME EndSample PROVE TypeOK'
    BY <1>21, <1>b, <1>c, ReturnType, LockTypes DEF EndSample, TypeOK
  <1>22. ASSUME DeadlinePasses PROVE TypeOK'
    BY <1>22 DEF DeadlinePasses, TypeOK
  <1>23. ASSUME ExpireStep PROVE TypeOK'
    <2>1. Head(steps) \in Step
      BY <1>23 DEF ExpireStep, TypeOK
    <2>2. Tail(steps) \in Seq(Step) /\ Len(Tail(steps)) <= MaxSteps
      BY <1>23, MaxStepsAssumption DEF ExpireStep, TypeOK
    <2>3. pc' \in [Tasks -> Points] /\ job' \in [Tasks -> Job]
      BY <1>23, <1>b, <2>1, CallDriveType DEF ExpireStep, Step, Causes, TimerCauses
    <2>4. QED
      BY <1>23, <2>2, <2>3 DEF ExpireStep, TimerStates, TypeOK
  <1>24. QED
    BY NextCases, <1>0, <1>1, <1>2, <1>3, <1>4, <1>5, <1>6, <1>7, <1>8, <1>9, <1>10,
       <1>11, <1>12, <1>13, <1>14, <1>15, <1>16, <1>17, <1>18, <1>19, <1>20, <1>21,
       <1>22, <1>23

\* TypeOK holds in every reachable state.
THEOREM TypeCorrect == Spec => []TypeOK
  <1>1. QED
    BY InitTypeOK, NextTypeOK, PTL DEF Spec

-----------------------------------------------------------------------------
(* The inductive invariant.  The safety properties do not follow from their *)
(* own preservation: a step is judged by who holds which mutex, and that by *)
(* where every task is.                                                     *)

\* Who runs what: only the sampler judges samples, only requesters run the
\* interlock, and the sampler never closes the relay.
PlaceInv ==
    /\ ~job[Sampler].on
    /\ pc[Sampler] # "resume"
    /\ \A t \in Tasks :
          /\ pc[t] \in {"judge", "release"} => t = Sampler
          /\ pc[t] \in {"check", "interlock"} => t \in Requesters
          /\ pc[t] = "storing" => t \in ScpiTasks

Tripping == {"drive", "cache", "notify", "release"}

\* Each mutex is held exactly by the task that is where it is held.
LockInv ==
    \A t \in Tasks :
        /\ lock["calibration"] = t <=>
               pc[t] = "interlock" \/ (t = Sampler /\ pc[t] \in Tripping \union {"judge"})
        /\ lock["protection"] = t <=> t = Sampler /\ pc[t] \in Tripping
        /\ lock["timer"] = t <=> pc[t] = "resume"

\* A countdown is resumed after a trip only while it is still tripped.
TimerInv ==
    /\ TimerStateMatchesQueue
    /\ \A t \in Tasks : pc[t] = "resume" => timer_state \in {"OVP", "OCP"}

\* Under a CH1 latch every enable under way began before the trip.
TripInv ==
    trips \intersect Ch1Trips # {} =>
        /\ \A t \in Tasks \ {TimerTask} : Enabling(t) => job[t].stale
        /\ gpio_level /\ pc[Sampler] # "drive" => raced

IInv == TypeOK /\ PlaceInv /\ LockInv /\ GuardSnapshotHolds /\ TimerInv /\ TripInv

-----------------------------------------------------------------------------
\* What the bookkeeping of calls does to each task and each mutex.
LEMMA GotoAt ==
    ASSUME TypeOK, NEW t \in Tasks, NEW point, Goto(t, point)
    PROVE  pc'[t] = point /\ \A u \in Tasks \ {t} : pc'[u] = pc[u]
  BY DEF TypeOK, Goto

LEMMA ReturnAt ==
    ASSUME TypeOK, NEW t \in Tasks, Return(t)
    PROVE  /\ pc'[t] = "idle" /\ ~job'[t].on /\ ~job'[t].stale
           /\ \A u \in Tasks \ {t} : pc'[u] = pc[u] /\ job'[u] = job[u]
  BY GotoAt DEF TypeOK, Return, NoJob, NewJob

LEMMA CallDriveAt ==
    ASSUME TypeOK, NEW t \in Tasks, NEW on, NEW cause, CallDrive(t, on, cause)
    PROVE  /\ pc'[t] = "drive" /\ job'[t].on = on /\ ~job'[t].stale
           /\ \A u \in Tasks \ {t} : pc'[u] = pc[u] /\ job'[u] = job[u]
  BY GotoAt DEF TypeOK, CallDrive, NewJob

LEMMA AfterDriveAt ==
    ASSUME TypeOK, NEW t \in Tasks, AfterDrive(t)
    PROVE  /\ pc'[t] = IF t = Sampler THEN "release" ELSE "idle"
           /\ job'[t].on => t = Sampler /\ job[t].on
           /\ \A u \in Tasks \ {t} : pc'[u] = pc[u] /\ job'[u] = job[u]
  <1>1. CASE t = Sampler
    BY <1>1, GotoAt DEF AfterDrive
  <1>2. CASE t # Sampler
    BY <1>2, ReturnAt DEF AfterDrive
  <1>3. QED
    BY <1>1, <1>2

LEMMA LockAt ==
    ASSUME TypeOK
    PROVE  /\ \A m, n \in Mutexes : \A t \in Tasks :
                  Acquired(m, t)[n] = IF n = m THEN t ELSE lock[n]
           /\ \A ms \in SUBSET Mutexes : \A n \in Mutexes :
                  Released(ms)[n] = IF n \in ms THEN NoTask ELSE lock[n]
  BY DEF TypeOK, Acquired, Released

\* The kinds of tasks are disjoint, and no task is the absence of one.
LEMMA TaskKinds ==
    /\ Sampler \in Tasks /\ TimerTask \in Tasks /\ Sampler # TimerTask
    /\ \A t \in Requesters \union TriggerTasks :
          t \in Tasks /\ t # Sampler /\ t # TimerTask
    /\ ScpiTasks \subseteq Requesters
    /\ NoTask \notin Tasks
  BY TasksAssumption DEF Tasks, Requesters

\* A task other than the sampler that moves between points where it holds no
\* mutex disturbs neither.
LEMMA UnlockedMove ==
    ASSUME TypeOK, PlaceInv, LockInv,
           NEW t \in Tasks \ {Sampler},
           pc[t] \notin {"interlock", "resume"},
           pc'[t] \notin {"interlock", "resume", "judge", "release"},
           pc'[t] = "check" => t \in Requesters,
           pc'[t] = "storing" => t \in ScpiTasks,
           \A u \in Tasks \ {t} : pc'[u] = pc[u],
           job'[Sampler] = job[Sampler],
           UNCHANGED lock
    PROVE  PlaceInv' /\ LockInv'
  <1>1. PlaceInv'
    BY TaskKinds DEF PlaceInv
  <1>2. ASSUME NEW u \in Tasks
        PROVE  /\ lock'["calibration"] = u <=>
                      pc'[u] = "interlock"
                          \/ (u = Sampler /\ pc'[u] \in Tripping \union {"judge"})
               /\ lock'["protection"] = u <=> u = Sampler /\ pc'[u] \in Tripping
               /\ lock'["timer"] = u <=> pc'[u] = "resume"
    <2>1. CASE u = t
      BY <2>1 DEF LockInv
    <2>2. CASE u # t
      BY <2>2 DEF LockInv
    <2>3. QED
      BY <2>1, <2>2
  <1>3. QED
    BY <1>1, <1>2 DEF LockInv

\* Every step keeps tasks and mutexes in step with each other.
LEMMA StepPlaceLock ==
    ASSUME TypeOK, PlaceInv, LockInv, [Next]_vars
    PROVE  PlaceInv' /\ LockInv'
  <1> USE TaskKinds DEF output_vars, timer_vars
  <1>c. "timer" \in Mutexes /\ "calibration" \in Mutexes /\ "protection" \in Mutexes
    BY DEF Mutexes
  <1>0. CASE UNCHANGED vars
    BY <1>0 DEF vars, PlaceInv, LockInv
  <1>1. ASSUME NEW t \in Tasks, DriveLevel(t) PROVE PlaceInv' /\ LockInv'
    BY <1>1, GotoAt DEF DriveLevel, PlaceInv, LockInv, Tripping
  <1>2. ASSUME NEW t \in Tasks, CacheLevel(t) PROVE PlaceInv' /\ LockInv'
    <2>1. CASE job[t].cause \in TimerCauses
      BY <1>2, <2>1, AfterDriveAt DEF CacheLevel, PlaceInv, LockInv, Tripping
    <2>2. CASE job[t].cause \notin TimerCauses
      BY <1>2, <2>2, GotoAt DEF CacheLevel, PlaceInv, LockInv, Tripping
    <2>3. QED
      BY <2>1, <2>2
  <1>3. ASSUME NEW t \in Tasks, NotifyTimer(t) PROVE PlaceInv' /\ LockInv'
    BY <1>3, AfterDriveAt DEF NotifyTimer, PlaceInv, LockInv, Tripping
  <1>4. ASSUME NEW t \in Requesters, RequestOn(t) PROVE PlaceInv' /\ LockInv'
    <2>1. t \in Tasks /\ t # Sampler
      OBVIOUS
    <2>2. job' = [job EXCEPT ![t] = NewJob(TRUE, CauseOf(t))]
          /\ Goto(t, "check") /\ UNCHANGED lock
      BY <1>4 DEF RequestOn
    <2>3. job'[Sampler] = job[Sampler]
      BY <2>1, <2>2 DEF TypeOK
    <2>4. pc[t] = "idle" /\ pc'[t] = "check" /\ \A u \in Tasks \ {t} : pc'[u] = pc[u]
      BY <1>4, <2>1, <2>2, GotoAt DEF RequestOn
    <2>5. QED
      BY <1>4, <2>1, <2>2, <2>3, <2>4, UnlockedMove
  <1>5. ASSUME NEW t \in Requesters, RequestOff(t) PROVE PlaceInv' /\ LockInv'
    BY <1>5, CallDriveAt, UnlockedMove DEF RequestOff
  <1>6. ASSUME NEW t \in Requesters, BeginCheck(t) PROVE PlaceInv' /\ LockInv'
    BY <1>6, <1>c, GotoAt, LockAt DEF BeginCheck, PlaceInv, LockInv, Tripping, Free
  <1>7. ASSUME NEW t \in Requesters, CheckInterlock(t) PROVE PlaceInv' /\ LockInv'
    <2>1. lock'["calibration"] = NoTask
          /\ lock'["protection"] = lock["protection"] /\ lock'["timer"] = lock["timer"]
      BY <1>7, <1>c, LockAt DEF CheckInterlock
    <2>2. \/ pc'[t] = "idle" /\ \A u \in Tasks \ {t} : pc'[u] = pc[u] /\ job'[u] = job[u]
          \/ pc'[t] = "drive" /\ \A u \in Tasks \ {t} : pc'[u] = pc[u] /\ job'[u] = job[u]
      BY <1>7, ReturnAt, GotoAt DEF CheckInterlock
    <2>3. pc[t] = "interlock" /\ t # Sampler /\ t \in Tasks
      BY <1>7 DEF CheckInterlock
    <2>4. job'[Sampler] = job[Sampler]
      BY <2>2, <2>3
    <2>5. PlaceInv'
      BY <2>2, <2>3, <2>4 DEF PlaceInv
    <2>6. LockInv'
      BY <2>1, <2>2, <2>3 DEF LockInv, Tripping
    <2>7. QED
      BY <2>5, <2>6
  <1>8. ASSUME NEW t \in ScpiTasks, ResetProtection(t) PROVE PlaceInv' /\ LockInv'
    BY <1>8 DEF ResetProtection, PlaceInv, LockInv
  <1>9. ASSUME NEW t \in ScpiTasks, AddStep(t) PROVE PlaceInv' /\ LockInv'
    BY <1>9 DEF AddStep, PlaceInv, LockInv
  <1>10. ASSUME NEW t \in ScpiTasks, ClearTimer(t) PROVE PlaceInv' /\ LockInv'
    BY <1>10, CallDriveAt, UnlockedMove DEF ClearTimer
  <1>11. ASSUME NEW t \in ScpiTasks, StartTxn(t) \/ AbortTxn(t) PROVE PlaceInv' /\ LockInv'
    BY <1>11 DEF StartTxn, AbortTxn, PlaceInv, LockInv
  <1>12. ASSUME NEW t \in ScpiTasks, BeginCommit(t) \/ EndCommit(t)
         PROVE  PlaceInv' /\ LockInv'
    <2>1. t \in Tasks /\ t # Sampler
      OBVIOUS
    <2>2. /\ pc[t] \in {"idle", "storing"} /\ pc'[t] \in {"idle", "storing"}
          /\ \A u \in Tasks \ {t} : pc'[u] = pc[u]
          /\ UNCHANGED <<job, lock>>
      BY <1>12, <2>1, GotoAt DEF BeginCommit, EndCommit
    <2>3. QED
      BY <1>12, <2>1, <2>2, UnlockedMove
  <1>13. ASSUME NEW t \in ScpiTasks \union TriggerTasks, ToggleTimer(t)
         PROVE  PlaceInv' /\ LockInv'
    <2>1. CASE UNCHANGED <<pc, lock>>
      BY <1>13, <2>1 DEF ToggleTimer, PlaceInv, LockInv
    <2>2. CASE lock' = Acquired("timer", t) /\ Goto(t, "resume")
      BY <1>13, <2>2, <1>c, GotoAt, LockAt
         DEF ToggleTimer, PlaceInv, LockInv, Tripping, Free
    <2>3. QED
      BY <1>13, <2>1, <2>2 DEF ToggleTimer
  <1>14. ASSUME NEW t \in ScpiTasks \union TriggerTasks, ResumeAfterTrip(t)
         PROVE  PlaceInv' /\ LockInv'
    BY <1>14, <1>c, GotoAt, LockAt DEF ResumeAfterTrip, PlaceInv, LockInv, Tripping
  <1>15. ASSUME NEW t \in TriggerTasks, TriggerOn(t) \/ TriggerOff(t)
         PROVE  PlaceInv' /\ LockInv'
    BY <1>15, CallDriveAt, UnlockedMove DEF TriggerOn, TriggerOff
  <1>16. ASSUME BeginSample PROVE PlaceInv' /\ LockInv'
    BY <1>16, <1>c, GotoAt, LockAt DEF BeginSample, PlaceInv, LockInv, Tripping, Free
  <1>17. ASSUME JudgeSample PROVE PlaceInv' /\ LockInv'
    <2>1. CASE lock' = Released({"calibration"}) /\ Return(Sampler)
      BY <1>17, <2>1, <1>c, ReturnAt, LockAt
         DEF JudgeSample, PlaceInv, LockInv, Tripping, Free
    <2>2. CASE /\ lock' = Acquired("protection", Sampler)
               /\ Goto(Sampler, "drive")
               /\ ~job'[Sampler].on
      BY <1>17, <2>2, <1>c, GotoAt, LockAt
         DEF JudgeSample, PlaceInv, LockInv, Tripping, Free
    <2>3. QED
      BY <1>17, <2>1, <2>2 DEF JudgeSample, NewJob
  <1>18. ASSUME EndSample PROVE PlaceInv' /\ LockInv'
    BY <1>18, <1>c, ReturnAt, LockAt DEF EndSample, PlaceInv, LockInv, Tripping
  <1>19. ASSUME DeadlinePasses PROVE PlaceInv' /\ LockInv'
    BY <1>19 DEF DeadlinePasses, PlaceInv, LockInv
  <1>20. ASSUME ExpireStep PROVE PlaceInv' /\ LockInv'
    <2>1. TimerTask \in Tasks \ {Sampler}
      OBVIOUS
    <2>2. pc[TimerTask] = "idle" /\ pc'[TimerTask] = "drive" /\ UNCHANGED lock
          /\ \A u \in Tasks \ {TimerTask} : pc'[u] = pc[u] /\ job'[u] = job[u]
      BY <1>20, CallDriveAt DEF ExpireStep
    <2>3. QED
      BY <2>1, <2>2, UnlockedMove
  <1>21. QED
    BY NextCases, <1>0, <1>1, <1>2, <1>3, <1>4, <1>5, <1>6, <1>7, <1>8, <1>9, <1>10,
       <1>11, <1>12, <1>13, <1>14, <1>15, <1>16, <1>17, <1>18, <1>19, <1>20

-----------------------------------------------------------------------------
\* A guard is taken only while the transaction is idle, and a transaction
\* starts only while no guard is held.
LEMMA StepGuard ==
    ASSUME TypeOK, GuardSnapshotHolds, [Next]_vars
    PROVE  GuardSnapshotHolds'
  <1> USE DEF GuardSnapshotHolds, output_vars, timer_vars
  <1>c. "timer" \in Mutexes /\ "calibration" \in Mutexes /\ "protection" \in Mutexes
    BY DEF Mutexes
  <1>1. CASE UNCHANGED <<lock, txn>>
    BY <1>1
  <1>2. ASSUME UNCHANGED txn, lock'["calibration"] \in {lock["calibration"], NoTask}
        PROVE  GuardSnapshotHolds'
    BY <1>2
  <1>3. ASSUME NEW t \in Requesters, BeginCheck(t) PROVE GuardSnapshotHolds'
    BY <1>3 DEF BeginCheck
  <1>4. ASSUME NEW t \in Requesters, CheckInterlock(t) PROVE GuardSnapshotHolds'
    BY <1>4, <1>c, <1>2, LockAt DEF CheckInterlock
  <1>5. ASSUME NEW t \in ScpiTasks,
               StartTxn(t) \/ AbortTxn(t) \/ BeginCommit(t) \/ EndCommit(t)
        PROVE  GuardSnapshotHolds'
    BY <1>5 DEF StartTxn, AbortTxn, BeginCommit, EndCommit, Free
  <1>6. ASSUME NEW t \in ScpiTasks \union TriggerTasks, ToggleTimer(t)
        PROVE  GuardSnapshotHolds'
    <2>1. t \in Tasks
      BY <1>6, TaskKinds
    <2>2. lock'["calibration"] = lock["calibration"] /\ UNCHANGED txn
      BY <1>6, <1>c, <2>1, LockAt DEF ToggleTimer
    <2>3. QED
      BY <2>2
  <1>7. ASSUME NEW t \in ScpiTasks \union TriggerTasks, ResumeAfterTrip(t)
        PROVE  GuardSnapshotHolds'
    BY <1>7, <1>c, <1>2, LockAt DEF ResumeAfterTrip
  <1>8. ASSUME BeginSample PROVE GuardSnapshotHolds'
    BY <1>8 DEF BeginSample
  <1>9. ASSUME JudgeSample PROVE GuardSnapshotHolds'
    <2>1. UNCHANGED txn
      BY <1>9 DEF JudgeSample
    <2>2. CASE lock' = Released({"calibration"})
      BY <2>1, <2>2, <1>c, <1>2, LockAt
    <2>3. CASE lock' = Acquired("protection", Sampler)
      BY <2>1, <2>3, <1>c, <1>2, LockAt, TaskKinds
    <2>4. QED
      BY <1>9, <2>2, <2>3 DEF JudgeSample
  <1>10. ASSUME EndSample PROVE GuardSnapshotHolds'
    BY <1>10, <1>c, <1>2, LockAt DEF EndSample
  <1>11. ASSUME NEW t \in Tasks, DriveLevel(t) \/ CacheLevel(t) \/ NotifyTimer(t)
         PROVE  GuardSnapshotHolds'
    BY <1>11, <1>1 DEF DriveLevel, CacheLevel, NotifyTimer
  <1>12. ASSUME NEW t \in Requesters, RequestOn(t) \/ RequestOff(t)
         PROVE  GuardSnapshotHolds'
    BY <1>12, <1>1 DEF RequestOn, RequestOff
  <1>13. ASSUME NEW t \in ScpiTasks, ResetProtection(t) \/ AddStep(t) \/ ClearTimer(t)
         PROVE  GuardSnapshotHolds'
    BY <1>13, <1>1 DEF ResetProtection, AddStep, ClearTimer
  <1>14. ASSUME NEW t \in TriggerTasks, TriggerOn(t) \/ TriggerOff(t)
         PROVE  GuardSnapshotHolds'
    BY <1>14, <1>1 DEF TriggerOn, TriggerOff
  <1>15. CASE DeadlinePasses \/ ExpireStep \/ UNCHANGED vars
    BY <1>15, <1>1 DEF DeadlinePasses, ExpireStep, vars
  <1>16. QED
    BY NextCases, <1>3, <1>4, <1>5, <1>6, <1>7, <1>8, <1>9, <1>10, <1>11, <1>12,
       <1>13, <1>14, <1>15

-----------------------------------------------------------------------------
\* A step that leaves the timer alone, and resumes nothing, keeps its
\* invariant.
LEMMA TimerUntouched ==
    ASSUME TimerInv, UNCHANGED timer_vars,
           \A t \in Tasks : pc'[t] = "resume" => pc[t] = "resume"
    PROVE  TimerInv'
  BY DEF TimerInv, TimerStateMatchesQueue, timer_vars

\* While the timer lock is free nobody is resuming, so a step may change the
\* state of the countdown.
LEMMA NobodyResumes ==
    ASSUME LockInv, Free("timer")
    PROVE  \A t \in Tasks : pc[t] # "resume"
  BY TaskKinds DEF LockInv, Free

\* Only ToggleTimer enters the point of resuming.
LEMMA NoNewResume ==
    ASSUME TypeOK, NEW t \in Tasks, NEW point, point # "resume",
           Goto(t, point)
    PROVE  \A u \in Tasks : pc'[u] = "resume" => pc[u] = "resume"
  BY GotoAt

LEMMA StepTimer ==
    ASSUME TypeOK, LockInv, TimerInv, [Next]_vars
    PROVE  TimerInv'
  <1> USE TaskKinds
  <1>1. ASSUME NEW t \in Tasks, DriveLevel(t) PROVE TimerInv'
    BY <1>1, NoNewResume, TimerUntouched DEF DriveLevel
  <1>2. ASSUME NEW t \in Tasks, CacheLevel(t) PROVE TimerInv'
    BY <1>2, NoNewResume, TimerUntouched DEF CacheLevel, AfterDrive, Return
  <1>3. ASSUME NEW t \in Tasks, NotifyTimer(t) PROVE TimerInv'
    <2>1. \A u \in Tasks : pc'[u] # "resume"
      BY <1>3, NobodyResumes, NoNewResume DEF NotifyTimer, AfterDrive, Return
    <2>2. \/ steps # <<>> /\ due' = FALSE /\ UNCHANGED steps
          \/ UNCHANGED timer_vars
      BY <1>3 DEF NotifyTimer
    <2>3. QED
      BY <2>1, <2>2 DEF TimerInv, TimerStateMatchesQueue, timer_vars
  <1>4. ASSUME NEW t \in Requesters, RequestOn(t) \/ RequestOff(t) PROVE TimerInv'
    BY <1>4, NoNewResume, TimerUntouched DEF RequestOn, RequestOff, CallDrive
  <1>5. ASSUME NEW t \in Requesters, BeginCheck(t) PROVE TimerInv'
    BY <1>5, NoNewResume, TimerUntouched DEF BeginCheck
  <1>6. ASSUME NEW t \in Requesters, CheckInterlock(t) PROVE TimerInv'
    <2>1. Goto(t, "idle") \/ Goto(t, "drive")
      BY <1>6 DEF CheckInterlock, Return
    <2>2. QED
      BY <1>6, <2>1, NoNewResume, TimerUntouched DEF CheckInterlock
  <1>7. ASSUME NEW t \in ScpiTasks, ResetProtection(t) PROVE TimerInv'
    BY <1>7, TimerUntouched DEF ResetProtection
  <1>8. ASSUME NEW t \in ScpiTasks, AddStep(t) PROVE TimerInv'
    <2>1. PICK step \in Step : steps' = Append(steps, step)
      BY <1>8 DEF AddStep
    <2>2. steps' # <<>>
      BY <2>1 DEF TypeOK
    <2>3. QED
      BY <1>8, <2>2 DEF AddStep, TimerInv, TimerStateMatchesQueue
  <1>9. ASSUME NEW t \in ScpiTasks, ClearTimer(t) PROVE TimerInv'
    <2>1. \A u \in Tasks : pc'[u] # "resume"
      BY <1>9, NobodyResumes, NoNewResume DEF ClearTimer, CallDrive
    <2>2. QED
      BY <1>9, <2>1 DEF ClearTimer, TimerInv, TimerStateMatchesQueue
  <1>10. ASSUME NEW t \in ScpiTasks, StartTxn(t) \/ AbortTxn(t) PROVE TimerInv'
    BY <1>10, TimerUntouched DEF StartTxn, AbortTxn
  <1>11. ASSUME NEW t \in ScpiTasks, BeginCommit(t) \/ EndCommit(t) PROVE TimerInv'
    BY <1>11, NoNewResume, TimerUntouched DEF BeginCommit, EndCommit
  <1>12. ASSUME NEW t \in ScpiTasks \union TriggerTasks, ToggleTimer(t) PROVE TimerInv'
    <2>1. \A u \in Tasks : pc[u] # "resume"
      BY <1>12, NobodyResumes DEF ToggleTimer
    <2>2. CASE UNCHANGED pc
      BY <1>12, <2>1, <2>2 DEF ToggleTimer, TimerInv, TimerStateMatchesQueue
    <2>3. CASE timer_state \in {"OVP", "OCP"} /\ UNCHANGED <<timer_state, due>>
      BY <1>12, <2>3 DEF ToggleTimer, TimerInv, TimerStateMatchesQueue
    <2>4. QED
      BY <1>12, <2>2, <2>3 DEF ToggleTimer
  <1>13. ASSUME NEW t \in ScpiTasks \union TriggerTasks, ResumeAfterTrip(t)
         PROVE  TimerInv'
    <2>1. steps # <<>> /\ steps' = steps /\ timer_state' = "RUNNING"
      BY <1>13 DEF ResumeAfterTrip, TimerInv, TimerStateMatchesQueue
    <2>2. ASSUME NEW u \in Tasks \ {t} PROVE pc[u] # "resume"
      BY <1>13, <2>2 DEF ResumeAfterTrip, LockInv
    <2>3. \A u \in Tasks : pc'[u] # "resume"
      BY <1>13, <2>2, GotoAt DEF ResumeAfterTrip
    <2>4. QED
      BY <1>13, <2>1, <2>3 DEF TimerInv, TimerStateMatchesQueue
  <1>14. ASSUME NEW t \in TriggerTasks, TriggerOn(t) \/ TriggerOff(t) PROVE TimerInv'
    BY <1>14, NoNewResume, TimerUntouched DEF TriggerOn, TriggerOff, CallDrive
  <1>15. CASE BeginSample \/ EndSample
    BY <1>15, NoNewResume, TimerUntouched DEF BeginSample, EndSample, Return
  <1>16. CASE JudgeSample
    <2>1. Goto(Sampler, "idle") \/ Goto(Sampler, "drive")
      BY <1>16 DEF JudgeSample, Return
    <2>2. QED
      BY <1>16, <2>1, NoNewResume, TimerUntouched DEF JudgeSample
  <1>17. CASE DeadlinePasses
    BY <1>17 DEF DeadlinePasses, TimerInv, TimerStateMatchesQueue
  <1>18. CASE ExpireStep
    <2>1. \A u \in Tasks : pc'[u] # "resume"
      BY <1>18, NobodyResumes, NoNewResume DEF ExpireStep, CallDrive
    <2>2. steps' = Tail(steps) /\ due' = FALSE
          /\ timer_state' = IF steps' = <<>> THEN "IDLE" ELSE "RUNNING"
      BY <1>18 DEF ExpireStep
    <2>3. QED
      BY <2>1, <2>2 DEF TimerInv, TimerStateMatchesQueue
  <1>19. CASE UNCHANGED vars
    BY <1>19, TimerUntouched DEF vars
  <1>20. QED
    BY NextCases, <1>1, <1>2, <1>3, <1>4, <1>5, <1>6, <1>7, <1>8, <1>9, <1>10, <1>11,
       <1>12, <1>13, <1>14, <1>15, <1>16, <1>17, <1>18, <1>19

-----------------------------------------------------------------------------
\* A step that sets no CH1 latch, writes no pin and starts no enable keeps
\* what is known of the enables under way.
LEMMA TripUntouched ==
    ASSUME TripInv, trips' \intersect Ch1Trips \subseteq trips,
           UNCHANGED <<gpio_level, raced>>,
           pc[Sampler] = "drive" => pc'[Sampler] = "drive",
           \A t \in Tasks \ {TimerTask} :
               Enabling(t)' => Enabling(t) /\ (job[t].stale => job'[t].stale)
    PROVE  TripInv'
  <1> SUFFICES ASSUME trips' \intersect Ch1Trips # {}
               PROVE  /\ \A t \in Tasks \ {TimerTask} : Enabling(t)' => job'[t].stale
                      /\ gpio_level' /\ pc'[Sampler] # "drive" => raced'
    BY DEF TripInv
  <1>1. trips \intersect Ch1Trips # {}
    OBVIOUS
  <1>2. QED
    BY <1>1 DEF TripInv

\* While no CH1 latch is set there is nothing to keep.
LEMMA TripsCleared ==
    ASSUME trips' \intersect Ch1Trips = {} PROVE TripInv'
  BY DEF TripInv

LEMMA StepTrip ==
    ASSUME TypeOK, PlaceInv, LockInv, TripInv, [Next]_vars
    PROVE  TripInv'
  <1> USE TaskKinds DEF output_vars, timer_vars
  <1>1. ASSUME NEW t \in Tasks, DriveLevel(t) PROVE TripInv'
    <2>1. /\ gpio_level' = job[t].on /\ raced' = (t = TimerTask \/ job[t].stale)
          /\ UNCHANGED <<job, trips>> /\ pc[t] = "drive" /\ pc'[t] = "cache"
          /\ \A u \in Tasks \ {t} : pc'[u] = pc[u]
      BY <1>1, GotoAt DEF DriveLevel
    <2>2. \A u \in Tasks : Enabling(u)' => Enabling(u)
      BY <2>1 DEF Enabling
    <2>3. ASSUME trips \intersect Ch1Trips # {}, gpio_level' PROVE raced'
      BY <2>1, <2>3 DEF TripInv, Enabling
    <2>4. QED
      BY <2>1, <2>2, <2>3 DEF TripInv
  <1>2. ASSUME NEW t \in Tasks, CacheLevel(t) PROVE TripInv'
    <2>1. /\ UNCHANGED <<gpio_level, raced, trips>> /\ pc[t] = "cache"
          /\ pc'[t] \in {"release", "idle", "notify"}
          /\ \A u \in Tasks \ {t} : pc'[u] = pc[u] /\ job'[u] = job[u]
      <3>1. CASE job[t].cause \in TimerCauses
        BY <1>2, <3>1, AfterDriveAt DEF CacheLevel
      <3>2. CASE job[t].cause \notin TimerCauses
        BY <1>2, <3>2, GotoAt DEF CacheLevel
      <3>3. QED
        BY <3>1, <3>2
    <2>2. QED
      BY <2>1, TripUntouched DEF Enabling
  <1>3. ASSUME NEW t \in Tasks, NotifyTimer(t) PROVE TripInv'
    <2>1. /\ UNCHANGED <<gpio_level, raced, trips>> /\ pc[t] = "notify"
          /\ pc'[t] \in {"release", "idle"}
          /\ \A u \in Tasks \ {t} : pc'[u] = pc[u] /\ job'[u] = job[u]
      BY <1>3, AfterDriveAt DEF NotifyTimer
    <2>2. QED
      BY <2>1, TripUntouched DEF Enabling
  <1>4. ASSUME NEW t \in Requesters, RequestOn(t) PROVE TripInv'
    BY <1>4, TripsCleared DEF RequestOn
  <1>5. ASSUME NEW t \in Tasks, NEW cause, CallDrive(t, FALSE, cause), t # Sampler,
               UNCHANGED <<gpio_level, raced, trips>>, pc[t] = "idle"
        PROVE  TripInv'
    BY <1>5, CallDriveAt, TripUntouched DEF Enabling
  <1>6. ASSUME NEW t \in Requesters, RequestOff(t) PROVE TripInv'
    BY <1>6, <1>5 DEF RequestOff
  <1>7. ASSUME NEW t \in Requesters, BeginCheck(t) PROVE TripInv'
    <2>1. /\ UNCHANGED <<gpio_level, raced, trips, job>> /\ pc[t] = "check"
          /\ t \in Tasks /\ t # Sampler
          /\ \A u \in Tasks \ {t} : pc'[u] = pc[u]
      BY <1>7, GotoAt DEF BeginCheck
    <2>2. QED
      BY <2>1, TripUntouched DEF Enabling
  <1>8. ASSUME NEW t \in Requesters, CheckInterlock(t) PROVE TripInv'
    <2>1. UNCHANGED <<gpio_level, raced>> /\ pc[t] = "interlock" /\ t # Sampler
      BY <1>8 DEF CheckInterlock
    <2>2. trips' \intersect Ch1Trips \subseteq trips
      BY <1>8 DEF CheckInterlock, Ch1Trips
    <2>3. \A u \in Tasks \ {t} : pc'[u] = pc[u] /\ job'[u] = job[u]
      BY <1>8, ReturnAt, GotoAt DEF CheckInterlock
    <2>4. Enabling(t)' => Enabling(t) /\ job'[t] = job[t]
      <3>1. CASE Return(t)
        BY <3>1, ReturnAt DEF Enabling
      <3>2. CASE UNCHANGED job
        BY <2>1, <3>2 DEF Enabling
      <3>3. QED
        BY <1>8, <3>1, <3>2 DEF CheckInterlock
    <2>5. QED
      BY <2>1, <2>2, <2>3, <2>4, TripUntouched DEF Enabling
  <1>9. ASSUME NEW t \in ScpiTasks, ResetProtection(t) PROVE TripInv'
    BY <1>9, TripUntouched DEF ResetProtection, Enabling
  <1>10. ASSUME UNCHANGED <<gpio_level, raced, trips, pc, job>> PROVE TripInv'
    BY <1>10 DEF TripInv, Enabling
  <1>11. ASSUME NEW t \in ScpiTasks, AddStep(t) \/ StartTxn(t) \/ AbortTxn(t)
         PROVE  TripInv'
    BY <1>11, <1>10 DEF AddStep, StartTxn, AbortTxn
  <1>12. ASSUME NEW t \in ScpiTasks, ClearTimer(t) PROVE TripInv'
    BY <1>12, <1>5 DEF ClearTimer
  <1>13. ASSUME NEW t \in Tasks, NEW point \in {"idle", "storing", "resume", "judge"},
                Goto(t, point), pc[t] # "drive",
                UNCHANGED <<gpio_level, raced, trips, job>>
         PROVE  TripInv'
    <2>1. pc'[t] = point /\ \A u \in Tasks \ {t} : pc'[u] = pc[u]
      BY <1>13, GotoAt
    <2>2. QED
      BY <1>13, <2>1, TripUntouched DEF Enabling
  <1>14. ASSUME NEW t \in ScpiTasks, BeginCommit(t) \/ EndCommit(t) PROVE TripInv'
    BY <1>14, <1>13 DEF BeginCommit, EndCommit
  <1>15. ASSUME NEW t \in ScpiTasks \union TriggerTasks, ToggleTimer(t) PROVE TripInv'
    BY <1>15, <1>10, <1>13 DEF ToggleTimer
  <1>16. ASSUME NEW t \in ScpiTasks \union TriggerTasks, ResumeAfterTrip(t)
         PROVE  TripInv'
    BY <1>16, TripsCleared DEF ResumeAfterTrip
  <1>17. ASSUME NEW t \in TriggerTasks, TriggerOn(t) PROVE TripInv'
    BY <1>17, TripsCleared DEF TriggerOn
  <1>18. ASSUME NEW t \in TriggerTasks, TriggerOff(t) PROVE TripInv'
    BY <1>18, <1>5 DEF TriggerOff
  <1>19. CASE BeginSample
    BY <1>19, <1>13 DEF BeginSample
  <1>20. CASE JudgeSample
    <2>1. CASE Return(Sampler) /\ UNCHANGED trips
      <3>1. pc[Sampler] = "judge" /\ UNCHANGED <<gpio_level, raced>>
        BY <1>20 DEF JudgeSample
      <3>2. QED
        BY <2>1, <3>1, ReturnAt, TripUntouched DEF Enabling
    <2>2. ASSUME NEW cause \in ProtectionCauses, Goto(Sampler, "drive"),
                 job' = [t \in Tasks |->
                            IF t = Sampler THEN NewJob(FALSE, cause)
                            ELSE [job[t] EXCEPT !.stale = @ \/ Enabling(t)]]
          PROVE  TripInv'
      <3>1. pc'[Sampler] = "drive" /\ ~job'[Sampler].on
            /\ \A u \in Tasks \ {Sampler} : pc'[u] = pc[u]
        BY <2>2, GotoAt DEF NewJob
      <3>2. ASSUME NEW u \in Tasks \ {Sampler}
            PROVE  job'[u].on = job[u].on /\ (Enabling(u) => job'[u].stale)
        <4>1. job'[u] = [job[u] EXCEPT !.stale = @ \/ Enabling(u)] /\ job[u] \in Job
          BY <2>2 DEF TypeOK
        <4>2. QED
          BY <4>1 DEF Job
      <3>3. QED
        BY <3>1, <3>2 DEF TripInv, Enabling
    <2>3. QED
      BY <1>20, <2>1, <2>2 DEF JudgeSample
  <1>21. CASE EndSample
    BY <1>21, ReturnAt, TripUntouched DEF EndSample, Enabling
  <1>22. CASE DeadlinePasses \/ UNCHANGED vars
    BY <1>22, <1>10 DEF DeadlinePasses, vars
  <1>23. CASE ExpireStep
    <2>1. UNCHANGED <<gpio_level, raced, trips>>
          /\ \A u \in Tasks \ {TimerTask} : pc'[u] = pc[u] /\ job'[u] = job[u]
      BY <1>23, CallDriveAt DEF ExpireStep
    <2>2. QED
      BY <2>1, TripUntouched DEF Enabling
  <1>24. QED
    BY NextCases, <1>1, <1>2, <1>3, <1>4, <1>6, <1>7, <1>8, <1>9, <1>11, <1>12, <1>14,
       <1>15, <1>16, <1>17, <1>18, <1>19, <1>20, <1>21, <1>22, <1>23

-----------------------------------------------------------------------------
\* The invariant holds at first: nothing is held, latched or under way.
LEMMA InitIInv == Init => IInv
  <1> SUFFICES ASSUME Init PROVE IInv
    OBVIOUS
  <1>1. TypeOK
    BY InitTypeOK
  <1>2. PlaceInv /\ LockInv
    BY TaskKinds DEF Init, PlaceInv, LockInv, NoJob, NewJob, Tripping, Mutexes
  <1>3. GuardSnapshotHolds /\ TimerInv /\ TripInv
    BY DEF Init, GuardSnapshotHolds, TimerInv, TimerStateMatchesQueue, TripInv
  <1>4. QED
    BY <1>1, <1>2, <1>3 DEF IInv

\* Every step keeps it.
LEMMA NextIInv == IInv /\ [Next]_vars => IInv'
  BY NextTypeOK, StepPlaceLock, StepGuard, StepTimer, StepTrip DEF IInv

\* IInv holds in every reachable state.
THEOREM InvariantCorrect == Spec => []IInv
  BY InitIInv, NextIInv, PTL DEF Spec

\* A guarded decision finds the calibration transaction idle until it ends.
THEOREM GuardCorrect == Spec => []GuardSnapshotHolds
  <1>1. IInv => GuardSnapshotHolds
    BY DEF IInv
  <1>2. QED
    BY <1>1, InvariantCorrect, PTL

\* The state of the timer always fits its queue.
THEOREM TimerCorrect == Spec => []TimerStateMatchesQueue
  <1>1. IInv => TimerStateMatchesQueue
    BY DEF IInv, TimerInv
  <1>2. QED
    BY <1>1, InvariantCorrect, PTL

\* A relay that stays closed under a CH1 latch was closed by the timer or by
\* an enable that the trip overtook.
THEOREM LatchCorrect == Spec => []LatchedRelayWasRaced
  <1>1. IInv => LatchedRelayWasRaced
    BY DEF IInv, TripInv, LatchedRelayWasRaced
  <1>2. QED
    BY <1>1, InvariantCorrect, PTL

\* What a task waits for comes after all that it holds, unless it resumes.
LEMMA OrderKept == IInv => LockOrderKept
  <1> SUFFICES ASSUME IInv, NEW t \in Tasks, NEW m \in Mutexes, NEW n \in Mutexes,
                      lock[m] = t, n \in Wants(t), pc[t] # "resume"
               PROVE  Rank[m] < Rank[n]
    BY DEF LockOrderKept
  <1>1. m # "timer"
    BY DEF IInv, LockInv
  <1>2. m = "calibration" => pc[t] \in {"interlock", "judge"} \union Tripping
    BY DEF IInv, LockInv
  <1>3. m = "protection" => pc[t] \in Tripping
    BY DEF IInv, LockInv
  <1>4. \/ m = "calibration" /\ n \in {"protection", "timer"}
        \/ m = "protection" /\ n = "timer"
    BY <1>1, <1>2, <1>3 DEF Wants, Tripping, Mutexes
  <1>5. QED
    BY <1>4 DEF Rank

\* Mutexes are taken in the order calibration, protection, timer, except by a
\* task that resumes a tripped countdown.
THEOREM LockOrderCorrect == Spec => []LockOrderKept
  BY OrderKept, InvariantCorrect, PTL

\* A lock-out needs a task that resumes and a trip that tells the timer.
LEMMA OneLockOut == IInv => OnlyResumeLocksOut
  <1> SUFFICES ASSUME IInv, NEW t \in Tasks, NEW u \in Tasks,
                      NEW m \in Wants(t), NEW n \in Wants(u), lock[m] = u, lock[n] = t
               PROVE  pc[Sampler] = "notify" /\ \E v \in Tasks : pc[v] = "resume"
    BY DEF OnlyResumeLocksOut, LockCycle
  <1>1. m \in Mutexes /\ n \in Mutexes
    BY DEF Wants, Mutexes
  <1>2. pc[t] = "resume" \/ pc[u] = "resume"
    <2>1. pc[t] # "resume" => Rank[n] < Rank[m]
      BY <1>1, OrderKept DEF LockOrderKept
    <2>2. pc[u] # "resume" => Rank[m] < Rank[n]
      BY <1>1, OrderKept DEF LockOrderKept
    <2>3. Rank[m] \in Int /\ Rank[n] \in Int
      BY <1>1 DEF Rank, Mutexes
    <2>4. QED
      BY <2>1, <2>2, <2>3
  <1>3. ASSUME NEW v \in Tasks, NEW w \in Tasks, NEW k \in Wants(v), lock[k] = w,
               pc[v] = "resume", Wants(w) # {}
        PROVE  pc[Sampler] = "notify"
    <2>1. k = "protection"
      BY <1>3 DEF Wants
    <2>2. w = Sampler /\ pc[w] \in Tripping
      BY <1>3, <2>1 DEF IInv, LockInv
    <2>3. QED
      BY <1>3, <2>2 DEF Wants, Tripping
  <1>4. QED
    BY <1>2, <1>3

\* Calls wait for each other in one way only, whatever the tasks: a resume has
\* the timer lock and waits for the latches of a trip that has them and waits
\* to tell the timer.
THEOREM LockOutCorrect == Spec => []OnlyResumeLocksOut
  BY OneLockOut, InvariantCorrect, PTL

\* The guard and the order of the mutexes, wherever the tasks are.
THEOREM LocksCorrect == Spec => []LocksAreSound
  <1>1. IInv => LocksAreSound
    BY OrderKept, OneLockOut DEF IInv, LocksAreSound
  <1>2. QED
    BY <1>1, InvariantCorrect, PTL

\* No step resumes a countdown that a trip has paused until the trip has
\* released the protection lock.
THEOREM PauseCorrect == Spec => TripStaysPaused
  <1>1. ASSUME IInv, [Next]_vars,
               pc[Sampler] = "release", timer_state \in {"OVP", "OCP"}
        PROVE  timer_state' # "RUNNING"
    <2>1. lock["protection"] # NoTask
      BY <1>1, TaskKinds DEF IInv, LockInv, Tripping
    <2>2. CASE UNCHANGED timer_state
      BY <1>1, <2>2
    <2>3. ASSUME NEW t \in Tasks, NotifyTimer(t) PROVE timer_state' # "RUNNING"
      BY <1>1, <2>3 DEF NotifyTimer, StatusFromCause, timer_vars
    <2>4. ASSUME NEW t \in ScpiTasks \union TriggerTasks, ResumeAfterTrip(t) PROVE FALSE
      BY <2>1, <2>4 DEF ResumeAfterTrip, Free
    <2>5. ASSUME NEW t \in ScpiTasks \union TriggerTasks, ToggleTimer(t)
          PROVE  timer_state' # "RUNNING"
      BY <1>1, <2>5 DEF ToggleTimer
    <2>6. ASSUME NEW t \in ScpiTasks, ClearTimer(t) PROVE timer_state' # "RUNNING"
      BY <2>6 DEF ClearTimer
    <2>7. CASE ExpireStep
      BY <1>1, <2>7 DEF ExpireStep
    <2>8. ASSUME NEW t \in Tasks, DriveLevel(t) \/ CacheLevel(t) PROVE UNCHANGED timer_state
      BY <2>8 DEF DriveLevel, CacheLevel, timer_vars
    <2>9. ASSUME NEW t \in Requesters,
                 RequestOn(t) \/ RequestOff(t) \/ BeginCheck(t) \/ CheckInterlock(t)
          PROVE  UNCHANGED timer_state
      BY <2>9 DEF RequestOn, RequestOff, BeginCheck, CheckInterlock, timer_vars
    <2>10. ASSUME NEW t \in ScpiTasks,
                  \/ ResetProtection(t) \/ AddStep(t) \/ StartTxn(t) \/ AbortTxn(t)
                  \/ BeginCommit(t) \/ EndCommit(t)
           PROVE  UNCHANGED timer_state
      BY <2>10 DEF ResetProtection, AddStep, StartTxn, AbortTxn, BeginCommit,
                   EndCommit, timer_vars
    <2>11. ASSUME NEW t \in TriggerTasks, TriggerOn(t) \/ TriggerOff(t)
           PROVE  UNCHANGED timer_state
      BY <2>11 DEF TriggerOn, TriggerOff, timer_vars
    <2>12. CASE \/ BeginSample \/ JudgeSample \/ EndSample \/ DeadlinePasses
                \/ UNCHANGED vars
      BY <2>2, <2>12 DEF BeginSample, JudgeSample, EndSample, DeadlinePasses, vars,
                         timer_vars
    <2>13. QED
      BY NextCases, <1>1, <2>2, <2>3, <2>4, <2>5, <2>6, <2>7, <2>8, <2>9, <2>10,
         <2>11, <2>12
  <1>2. IInv /\ [Next]_vars
        => [pc[Sampler] = "release" /\ timer_state \in {"OVP", "OCP"}
               => timer_state' # "RUNNING"]_vars
    BY <1>1
  <1>3. QED
    BY <1>2, InvariantCorrect, PTL DEF Spec, TripStaysPaused

-----------------------------------------------------------------------------
(* The queue.  Each step of the timer's lock is one of StepQueue, and so is *)
(* each write of the pin; the mapping rests on which calls have which cause.*)

\* Only the timer's task applies steps, only SCPI clears the queue, neither
\* a trip nor a clear closes the relay, and the listener hears of neither of
\* the timer's own changes.
CauseInv ==
    /\ pc[TimerTask] \in {"idle", "drive", "cache"}
    /\ pc[TimerTask] # "idle" => job[TimerTask].cause = "timer_expiry"
    /\ \A t \in Tasks :
          /\ job[t].cause = "timer_expiry" => t = TimerTask
          /\ job[t].cause = "timer_clear" => t \in ScpiTasks
          /\ job[t].on => job[t].cause \notin ProtectionCauses \union {"timer_clear"}
          /\ pc[t] \in {"check", "interlock", "notify"} => job[t].cause \notin TimerCauses

\* The tasks but t stay where they are, in the calls they make.
OthersStay(t) ==
    \A u \in Tasks \ {t} :
        pc'[u] = pc[u] /\ job'[u].on = job[u].on /\ job'[u].cause = job[u].cause

\* A step of a task that is not the timer's keeps it if its own part is kept.
LEMMA CauseKept ==
    ASSUME CauseInv, NEW t \in Tasks \ {TimerTask}, OthersStay(t),
           job'[t].cause # "timer_expiry",
           job'[t].cause = "timer_clear" => t \in ScpiTasks,
           job'[t].on => job'[t].cause \notin ProtectionCauses \union {"timer_clear"},
           pc'[t] \in {"check", "interlock", "notify"} => job'[t].cause \notin TimerCauses
    PROVE  CauseInv'
  <1> USE TaskKinds
  <1>1. pc'[TimerTask] = pc[TimerTask] /\ job'[TimerTask].cause = job[TimerTask].cause
    BY DEF OthersStay
  <1>2. ASSUME NEW u \in Tasks
        PROVE  /\ job'[u].cause = "timer_expiry" => u = TimerTask
               /\ job'[u].cause = "timer_clear" => u \in ScpiTasks
               /\ job'[u].on => job'[u].cause \notin ProtectionCauses \union {"timer_clear"}
               /\ pc'[u] \in {"check", "interlock", "notify"} => job'[u].cause \notin TimerCauses
    <2>1. CASE u = t
      BY <2>1
    <2>2. CASE u # t
      BY <2>2 DEF OthersStay, CauseInv
    <2>3. QED
      BY <2>1, <2>2
  <1>3. QED
    BY <1>1, <1>2 DEF CauseInv

\* What ends and begins a call, for the cause of each task.
LEMMA ReturnStays ==
    ASSUME TypeOK, NEW t \in Tasks, Return(t)
    PROVE  OthersStay(t) /\ pc'[t] = "idle" /\ job'[t].cause = "scpi" /\ ~job'[t].on
  BY GotoAt DEF TypeOK, Return, NoJob, NewJob, OthersStay

LEMMA CallDriveStays ==
    ASSUME TypeOK, NEW t \in Tasks, NEW on, NEW cause, CallDrive(t, on, cause)
    PROVE  OthersStay(t) /\ pc'[t] = "drive" /\ job'[t].cause = cause /\ job'[t].on = on
  BY GotoAt DEF TypeOK, CallDrive, NewJob, OthersStay

LEMMA GotoStays ==
    ASSUME TypeOK, NEW t \in Tasks, NEW point, Goto(t, point), UNCHANGED job
    PROVE  OthersStay(t) /\ pc'[t] = point /\ job'[t] = job[t]
  BY GotoAt DEF OthersStay

LEMMA AfterDriveStays ==
    ASSUME TypeOK, NEW t \in Tasks, AfterDrive(t)
    PROVE  /\ OthersStay(t)
           /\ \/ pc'[t] = "release" /\ t = Sampler /\ job'[t] = job[t]
              \/ pc'[t] = "idle" /\ job'[t].cause = "scpi" /\ ~job'[t].on
  <1>1. CASE t = Sampler
    BY <1>1, GotoStays DEF AfterDrive
  <1>2. CASE t # Sampler
    BY <1>2, ReturnStays DEF AfterDrive
  <1>3. QED
    BY <1>1, <1>2

LEMMA StepCause == ASSUME TypeOK, PlaceInv, CauseInv, [Next]_vars PROVE CauseInv'
  <1> USE TaskKinds
  <1>c. "scpi" \notin TimerCauses /\ "mqtt" \notin TimerCauses /\ "trigger" \notin TimerCauses
        /\ "ovp" \notin TimerCauses /\ "ocp" \notin TimerCauses
        /\ TimerCauses = {"timer_expiry", "timer_clear"} /\ ProtectionCauses = {"ovp", "ocp"}
    BY DEF TimerCauses, ProtectionCauses
  <1>0. CASE UNCHANGED <<pc, job>>
    BY <1>0 DEF CauseInv
  <1>1. ASSUME NEW t \in Tasks, DriveLevel(t) PROVE CauseInv'
    <2>1. pc'[t] = "cache" /\ OthersStay(t) /\ UNCHANGED job
      BY <1>1, GotoStays DEF DriveLevel
    <2>2. CASE t = TimerTask
      BY <1>1, <2>1, <2>2 DEF DriveLevel, CauseInv, OthersStay
    <2>3. CASE t # TimerTask
      BY <2>1, <2>3, CauseKept DEF CauseInv
    <2>4. QED
      BY <2>2, <2>3
  <1>2. ASSUME NEW t \in Tasks, CacheLevel(t) PROVE CauseInv'
    <2>1. CASE job[t].cause \in TimerCauses /\ t = TimerTask
      <3>1. pc'[TimerTask] = "idle" /\ job'[TimerTask].cause = "scpi" /\ ~job'[TimerTask].on
            /\ OthersStay(t)
        BY <1>2, <2>1, AfterDriveStays DEF CacheLevel
      <3>2. QED
        BY <1>c, <2>1, <3>1 DEF CauseInv, OthersStay
    <2>2. CASE job[t].cause \in TimerCauses /\ t # TimerTask
      <3>1. /\ OthersStay(t)
            /\ \/ pc'[t] = "release" /\ t = Sampler /\ job'[t] = job[t]
               \/ pc'[t] = "idle" /\ job'[t].cause = "scpi" /\ ~job'[t].on
        BY <1>2, <2>2, AfterDriveStays DEF CacheLevel
      <3>2. QED
        BY <1>c, <2>2, <3>1, CauseKept DEF CauseInv
    <2>3. CASE job[t].cause \notin TimerCauses
      <3>1. pc'[t] = "notify" /\ OthersStay(t) /\ job'[t] = job[t] /\ pc[t] = "cache"
        BY <1>2, <2>3, GotoStays DEF CacheLevel
      <3>2. t # TimerTask
        BY <1>c, <2>3, <3>1 DEF CauseInv
      <3>3. QED
        BY <1>c, <2>3, <3>1, <3>2, CauseKept DEF CauseInv
    <2>4. QED
      BY <2>1, <2>2, <2>3
  <1>3. ASSUME NEW t \in Tasks, NotifyTimer(t) PROVE CauseInv'
    <2>1. t # TimerTask
      BY <1>3 DEF NotifyTimer, CauseInv
    <2>2. /\ OthersStay(t)
          /\ \/ pc'[t] = "release" /\ job'[t] = job[t]
             \/ pc'[t] = "idle" /\ job'[t].cause = "scpi" /\ ~job'[t].on
      BY <1>3, AfterDriveStays DEF NotifyTimer
    <2>3. QED
      BY <1>c, <2>1, <2>2, CauseKept DEF CauseInv
  <1>4. ASSUME NEW t \in Requesters, RequestOn(t) PROVE CauseInv'
    <2>1. /\ OthersStay(t) /\ job'[t].cause \in {"scpi", "mqtt"}
      BY <1>4, GotoAt DEF RequestOn, TypeOK, NewJob, CauseOf, OthersStay
    <2>2. QED
      BY <1>c, <2>1, CauseKept
  <1>5. ASSUME NEW t \in Tasks \ {TimerTask}, NEW on \in BOOLEAN,
               NEW cause \in {"scpi", "mqtt", "trigger"}, CallDrive(t, on, cause)
        PROVE  CauseInv'
    BY <1>c, <1>5, CallDriveStays, CauseKept
  <1>6. ASSUME NEW t \in Requesters, RequestOff(t) PROVE CauseInv'
    BY <1>5, <1>6 DEF RequestOff, CauseOf
  <1>7. ASSUME NEW t \in Requesters, BeginCheck(t) PROVE CauseInv'
    <2>1. OthersStay(t) /\ job'[t] = job[t] /\ pc[t] = "check"
      BY <1>7, GotoStays DEF BeginCheck
    <2>2. QED
      BY <1>c, <2>1, CauseKept DEF CauseInv
  <1>8. ASSUME NEW t \in Requesters, CheckInterlock(t) PROVE CauseInv'
    <2>1. pc[t] = "interlock"
      BY <1>8 DEF CheckInterlock
    <2>2. CASE Return(t)
      BY <1>c, <2>2, ReturnStays, CauseKept
    <2>3. CASE UNCHANGED job /\ Goto(t, "drive")
      BY <1>c, <2>1, <2>3, GotoStays, CauseKept DEF CauseInv
    <2>4. QED
      BY <1>8, <2>2, <2>3 DEF CheckInterlock
  <1>9. ASSUME NEW t \in ScpiTasks, ResetProtection(t) \/ AddStep(t) \/ StartTxn(t) \/ AbortTxn(t)
        PROVE  CauseInv'
    BY <1>0, <1>9 DEF ResetProtection, AddStep, StartTxn, AbortTxn
  <1>10. ASSUME NEW t \in ScpiTasks, ClearTimer(t) PROVE CauseInv'
    <2>1. OthersStay(t) /\ pc'[t] = "drive" /\ job'[t].cause = "timer_clear" /\ job'[t].on = FALSE
      BY <1>10, CallDriveStays DEF ClearTimer
    <2>2. QED
      BY <1>c, <2>1, CauseKept
  <1>11. ASSUME NEW t \in Tasks \ {TimerTask}, NEW point, point \notin {"check", "interlock", "notify"},
                Goto(t, point), UNCHANGED job
         PROVE  CauseInv'
    BY <1>c, <1>11, GotoStays, CauseKept DEF CauseInv
  <1>12. ASSUME NEW t \in ScpiTasks, BeginCommit(t) \/ EndCommit(t) PROVE CauseInv'
    BY <1>11, <1>12 DEF BeginCommit, EndCommit
  <1>13. ASSUME NEW t \in ScpiTasks \union TriggerTasks, ToggleTimer(t) \/ ResumeAfterTrip(t)
         PROVE  CauseInv'
    BY <1>0, <1>11, <1>13 DEF ToggleTimer, ResumeAfterTrip
  <1>14. ASSUME NEW t \in TriggerTasks, TriggerOn(t) \/ TriggerOff(t) PROVE CauseInv'
    BY <1>5, <1>14 DEF TriggerOn, TriggerOff
  <1>15. CASE BeginSample
    BY <1>11, <1>15 DEF BeginSample
  <1>16. CASE JudgeSample
    <2>1. CASE Return(Sampler)
      BY <1>c, <2>1, ReturnStays, CauseKept
    <2>2. ASSUME NEW cause \in ProtectionCauses, Goto(Sampler, "drive"),
                 job' = [t \in Tasks |->
                            IF t = Sampler THEN NewJob(FALSE, cause)
                            ELSE [job[t] EXCEPT !.stale = @ \/ Enabling(t)]]
          PROVE  CauseInv'
      <3>1. OthersStay(Sampler) /\ pc'[Sampler] = "drive"
            /\ job'[Sampler].on = FALSE /\ job'[Sampler].cause = cause
        <4>1. pc'[Sampler] = "drive" /\ \A u \in Tasks \ {Sampler} : pc'[u] = pc[u]
          BY <2>2, GotoAt
        <4>2. ASSUME NEW u \in Tasks \ {Sampler}
              PROVE  job'[u].on = job[u].on /\ job'[u].cause = job[u].cause
          <5>1. job'[u] = [job[u] EXCEPT !.stale = @ \/ Enabling(u)] /\ job[u] \in Job
            BY <2>2 DEF TypeOK
          <5>2. QED
            BY <5>1 DEF Job
        <4>3. QED
          BY <2>2, <4>1, <4>2 DEF OthersStay, NewJob
      <3>2. QED
        BY <1>c, <3>1, CauseKept
    <2>3. QED
      BY <1>16, <2>1, <2>2 DEF JudgeSample
  <1>17. CASE EndSample
    BY <1>c, <1>17, ReturnStays, CauseKept DEF EndSample
  <1>18. CASE DeadlinePasses \/ UNCHANGED vars
    BY <1>0, <1>18 DEF DeadlinePasses, vars
  <1>19. CASE ExpireStep
    <2>1. OthersStay(TimerTask) /\ pc'[TimerTask] = "drive" /\ job'[TimerTask].cause = "timer_expiry"
      BY <1>19, CallDriveStays DEF ExpireStep
    <2>2. QED
      BY <1>c, <2>1 DEF CauseInv, OthersStay
  <1>20. QED
    BY NextCases, <1>1, <1>2, <1>3, <1>4, <1>6, <1>7, <1>8, <1>9, <1>10, <1>12, <1>13,
       <1>14, <1>15, <1>16, <1>17, <1>18, <1>19

\* The causes of calls are those of the tasks that make them.
THEOREM CausesCorrect == Spec => []CauseInv
  <1>1. Init => CauseInv
    BY TaskKinds DEF Init, CauseInv, NoJob, NewJob, TimerCauses, ProtectionCauses
  <1>2. IInv /\ CauseInv /\ [Next]_vars => CauseInv'
    BY StepCause DEF IInv
  <1>3. QED
    BY <1>1, <1>2, InvariantCorrect, PTL DEF Spec

-----------------------------------------------------------------------------
\* What the tasks but t have to do with the queue is as it was.
LEMMA MappedOthers ==
    ASSUME NEW t \in Tasks, OthersStay(t)
    PROVE  /\ t # TimerTask => Taken' = Taken
           /\ \A u \in ScpiTasks \ {t} : u \in Opening' <=> u \in Opening
           /\ \A u \in Others \ {t} : Untold'[u] = Untold[u]
  <1> USE TaskKinds
  <1>1. t # TimerTask => Taken' = Taken
    BY DEF OthersStay, Taken
  <1>2. ASSUME NEW u \in ScpiTasks \ {t} PROVE u \in Opening' <=> u \in Opening
    BY DEF OthersStay, Opening
  <1>3. ASSUME NEW u \in Others \ {t} PROVE Untold'[u] = Untold[u]
    BY DEF OthersStay, Untold, Others, StatusFromCause
  <1>4. QED
    BY <1>1, <1>2, <1>3

\* The function of the untold changes and the set of the opening clears, by
\* their members.
LEMMA MappedMembers ==
    /\ (\A u \in ScpiTasks : u \in Opening' <=> u \in Opening) => Opening' = Opening
    /\ (\A u \in Others : Untold'[u] = Untold[u]) => Untold' = Untold
  <1>1. ASSUME \A u \in ScpiTasks : u \in Opening' <=> u \in Opening PROVE Opening' = Opening
    BY <1>1 DEF Opening
  <1>2. ASSUME \A u \in Others : Untold'[u] = Untold[u] PROVE Untold' = Untold
    BY <1>2 DEF Untold
  <1>3. QED
    BY <1>1, <1>2

\* What a task is to the queue where it stands.
LEMMA MappedAt ==
    ASSUME NEW t \in Tasks
    PROVE  /\ t \in Opening <=> t \in ScpiTasks /\ pc[t] = "drive" /\ job[t].cause = "timer_clear"
           /\ t \in Others =>
                  Untold[t] = IF pc[t] \in {"cache", "notify"} /\ job[t].cause \notin TimerCauses
                              THEN StatusFromCause(job[t].cause) ELSE "told"
           /\ (t \in Opening)' <=> t \in ScpiTasks /\ pc'[t] = "drive" /\ job'[t].cause = "timer_clear"
           /\ t \in Others =>
                  Untold'[t] = IF pc'[t] \in {"cache", "notify"} /\ job'[t].cause \notin TimerCauses
                               THEN StatusFromCause(job'[t].cause) ELSE "told"
  BY DEF Opening, Untold, StatusFromCause

\* A task that neither writes the pin for a clear nor has a change to tell,
\* before the step and after it, is nothing to the queue.
LEMMA MappedStays ==
    ASSUME NEW t \in Tasks \ {TimerTask}, OthersStay(t),
           pc[t] \notin {"cache", "notify"}, pc'[t] \notin {"cache", "notify"},
           pc[t] = "drive" => job[t].cause # "timer_clear",
           pc'[t] = "drive" => job'[t].cause # "timer_clear"
    PROVE  UNCHANGED <<Taken, Opening, Untold>>
  <1>1. Taken' = Taken
    BY MappedOthers
  <1>2. \A u \in ScpiTasks : u \in Opening' <=> u \in Opening
    BY MappedOthers, MappedAt
  <1>3. \A u \in Others : Untold'[u] = Untold[u]
    BY MappedOthers, MappedAt
  <1>4. QED
    BY <1>1, <1>2, <1>3, MappedMembers

LEMMA MappedUnmoved ==
    ASSUME UNCHANGED <<pc, job>> PROVE UNCHANGED <<Taken, Opening, Untold>>
  <1>1. Taken' = Taken /\ Opening' = Opening
    BY DEF Taken, Opening
  <1>2. Untold' = Untold
    BY DEF Untold, StatusFromCause
  <1>3. QED
    BY <1>1, <1>2

-----------------------------------------------------------------------------
\* A write of the pin applies the step that was taken, ends a clear, or is a
\* switch of which the timer is to be told.
LEMMA DriveRefines ==
    ASSUME TypeOK, CauseInv, NEW t \in Tasks, DriveLevel(t)
    PROVE  Queue!Next
  <1> USE TaskKinds
  <1>1. /\ pc[t] = "drive" /\ pc'[t] = "cache" /\ OthersStay(t)
        /\ UNCHANGED <<job, steps, timer_state>> /\ gpio_level' = job[t].on
    BY GotoStays DEF DriveLevel, timer_vars
  <1>2. CASE t = TimerTask
    <2>1. Taken = {job[t].on} /\ Taken' = {}
      BY <1>1, <1>2 DEF Taken
    <2>2. Opening' = Opening
      BY <1>1, <1>2, MappedOthers, MappedMembers
    <2>3. Untold' = Untold
      BY <1>1, <1>2, MappedOthers, MappedMembers DEF Others
    <2>4. Queue!Apply
      BY <1>1, <2>1, <2>2, <2>3 DEF Queue!Apply
    <2>5. QED
      BY <2>4 DEF Queue!Next
  <1>3. CASE t # TimerTask /\ job[t].cause = "timer_clear"
    <2>1. t \in ScpiTasks /\ job[t].on = FALSE
      BY <1>3 DEF CauseInv, TypeOK, Job
    <2>2. t \in Opening /\ ~(t \in Opening)'
      BY <1>1, <1>3, <2>1, MappedAt
    <2>3. Opening' = Opening \ {t}
      <3>1. \A u \in ScpiTasks : u \in Opening' <=> u \in Opening \ {t}
        BY <1>1, <2>2, MappedOthers
      <3>2. QED
        BY <3>1 DEF Opening
    <2>4. Untold'[t] = Untold[t]
      BY <1>1, <1>3, MappedAt DEF Others, TimerCauses
    <2>5. Untold' = Untold /\ Taken' = Taken
      BY <1>1, <1>3, <2>4, MappedOthers, MappedMembers
    <2>6. Queue!Open(t)
      BY <1>1, <2>1, <2>2, <2>3, <2>5 DEF Queue!Open
    <2>7. QED
      BY <1>3, <2>6 DEF Queue!Next, Others
  <1>4. CASE t # TimerTask /\ job[t].cause # "timer_clear"
    <2> DEFINE kind == StatusFromCause(job[t].cause)
    <2>1. t \in Others /\ job[t].cause \notin TimerCauses
      BY <1>4 DEF CauseInv, Others, TimerCauses
    <2>2. kind \in Queue!Kinds /\ (job[t].on => kind \notin Queue!Trips)
      BY DEF CauseInv, StatusFromCause, Queue!Kinds, Queue!Trips, ProtectionCauses
    <2>3. ~(t \in Opening) /\ ~(t \in Opening)' /\ Untold[t] = "told" /\ Untold'[t] = kind
      BY <1>1, <1>4, <2>1, MappedAt
    <2>4. Opening' = Opening /\ Taken' = Taken
      BY <1>1, <1>4, <2>3, MappedOthers, MappedMembers
    <2>5. Untold' = [Untold EXCEPT ![t] = kind]
      <3>1. \A u \in Others : Untold'[u] = [Untold EXCEPT ![t] = kind][u]
        BY <1>1, <2>3, MappedOthers DEF Untold
      <3>2. QED
        BY <3>1 DEF Untold
    <2>6. gpio_level' \in BOOLEAN
      BY <1>1 DEF TypeOK, Job
    <2>7. Queue!Switch(t)
      <3> HIDE DEF kind
      <3>1. gpio_level' => kind \notin Queue!Trips
        BY <1>1, <2>2
      <3>2. QED
        BY <1>1, <2>2, <2>3, <2>4, <2>5, <2>6, <3>1 DEF Queue!Switch, Queue!Ready, Queue!Told
    <2>8. QED
      BY <2>1, <2>7 DEF Queue!Next
  <1>5. QED
    BY <1>2, <1>3, <1>4

\* The write of the cached state is nothing to the queue.
LEMMA CacheRefines ==
    ASSUME TypeOK, CauseInv, NEW t \in Tasks, CacheLevel(t)
    PROVE  UNCHANGED Queue!vars
  <1> USE TaskKinds
  <1>1. pc[t] = "cache" /\ UNCHANGED <<steps, timer_state, gpio_level>>
    BY DEF CacheLevel, timer_vars
  <1>2. /\ OthersStay(t) /\ pc'[t] \notin {"drive", "cache"}
        /\ (t \in Others)  => Untold'[t] = Untold[t]
    <2>1. CASE job[t].cause \in TimerCauses
      <3>1. OthersStay(t) /\ pc'[t] \in {"release", "idle"}
        BY <2>1, AfterDriveStays DEF CacheLevel
      <3>2. QED
        BY <1>1, <2>1, <3>1, MappedAt
    <2>2. CASE job[t].cause \notin TimerCauses
      <3>1. OthersStay(t) /\ pc'[t] = "notify" /\ job'[t] = job[t]
        BY <2>2, GotoStays DEF CacheLevel
      <3>2. QED
        BY <1>1, <2>2, <3>1, MappedAt
    <2>3. QED
      BY <2>1, <2>2
  <1>3. Taken' = Taken
    BY <1>1, <1>2, MappedOthers DEF Taken
  <1>4. Opening' = Opening
    BY <1>1, <1>2, MappedOthers, MappedAt, MappedMembers
  <1>5. Untold' = Untold
    BY <1>2, MappedOthers, MappedMembers
  <1>6. QED
    BY <1>1, <1>3, <1>4, <1>5 DEF Queue!vars

\* The listener is the telling.
LEMMA NotifyRefines ==
    ASSUME TypeOK, TimerInv, CauseInv, NEW t \in Tasks, NotifyTimer(t)
    PROVE  Queue!Next
  <1> USE TaskKinds
  <1> DEFINE kind == StatusFromCause(job[t].cause)
  <1>1. /\ pc[t] = "notify" /\ pc'[t] \in {"release", "idle"} /\ OthersStay(t)
        /\ UNCHANGED <<steps, gpio_level>>
    BY AfterDriveStays DEF NotifyTimer, timer_vars, output_vars
  <1>2. t \in Others /\ job[t].cause \notin TimerCauses
    BY <1>1 DEF CauseInv, Others
  <1>3. timer_state' = IF timer_state = "RUNNING" THEN kind ELSE timer_state
    BY DEF NotifyTimer, timer_vars, TimerInv, TimerStateMatchesQueue
  <1>4. Untold[t] = kind /\ kind # "told" /\ Untold'[t] = "told" /\ (t \in Opening)' = (t \in Opening)
    BY <1>1, <1>2, MappedAt DEF StatusFromCause
  <1>5. Opening' = Opening /\ Taken' = Taken
    BY <1>1, <1>2, <1>4, MappedOthers, MappedMembers DEF Others
  <1>6. Untold' = [Untold EXCEPT ![t] = "told"]
    <2>1. \A u \in Others : Untold'[u] = [Untold EXCEPT ![t] = "told"][u]
      BY <1>1, <1>4, MappedOthers DEF Untold
    <2>2. QED
      BY <2>1 DEF Untold
  <1>7. Queue!Tell(t)
    BY <1>1, <1>3, <1>4, <1>5, <1>6 DEF Queue!Tell, Queue!Heard, Queue!Told
  <1>8. QED
    BY <1>2, <1>7 DEF Queue!Next

\* What the calls of the timer do.
LEMMA TimerCallsRefine ==
    ASSUME TypeOK, LockInv, TimerInv, CauseInv
    PROVE  /\ \A t \in ScpiTasks : AddStep(t) => Queue!Add
           /\ \A t \in ScpiTasks : ClearTimer(t) => Queue!Next
           /\ \A t \in ScpiTasks \union TriggerTasks :
                  ToggleTimer(t) => Queue!Next \/ UNCHANGED Queue!vars
           /\ \A t \in ScpiTasks \union TriggerTasks : ResumeAfterTrip(t) => Queue!Run
           /\ ExpireStep => Queue!Take
  <1> USE TaskKinds
  <1>1. ASSUME NEW t \in ScpiTasks, AddStep(t) PROVE Queue!Add
    BY <1>1, MappedUnmoved DEF AddStep, Queue!Add, output_vars
  <1>2. ASSUME NEW t \in ScpiTasks, ClearTimer(t) PROVE Queue!Next
    <2>1. /\ OthersStay(t) /\ pc[t] = "idle" /\ pc'[t] = "drive" /\ job'[t].cause = "timer_clear"
          /\ steps' = <<>> /\ timer_state' = "IDLE" /\ UNCHANGED gpio_level
      BY <1>2, CallDriveStays DEF ClearTimer, output_vars
    <2>2. t \in Others /\ t # TimerTask
      BY DEF Others
    <2>3. ~(t \in Opening) /\ (t \in Opening)' /\ Untold[t] = "told" /\ Untold'[t] = "told"
      BY <2>1, <2>2, MappedAt
    <2>4. Opening' = Opening \union {t}
      <3>1. \A u \in ScpiTasks : u \in Opening' <=> u \in Opening \union {t}
        BY <2>1, <2>3, MappedOthers
      <3>2. QED
        BY <3>1 DEF Opening
    <2>5. Taken' = Taken /\ Untold' = Untold
      BY <2>1, <2>2, <2>3, MappedOthers, MappedMembers
    <2>6. Queue!Clear(t)
      BY <2>1, <2>3, <2>4, <2>5 DEF Queue!Clear, Queue!Ready, Queue!Told
    <2>7. QED
      BY <2>2, <2>6 DEF Queue!Next
  <1>3. ASSUME NEW t \in ScpiTasks \union TriggerTasks, ToggleTimer(t)
        PROVE  Queue!Next \/ UNCHANGED Queue!vars
    <2>1. UNCHANGED <<steps, gpio_level, job>> /\ steps # <<>> /\ pc[t] = "idle"
      BY <1>3 DEF ToggleTimer, output_vars
    <2>2. CASE UNCHANGED pc
      <3>1. UNCHANGED <<Taken, Opening, Untold>>
        BY <2>1, <2>2, MappedUnmoved
      <3>2. CASE timer_state = "RUNNING" /\ timer_state' = "PAUSED"
        BY <2>1, <3>1, <3>2 DEF Queue!Next, Queue!Pause
      <3>3. CASE timer_state # "RUNNING" /\ timer_state' = "RUNNING"
        BY <2>1, <3>1, <3>3 DEF Queue!Next, Queue!Run
      <3>4. CASE UNCHANGED timer_state
        BY <2>1, <3>1, <3>4 DEF Queue!vars
      <3>5. QED
        BY <1>3, <3>2, <3>3, <3>4 DEF ToggleTimer
    <2>3. CASE Goto(t, "resume") /\ UNCHANGED timer_state
      <3>1. OthersStay(t) /\ pc'[t] = "resume"
        BY <2>1, <2>3, GotoStays
      <3>2. UNCHANGED <<Taken, Opening, Untold>>
        BY <2>1, <3>1, MappedStays
      <3>3. QED
        BY <2>1, <2>3, <3>2 DEF Queue!vars
    <2>4. QED
      BY <1>3, <2>2, <2>3 DEF ToggleTimer
  <1>4. ASSUME NEW t \in ScpiTasks \union TriggerTasks, ResumeAfterTrip(t) PROVE Queue!Run
    <2>1. /\ OthersStay(t) /\ pc[t] = "resume" /\ pc'[t] = "idle"
          /\ UNCHANGED <<steps, gpio_level>> /\ timer_state' = "RUNNING"
      BY <1>4, GotoStays DEF ResumeAfterTrip, output_vars
    <2>2. timer_state \in {"OVP", "OCP"} /\ steps # <<>>
      BY <2>1 DEF TimerInv, TimerStateMatchesQueue
    <2>3. UNCHANGED <<Taken, Opening, Untold>>
      BY <2>1, MappedStays
    <2>4. QED
      BY <2>1, <2>2, <2>3 DEF Queue!Run
  <1>5. ASSUME ExpireStep PROVE Queue!Take
    <2>1. /\ OthersStay(TimerTask) /\ pc[TimerTask] = "idle" /\ pc'[TimerTask] = "drive"
          /\ job'[TimerTask].on = Head(steps).on /\ timer_state = "RUNNING" /\ UNCHANGED gpio_level
          /\ steps' = Tail(steps) /\ timer_state' = IF steps' = <<>> THEN "IDLE" ELSE "RUNNING"
      BY <1>5, CallDriveStays DEF ExpireStep, output_vars
    <2>2. Taken = {} /\ Taken' = {Head(steps).on}
      BY <2>1 DEF Taken
    <2>3. Opening' = Opening /\ Untold' = Untold
      BY <2>1, MappedOthers, MappedMembers DEF Others
    <2>4. QED
      BY <2>1, <2>2, <2>3 DEF Queue!Take
  <1>6. QED
    BY <1>1, <1>2, <1>3, <1>4, <1>5

\* Requests up to the write of the pin, samples and transactions are nothing
\* to the queue.
LEMMA OthersStutter ==
    ASSUME TypeOK, PlaceInv, CauseInv,
           \/ \E t \in Requesters : RequestOn(t) \/ RequestOff(t) \/ BeginCheck(t) \/ CheckInterlock(t)
           \/ \E t \in ScpiTasks :
                  \/ ResetProtection(t) \/ StartTxn(t) \/ AbortTxn(t) \/ BeginCommit(t) \/ EndCommit(t)
           \/ \E t \in TriggerTasks : TriggerOn(t) \/ TriggerOff(t)
           \/ BeginSample \/ JudgeSample \/ EndSample \/ DeadlinePasses \/ UNCHANGED vars
    PROVE  UNCHANGED Queue!vars
  <1> USE TaskKinds
  <1>0. UNCHANGED <<steps, timer_state, gpio_level>>
    BY DEF RequestOn, RequestOff, BeginCheck, CheckInterlock, ResetProtection, StartTxn, AbortTxn,
           BeginCommit, EndCommit, TriggerOn, TriggerOff, BeginSample, JudgeSample, EndSample,
           DeadlinePasses, vars, timer_vars, output_vars
  <1> SUFFICES UNCHANGED <<Taken, Opening, Untold>>
    BY <1>0 DEF Queue!vars
  <1>1. ASSUME NEW t \in Requesters, RequestOn(t) PROVE UNCHANGED <<Taken, Opening, Untold>>
    <2>1. OthersStay(t) /\ pc[t] = "idle" /\ pc'[t] = "check"
      BY <1>1, GotoAt DEF RequestOn, TypeOK, OthersStay
    <2>2. QED
      BY <2>1, MappedStays
  <1>2. ASSUME NEW t \in Tasks \ {TimerTask}, NEW on, NEW cause, cause # "timer_clear",
               pc[t] = "idle", CallDrive(t, on, cause)
        PROVE  UNCHANGED <<Taken, Opening, Untold>>
    BY <1>2, CallDriveStays, MappedStays
  <1>3. ASSUME NEW t \in Requesters, RequestOff(t) PROVE UNCHANGED <<Taken, Opening, Untold>>
    BY <1>2, <1>3 DEF RequestOff, CauseOf
  <1>4. ASSUME NEW t \in Requesters, BeginCheck(t) \/ CheckInterlock(t)
        PROVE  UNCHANGED <<Taken, Opening, Untold>>
    <2>1. pc[t] \in {"check", "interlock"} /\ job[t].cause # "timer_clear"
      BY <1>4 DEF BeginCheck, CheckInterlock, CauseInv, TimerCauses
    <2>2. CASE UNCHANGED job /\ (Goto(t, "drive") \/ Goto(t, "interlock"))
      BY <2>1, <2>2, GotoStays, MappedStays
    <2>3. CASE Return(t)
      BY <2>1, <2>3, ReturnStays, MappedStays
    <2>4. QED
      BY <1>4, <2>2, <2>3 DEF BeginCheck, CheckInterlock
  <1>5. ASSUME NEW t \in ScpiTasks,
               \/ ResetProtection(t) \/ StartTxn(t) \/ AbortTxn(t) \/ BeginCommit(t) \/ EndCommit(t)
        PROVE  UNCHANGED <<Taken, Opening, Untold>>
    <2>1. CASE UNCHANGED <<pc, job>>
      BY <2>1, MappedUnmoved
    <2>2. CASE BeginCommit(t) \/ EndCommit(t)
      <3>1. OthersStay(t) /\ pc[t] \in {"idle", "storing"} /\ pc'[t] \in {"idle", "storing"}
        BY <2>2, GotoStays DEF BeginCommit, EndCommit
      <3>2. QED
        BY <3>1, MappedStays
    <2>3. QED
      BY <1>5, <2>1, <2>2 DEF ResetProtection, StartTxn, AbortTxn
  <1>6. ASSUME NEW t \in TriggerTasks, TriggerOn(t) \/ TriggerOff(t)
        PROVE  UNCHANGED <<Taken, Opening, Untold>>
    BY <1>2, <1>6 DEF TriggerOn, TriggerOff
  <1>7. CASE BeginSample
    <2>1. OthersStay(Sampler) /\ pc[Sampler] = "idle" /\ pc'[Sampler] = "judge"
      BY <1>7, GotoStays DEF BeginSample
    <2>2. QED
      BY <2>1, MappedStays
  <1>8. CASE JudgeSample
    <2>1. pc[Sampler] = "judge" /\ OthersStay(Sampler) /\ pc'[Sampler] \in {"idle", "drive"}
          /\ (pc'[Sampler] = "drive" => job'[Sampler].cause # "timer_clear")
      <3>1. CASE Return(Sampler)
        BY <1>8, <3>1, ReturnStays DEF JudgeSample
      <3>2. ASSUME NEW cause \in ProtectionCauses, Goto(Sampler, "drive"),
                   job' = [t \in Tasks |->
                              IF t = Sampler THEN NewJob(FALSE, cause)
                              ELSE [job[t] EXCEPT !.stale = @ \/ Enabling(t)]]
            PROVE  /\ OthersStay(Sampler) /\ pc'[Sampler] = "drive"
                   /\ job'[Sampler].cause # "timer_clear"
        <4>1. pc'[Sampler] = "drive" /\ \A u \in Tasks \ {Sampler} : pc'[u] = pc[u]
          BY <3>2, GotoAt
        <4>2. ASSUME NEW u \in Tasks \ {Sampler}
              PROVE  job'[u].on = job[u].on /\ job'[u].cause = job[u].cause
          <5>1. job'[u] = [job[u] EXCEPT !.stale = @ \/ Enabling(u)] /\ job[u] \in Job
            BY <3>2 DEF TypeOK
          <5>2. QED
            BY <5>1 DEF Job
        <4>3. QED
          BY <3>2, <4>1, <4>2 DEF OthersStay, NewJob, ProtectionCauses
      <3>3. QED
        BY <1>8, <3>1, <3>2 DEF JudgeSample
    <2>2. QED
      BY <2>1, MappedStays
  <1>9. CASE EndSample
    <2>1. OthersStay(Sampler) /\ pc[Sampler] = "release" /\ pc'[Sampler] = "idle"
      BY <1>9, ReturnStays DEF EndSample
    <2>2. QED
      BY <2>1, MappedStays
  <1>10. CASE DeadlinePasses \/ UNCHANGED vars
    BY <1>10, MappedUnmoved DEF DeadlinePasses, vars
  <1>11. QED
    BY <1>1, <1>3, <1>4, <1>5, <1>6, <1>7, <1>8, <1>9, <1>10

\* Every step is one of the queue or nothing to it.
LEMMA StepRefines ==
    ASSUME IInv, CauseInv, [Next]_vars
    PROVE  [Queue!Next]_(Queue!vars)
  <1> USE DEF IInv
  <1>1. ASSUME NEW t \in Tasks, DriveLevel(t) \/ CacheLevel(t) \/ NotifyTimer(t)
        PROVE  [Queue!Next]_(Queue!vars)
    BY <1>1, DriveRefines, CacheRefines, NotifyRefines
  <1>2. ASSUME NEW t \in ScpiTasks, AddStep(t) \/ ClearTimer(t) PROVE Queue!Next
    BY <1>2, TimerCallsRefine DEF Queue!Next
  <1>3. ASSUME NEW t \in ScpiTasks \union TriggerTasks, ToggleTimer(t) \/ ResumeAfterTrip(t)
        PROVE  [Queue!Next]_(Queue!vars)
    BY <1>3, TimerCallsRefine DEF Queue!Next
  <1>4. CASE ExpireStep
    BY <1>4, TimerCallsRefine DEF Queue!Next
  <1>5. QED
    BY NextCases, <1>1, <1>2, <1>3, <1>4, OthersStutter

\* RelayControl implements StepQueue: whatever the tasks, and wherever each is
\* in its call, steps are applied in order and once, a clear leaves none but
\* the one that was taken, and each change of the relay is to be told until it
\* has been, and pauses the countdown by its cause.
THEOREM QueueImplemented == Spec => ImplementsQueue
  <1>1. Init => Queue!Init
    <2> SUFFICES ASSUME Init PROVE Queue!Init
      OBVIOUS
    <2>1. Taken = {} /\ Opening = {}
      BY TaskKinds DEF Init, Taken, Opening, Tasks, Requesters
    <2>2. Untold = [c \in Others |-> Queue!Told]
      BY DEF Init, Untold, Others, Queue!Told
    <2>3. QED
      BY <2>1, <2>2 DEF Init, Queue!Init
  <1>2. IInv /\ CauseInv /\ [Next]_vars => [Queue!Next]_(Queue!vars)
    BY StepRefines
  <1>3. QED
    BY <1>1, <1>2, InvariantCorrect, CausesCorrect, PTL DEF Spec, ImplementsQueue, Queue!Spec

\* What StepQueue keeps, RelayControl keeps: one step for each id, in no more
\* places than the array has, and none counted down that is not there.
THEOREM QueueCorrect == Spec => []Queue!QueueIsSound
  <1>1. Queue!Init => Queue!QueueIsSound
    BY MaxStepsAssumption DEF Queue!Init, Queue!QueueIsSound
  <1>2. Queue!QueueIsSound /\ [Queue!Next]_(Queue!vars) => Queue!QueueIsSound'
    <2> SUFFICES ASSUME Queue!QueueIsSound, [Queue!Next]_(Queue!vars)
                 PROVE  Queue!QueueIsSound'
      OBVIOUS
    <2> USE DEF Queue!QueueIsSound
    <2>1. CASE Queue!Add
      <3>1. PICK step \in Step :
                /\ \A i \in DOMAIN steps : steps[i].id # step.id
                /\ steps' = Append(steps, step)
        BY <2>1 DEF Queue!Add
      <3>2. /\ steps' \in Seq(Step) /\ Len(steps') = Len(steps) + 1 /\ steps' # <<>>
            /\ \A i \in DOMAIN steps : steps'[i] = steps[i] /\ i # Len(steps')
            /\ steps'[Len(steps')] = step
            /\ \A i \in DOMAIN steps' : i \in DOMAIN steps \/ i = Len(steps')
        BY <3>1
      <3>3. \A i, j \in DOMAIN steps' : steps'[i].id = steps'[j].id => i = j
        BY <3>1, <3>2
      <3>4. Len(steps') <= MaxSteps
        BY <2>1, <3>2, MaxStepsAssumption DEF Queue!Add
      <3>5. steps' # <<>> /\ steps' \in Seq(Step)
        BY <3>2
      <3>6. QED
        BY <3>3, <3>4, <3>5
    <2>2. CASE Queue!Take
      <3>1. steps # <<>> /\ steps' = Tail(steps)
            /\ timer_state' = IF steps' = <<>> THEN "IDLE" ELSE "RUNNING"
        BY <2>2 DEF Queue!Take
      <3>2. /\ steps' \in Seq(Step) /\ Len(steps') = Len(steps) - 1
            /\ \A i \in DOMAIN steps' : i + 1 \in DOMAIN steps /\ steps'[i] = steps[i + 1] /\ i \in Nat
        BY <3>1
      <3>3. \A i, j \in DOMAIN steps' : steps'[i].id = steps'[j].id => i = j
        BY <3>2
      <3>4. Len(steps') <= MaxSteps
        BY <3>1, <3>2, MaxStepsAssumption
      <3>5. (timer_state' # "IDLE" => steps' # <<>>) /\ steps' \in Seq(Step)
        BY <3>1, <3>2
      <3>6. QED
        BY <3>3, <3>4, <3>5
    <2>3. ASSUME NEW c \in Others, Queue!Clear(c) PROVE Queue!QueueIsSound'
      BY <2>3, MaxStepsAssumption DEF Queue!Clear
    <2>4. CASE /\ UNCHANGED steps
               /\ timer_state' # "IDLE" => timer_state # "IDLE" \/ steps # <<>>
      BY <2>4
    <2>5. ASSUME NEW c \in Others, Queue!Open(c) \/ Queue!Switch(c) \/ Queue!Tell(c)
          PROVE  Queue!QueueIsSound'
      BY <2>4, <2>5 DEF Queue!Open, Queue!Switch, Queue!Tell, Queue!Heard
    <2>6. CASE Queue!Apply \/ Queue!Pause \/ Queue!Run \/ UNCHANGED Queue!vars
      BY <2>4, <2>6 DEF Queue!Apply, Queue!Pause, Queue!Run, Queue!vars
    <2>7. QED
      BY <2>1, <2>2, <2>3, <2>5, <2>6 DEF Queue!Next
  <1>3. QED
    BY <1>1, <1>2, QueueImplemented, PTL DEF ImplementsQueue, Queue!Spec
=============================================================================
