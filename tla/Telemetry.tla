------------------------------ MODULE Telemetry ------------------------------
(***************************************************************************)
(* The telemetry of mqtt_svc.c: a window that the sampler's task fills and *)
(* the worker empties at each tick, and a tick whose interval clients      *)
(* change while the worker sleeps, for up to an hour.  (Its other bits,    *)
(* the client and the broker are MqttService's.)                           *)
(*                                                                         *)
(* Samples are numbered; an even one is of the voltage, an odd one of the  *)
(* current.  A third kind, the power, takes no part in what is decided.    *)
(***************************************************************************)
EXTENDS Integers

CONSTANTS
    Intervals,     \* SYST:MQTT:INT
    MaxTime,       \* bound on the clock
    MaxSamples     \* bound on samples

ASSUME TelemetryAssumption == Intervals \subseteq Nat /\ {MaxTime, MaxSamples} \subseteq Nat

VARIABLES
    time,          \* esp_timer_get_time, in steps a sleep can end at
    interval,      \* s_mqtt.config.interval_ms
    waking,        \* a setter has set it and not yet notified
    wakes,         \* notification bits of the worker
    worker,        \* "read", "plan", "sleep" or "awake"
    interval_ms,   \* the worker's copy
    next_tick,     \* next_tick_us
    sleep_until,   \* when xTaskNotifyWait times out
    connected,     \* s_mqtt.connected
    taken,         \* samples so far
    window,        \* s_mqtt.window: the samples that went into it
    telemetry,     \* history: the samples of the telemetry just published
    sent,          \* history: those of earlier ones
    dropped        \* history: samples of windows that were not published

clockVars == <<time, next_tick, sleep_until>>
settingVars == <<interval, waking, interval_ms>>
windowVars == <<taken, window, telemetry, sent, dropped>>
telemetryVars == <<clockVars, settingVars, wakes, worker, connected, windowVars>>

Endless == MaxTime + 1 + MaxTime
Voltage(n) == n % 2 = 0
Smaller(a, b) == IF a < b THEN a ELSE b

TelemetryInit ==
    /\ time = 0 /\ next_tick = 0 /\ sleep_until = 0
    /\ interval \in Intervals /\ interval_ms = interval /\ waking = FALSE
    /\ wakes = {} /\ worker = "read" /\ connected = FALSE
    /\ taken = 0 /\ window = {} /\ telemetry = {} /\ sent = {} /\ dropped = {}
-----------------------------------------------------------------------------
(* Around the worker *)

TimePasses ==
    /\ time < MaxTime /\ time' = time + 1
    /\ UNCHANGED <<next_tick, sleep_until, settingVars, wakes, worker, connected, windowVars>>

\* mqtt_svc_sample_listener and mqtt_svc_window_add
Sample ==
    /\ taken < MaxSamples /\ taken' = taken + 1
    /\ window' = window \cup {taken + 1}
    /\ UNCHANGED <<clockVars, settingVars, wakes, worker, connected, telemetry, sent, dropped>>

\* mqtt_svc_set_interval_ms, which notifies after it has released the lock
SetInterval(ms) ==
    /\ ~waking
    /\ interval' = ms /\ waking' = TRUE
    /\ UNCHANGED <<clockVars, interval_ms, wakes, worker, connected, windowVars>>

Notify(b) ==
    /\ IF b = "wake" THEN waking /\ waking' = FALSE ELSE UNCHANGED waking
    /\ wakes' = wakes \cup {b}
    /\ UNCHANGED <<clockVars, interval, interval_ms, worker, connected, windowVars>>
-----------------------------------------------------------------------------
(* mqtt_svc_task *)

ReadInterval ==
    /\ worker = "read" /\ worker' = "plan"
    /\ interval_ms' = interval
    /\ UNCHANGED <<clockVars, interval, waking, wakes, connected, windowVars>>

\* Mutant: a tick planned with a longer interval stays.
PlanSleepKeepingTick ==
    /\ worker = "plan" /\ worker' = "sleep"
    /\ sleep_until' = IF ~connected THEN Endless
                      ELSE IF next_tick < time THEN time ELSE next_tick
    /\ UNCHANGED <<time, next_tick, settingVars, wakes, connected, windowVars>>

\* The tick comes closer when the interval has become shorter.
PlanSleep ==
    /\ worker = "plan" /\ worker' = "sleep"
    /\ next_tick' = IF connected THEN Smaller(next_tick, time + interval_ms) ELSE next_tick
    /\ sleep_until' = IF ~connected THEN Endless
                      ELSE IF next_tick' < time THEN time ELSE next_tick'
    /\ UNCHANGED <<time, settingVars, wakes, connected, windowVars>>

\* mqtt_svc_on_connected resets the window; an end of the connection does not.
WakeUp ==
    /\ worker = "sleep" /\ (wakes # {} \/ time >= sleep_until)
    /\ worker' = "awake" /\ wakes' = {}
    /\ connected' = ("connected" \in wakes \/ (connected /\ "disconnected" \notin wakes))
    /\ IF "connected" \in wakes
       THEN /\ next_tick' = time + interval_ms
            /\ window' = {} /\ dropped' = dropped \cup window
       ELSE UNCHANGED <<next_tick, window, dropped>>
    /\ UNCHANGED <<time, sleep_until, settingVars, taken, telemetry, sent>>

TickIsDue == connected /\ time >= next_tick

\* mqtt_svc_publish_telemetry: the window is copied and reset in one critical section,
\* and published when it has a voltage and a current.
PublishTick ==
    /\ worker = "awake" /\ TickIsDue /\ worker' = "read"
    /\ LET complete == \E v, i \in window : Voltage(v) /\ ~Voltage(i) IN
       /\ telemetry' = IF complete THEN window ELSE telemetry
       /\ sent' = IF complete THEN sent \cup telemetry ELSE sent
       /\ dropped' = IF complete THEN dropped ELSE dropped \cup window
    /\ window' = {}
    /\ next_tick' = IF next_tick + interval_ms <= time THEN time + interval_ms
                    ELSE next_tick + interval_ms
    /\ UNCHANGED <<time, sleep_until, settingVars, wakes, connected, taken>>

NoTick ==
    /\ worker = "awake" /\ ~TickIsDue /\ worker' = "read"
    /\ UNCHANGED <<clockVars, settingVars, wakes, connected, windowVars>>

TelemetryNext ==
    \/ TimePasses
    \/ Sample
    \/ \E ms \in Intervals : SetInterval(ms)
    \/ \E b \in {"wake", "connected", "disconnected"} : Notify(b)
    \/ ReadInterval
    \/ PlanSleep
    \/ WakeUp
    \/ PublishTick
    \/ NoTick

TelemetrySpec == TelemetryInit /\ [][TelemetryNext]_telemetryVars
-----------------------------------------------------------------------------
(* Properties *)

TelemetryTypeOK ==
    /\ {time, interval_ms, next_tick, sleep_until} \subseteq Nat
    /\ interval \in Intervals /\ waking \in BOOLEAN
    /\ wakes \subseteq {"wake", "connected", "disconnected"}
    /\ worker \in {"read", "plan", "sleep", "awake"} /\ connected \in BOOLEAN
    /\ taken \in 0..MaxSamples

\* Each sample is in the window, in one telemetry or in a window that was not published,
\* and never in two, so no minimum or maximum is reported twice or lost.
SamplesCountOnce ==
    /\ window \cup telemetry \cup sent \cup dropped = 1..taken
    /\ window \cap (telemetry \cup sent \cup dropped) = {}
    /\ telemetry \cap sent = {} /\ dropped \cap (telemetry \cup sent) = {}

\* A worker asleep with no notification under way wakes within the interval that is set
\* now, however long the one was it fell asleep with and whenever it was changed.
SleepIsShort ==
    worker = "sleep" /\ connected /\ wakes = {} /\ ~waking => sleep_until <= time + interval

TelemetryIsOnTime == SamplesCountOnce /\ SleepIsShort
=============================================================================
