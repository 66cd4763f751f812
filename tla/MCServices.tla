----------------------------- MODULE MCServices -----------------------------
(***************************************************************************)
(* The services with a clock, a queue or lights of their own for TLC:      *)
(* TimerSvc, Timebase, StatusLed and Telemetry.  They share no state, so   *)
(* each behaviour moves one.                                               *)
(***************************************************************************)
EXTENDS TimerSvc, Telemetry, StatusLed, Timebase

VARIABLE part

\* Steps that share an id, take no time, or switch off.
MCSteps ==
    {[id |-> "a", duration |-> 3, on |-> TRUE], [id |-> "a", duration |-> 0, on |-> TRUE],
     [id |-> "b", duration |-> 1, on |-> FALSE]}

\* Ends of February in leap and common years, of a year and of the last one; and two refused.
MCDates ==
    {[y |-> 2024, m |-> 2, d |-> 28, part |-> 1], [y |-> 2023, m |-> 2, d |-> 29, part |-> 0],
     [y |-> 2100, m |-> 2, d |-> 28, part |-> 1], [y |-> 2000, m |-> 12, d |-> 31, part |-> 0],
     [y |-> 9999, m |-> 12, d |-> 30, part |-> 1], [y |-> 1969, m |-> 12, d |-> 31, part |-> 1]}

AllInit ==
    /\ part \in {"timer", "clock", "leds", "telemetry"}
    /\ TimerInit /\ ClockInit /\ LedInit
    /\ TelemetryInit /\ (part # "telemetry" => interval = 1)

AllNext ==
    /\ UNCHANGED part
    /\ \/ part = "timer" /\ TimerNext /\ UNCHANGED <<timebaseVars, ledVars, telemetryVars>>
       \/ part = "clock" /\ ClockNext /\ UNCHANGED <<svcVars, ledVars, telemetryVars>>
       \/ part = "leds" /\ LedNext /\ UNCHANGED <<svcVars, timebaseVars, telemetryVars>>
       \/ part = "telemetry" /\ TelemetryNext /\ UNCHANGED <<svcVars, timebaseVars, ledVars>>
=============================================================================
