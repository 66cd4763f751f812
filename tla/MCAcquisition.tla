---------------------------- MODULE MCAcquisition ----------------------------
(***************************************************************************)
(* The way of a measurement from the pin to a client, for TLC: the         *)
(* converter, the range policy, the pipeline, the arithmetic of a          *)
(* calibration and the history.  They share no state in the models, so     *)
(* each behaviour moves one of them: the converter that serves two inputs, *)
(* the range of an input, a scan of two inputs under rate changes, a       *)
(* capture from one input whose codes jump and whose PGA range moves, the  *)
(* points of a table, or a ring and its reader.                            *)
(***************************************************************************)
EXTENDS RangePolicy, SampleHistory, AdsConverter, SamplePipeline, CalibrationMath

VARIABLE part

\* The converter serves two inputs.  A tick begins up to 6 of its 10 ms before the task goes
\* to sleep, and 100 SPS is a rate no firmware supports.
MCInputs == <<PowerVoltage, PowerCurrent>>

\* A fraction of a code is a quarter, and codes are -4 to 3.
MCWindows == {<<-4>>, <<1>>, <<0, 0>>, <<1, 2>>, <<-1, 0, 0>>}

\* Every voltage in the neighbourhood of a threshold or of a full scale, in steps of
\* half a unit, and one in the middle of each interval between them.
Near(u4) == {v \in (2 * u4 - 8)..(2 * u4 + 8) : v >= 0}
MCVoltages ==
    UNION {Near(u4) : u4 \in {0, 500, 572, 2200, 2400, 2560, 3840, 4160, 4400, 4800, 5120, 20480}}
        \cup {600, 2800, 4000, 9800, 20000}

\* A scan of codes that are all alike, in one range and without captures; 6 conversions of two
\* inputs outlast a pair and two rate changes.
Scans ==
    /\ PipelineNext /\ input_range' = input_range /\ request' = request
    /\ source_generation' <= 6
    /\ \A i \in InputSet : cache'[i] # NoSample => cache'[i].code = 0

\* A capture of the voltage, while the conversions of the current fail and the rate stays.
Captures ==
    /\ PipelineNext /\ epoch' = epoch
    /\ Scanned[scan.at] = PowerCurrent => source_generation' = source_generation
    /\ request'.active => request'.input = PowerVoltage

AllInit ==
    /\ part \in {"converter", "range", "scan", "capture", "correction", "history"}
    /\ AdsInit
    /\ part # "converter" => nvs_rate = Nothing
    /\ IF part = "range" THEN Init
       ELSE policy = ADS_RANGES /\ voltage = 0 /\ range = 3 /\ moved = "no" /\ changes = 0
    /\ PipelineInit
    /\ MathInit
    /\ HistoryInit

AllNext ==
    \/ part = "converter" /\ AdsNext /\ UNCHANGED <<part, vars, pipelineVars, table, historyVars>>
    \/ part = "range" /\ Next /\ UNCHANGED <<part, adsVars, pipelineVars, table, historyVars>>
    \/ part = "scan" /\ Scans /\ UNCHANGED <<part, adsVars, vars, table, historyVars>>
    \/ part = "capture" /\ Captures /\ UNCHANGED <<part, adsVars, vars, table, historyVars>>
    \/ part = "correction" /\ StorePoint /\ UNCHANGED <<part, adsVars, vars, pipelineVars, historyVars>>
    \/ part = "history" /\ HistoryNext /\ UNCHANGED <<part, adsVars, vars, pipelineVars, table>>

AllSpec == AllInit /\ [][AllNext]_<<part, adsVars, vars, pipelineVars, table, historyVars>>
=============================================================================
