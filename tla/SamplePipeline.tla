--------------------------- MODULE SamplePipeline ---------------------------
(***************************************************************************)
(* From the ADC to the listeners.  The acquisition task scans the inputs   *)
(* and refreshes a cache of one conversion per input; the sampler polls    *)
(* the cache, publishes each conversion once and runs the listeners: the   *)
(* pairing of voltage and current into power, and the calibration capture  *)
(* that collects a window of codes for a client.  Clients change the ADC   *)
(* rate under the scan.                                                    *)
(*                                                                         *)
(* A conversion is the record the cache holds: its generation, its code    *)
(* and the PGA range and rate it was made with (the rate is not stored in  *)
(* the code; here it tells old conversions from new ones).  Where the code *)
(* compares a reading with the thresholds of the autorange policy, the     *)
(* next range is any neighbour: RangePolicy has the thresholds.            *)
(***************************************************************************)
EXTENDS Integers, Sequences, SequencesExt, FiniteSetsExt

CONSTANTS
    Scanned,         \* a sequence: ADS_SCANNED_INPUTS
    PowerVoltage,    \* the input of the CH1 voltage
    PowerCurrent,    \* the input of the CH1 current
    AdcCodes,        \* conversion results
    TopRange,        \* the last index of ADS_RANGES
    ScanRates,       \* ADC rates
    FirstRate,       \* the rate after start-up
    CaptureDiscards, \* MEASURE_SVC_CAL_CAPTURE_DISCARD_SAMPLES
    MaxSpread,       \* MEASURE_SVC_CAL_STABILITY_P2P_MAX_CODES
    SampleCounts,    \* window lengths a capture asks for
    NoSample,        \* no conversion
    MaxGeneration,   \* bound on conversions
    MaxEpoch         \* bound on rate changes

InputSet == Range(Scanned)
Ranges == 0..TopRange

VARIABLES
    scan_rate, epoch,   \* s_data_rate_sps, s_rate_epoch
    source_generation,  \* s_source_generation
    input_range,        \* s_input_range_index
    cache,              \* s_sample_cache
    scan,               \* where the acquisition task is, and what it took from the above
    sampled,            \* what the sampler has read and not yet published
    last_published,     \* s_last_published_generation
    pending,            \* the half of a power pair that waits for the other
    power,              \* history: the generations of the last power pair
    request,            \* s_request of the capture
    armed               \* history: source_generation when the capture was armed

provider == <<scan_rate, epoch, source_generation, input_range, cache>>
capture == <<request, armed>>
pipelineVars == <<provider, scan, sampled, last_published, pending, power, capture>>

Conversions == [generation : 1..MaxGeneration, code : AdcCodes, pga : Ranges, rate : ScanRates]
NoRange == -1   \* window_pga_full_scale_mv = 0

\* Two discards are for the conversion that the sampler may hold and the one in the cache.
ASSUME PipelineAssumption ==
    /\ Scanned # <<>> /\ Scanned \in Seq(InputSet)
    /\ PowerVoltage # PowerCurrent /\ {PowerVoltage, PowerCurrent} \subseteq InputSet
    /\ AdcCodes \subseteq Int /\ TopRange \in Nat /\ FirstRate \in ScanRates
    /\ CaptureDiscards \in Nat /\ CaptureDiscards >= 2
    /\ MaxSpread \in Nat /\ SampleCounts \subseteq Nat \ {0}
    /\ MaxGeneration \in Nat /\ MaxEpoch \in Nat
    /\ NoSample \notin Conversions

\* measure_svc_cal_capture_window_reset
EmptyWindow(n) == [discard |-> CaptureDiscards, codes |-> <<>>, requested |-> n]
NoRequest == [active |-> FALSE, ready |-> FALSE, input |-> PowerVoltage,
              window |-> EmptyWindow(1), pga |-> NoRange, last |-> 0]

Windows == [discard : 0..CaptureDiscards, codes : Seq(Conversions), requested : SampleCounts \cup {1}]
Requests == [active : BOOLEAN, ready : BOOLEAN, input : InputSet, window : Windows,
             pga : Ranges \cup {NoRange}, last : 0..MaxGeneration]

PipelineTypeOK ==
    /\ scan_rate \in ScanRates
    /\ epoch \in 0..MaxEpoch
    /\ source_generation \in 0..MaxGeneration
    /\ input_range \in [InputSet -> Ranges]
    /\ cache \in [InputSet -> Conversions \cup {NoSample}]
    /\ scan \in [at : 1..Len(Scanned), converting : BOOLEAN, rate : ScanRates,
                 epoch : 0..MaxEpoch, pga : Ranges]
    /\ sampled \in [input : InputSet, sample : Conversions \cup {NoSample}]
    /\ last_published \in [InputSet -> 0..MaxGeneration]
    /\ pending \in [{PowerVoltage, PowerCurrent} -> Conversions \cup {NoSample}]
    /\ power \in [{PowerVoltage, PowerCurrent} -> 0..MaxGeneration]
    /\ request \in Requests
    /\ armed \in 0..MaxGeneration

PipelineInit ==
    /\ scan_rate = FirstRate
    /\ epoch = 0
    /\ source_generation = 0
    /\ input_range = [i \in InputSet |-> TopRange]
    /\ cache = [i \in InputSet |-> NoSample]
    /\ scan = [at |-> 1, converting |-> FALSE, rate |-> FirstRate, epoch |-> 0, pga |-> TopRange]
    /\ sampled = [input |-> PowerVoltage, sample |-> NoSample]
    /\ last_published = [i \in InputSet |-> 0]
    /\ pending = [i \in {PowerVoltage, PowerCurrent} |-> NoSample]
    /\ power = [i \in {PowerVoltage, PowerCurrent} |-> 0]
    /\ request = NoRequest
    /\ armed = 0
-----------------------------------------------------------------------------
(* The acquisition task *)

NextInput == (scan.at % Len(Scanned)) + 1

\* One critical section takes rate, epoch and range; the conversion itself runs
\* without the lock.
StartConversion ==
    /\ ~scan.converting
    /\ scan' = [scan EXCEPT !.converting = TRUE, !.rate = scan_rate, !.epoch = epoch,
                            !.pga = input_range[Scanned[scan.at]]]
    /\ UNCHANGED <<provider, sampled, last_published, pending, power, capture>>

\* measure_prov_ads1115_range_select moves to a neighbour at most.
Neighbours(r) == {s \in Ranges : s - r \in -1..1}

\* Mutant: a conversion is kept whatever became of the rate.
FinishUnchecked(code) ==
    /\ scan.converting
    /\ scan' = [scan EXCEPT !.converting = FALSE, !.at = NextInput]
    /\ LET i == Scanned[scan.at] IN
           /\ source_generation < MaxGeneration
           /\ source_generation' = source_generation + 1
           /\ cache' = [cache EXCEPT ![i] =
                  [generation |-> source_generation + 1, code |-> code,
                   pga |-> scan.pga, rate |-> scan.rate]]
           /\ \E r \in Neighbours(input_range[i]) : input_range' = [input_range EXCEPT ![i] = r]
    /\ UNCHANGED <<scan_rate, epoch, sampled, last_published, pending, power, capture>>

\* The second critical section drops the conversion if the rate was set meanwhile.
FinishConversion(code) ==
    /\ scan.converting
    /\ scan' = [scan EXCEPT !.converting = FALSE, !.at = NextInput]
    /\ LET i == Scanned[scan.at] IN
       IF scan.epoch = epoch
       THEN /\ source_generation < MaxGeneration
            /\ source_generation' = source_generation + 1
            /\ cache' = [cache EXCEPT ![i] =
                   [generation |-> source_generation + 1, code |-> code,
                    pga |-> scan.pga, rate |-> scan.rate]]
            /\ \E r \in Neighbours(input_range[i]) : input_range' = [input_range EXCEPT ![i] = r]
       ELSE UNCHANGED <<source_generation, cache, input_range>>
    /\ UNCHANGED <<scan_rate, epoch, sampled, last_published, pending, power, capture>>

\* An I2C error: the input keeps its cached conversion and the scan goes on.
FailConversion ==
    /\ scan.converting
    /\ scan' = [scan EXCEPT !.converting = FALSE, !.at = NextInput]
    /\ UNCHANGED <<provider, sampled, last_published, pending, power, capture>>

\* The step of set_data_rate_sps that the lock protects.
ApplyDataRate(sps) ==
    /\ epoch < MaxEpoch
    /\ scan_rate' = sps
    /\ epoch' = epoch + 1
    /\ cache' = [i \in InputSet |-> NoSample]
    /\ UNCHANGED <<source_generation, input_range, scan, sampled, last_published, pending, power, capture>>
-----------------------------------------------------------------------------
(* The sampler and the listeners it runs *)

\* sample_input: ESP_ERR_NOT_FINISHED and a repeated generation publish nothing.
ReadSample(i) ==
    /\ sampled.sample = NoSample
    /\ cache[i] # NoSample
    /\ cache[i].generation # last_published[i]
    /\ sampled' = [input |-> i, sample |-> cache[i]]
    /\ last_published' = [last_published EXCEPT ![i] = cache[i].generation]
    /\ UNCHANGED <<provider, scan, pending, power, capture>>

Partner(i) == IF i = PowerVoltage THEN PowerCurrent ELSE PowerVoltage

\* power_listener and emit_power
Pair(i, s) ==
    IF i \notin {PowerVoltage, PowerCurrent} THEN UNCHANGED <<pending, power>>
    ELSE IF pending[Partner(i)] = NoSample
    THEN /\ pending' = [pending EXCEPT ![i] = s]
         /\ UNCHANGED power
    ELSE /\ power' = [power EXCEPT ![i] = s.generation, ![Partner(i)] = pending[Partner(i)].generation]
         /\ pending' = [j \in {PowerVoltage, PowerCurrent} |-> NoSample]

\* measure_svc_cal_capture_window_add, on a window that is not complete yet.
AddToWindow(w, s) ==
    IF w.discard > 0 THEN [w EXCEPT !.discard = @ - 1]
    ELSE [w EXCEPT !.codes = Append(@, s)]

Complete(w) == Len(w.codes) = w.requested
CodesOf(w) == {w.codes[k].code : k \in DOMAIN w.codes}
Stable(w) == Max(CodesOf(w)) - Min(CodesOf(w)) <= MaxSpread

Collects(i) == request.active /\ ~request.ready /\ request.input = i

\* capture_listener: another PGA or an unstable window starts the window anew.
Collect(i, s) ==
    IF ~Collects(i) \/ s.generation = request.last THEN UNCHANGED request
    ELSE LET kept == IF request.pga \notin {NoRange, s.pga} THEN EmptyWindow(request.window.requested)
                     ELSE request.window
             w == AddToWindow(kept, s) IN
         request' = [request EXCEPT
             !.last = s.generation,
             !.pga = s.pga,
             !.ready = Complete(w) /\ Stable(w),
             !.window = IF Complete(w) /\ ~Stable(w) THEN EmptyWindow(w.requested) ELSE w]

\* The event bus runs the listeners one after another in the sampler's task.
PublishSample ==
    /\ sampled.sample # NoSample
    /\ Pair(sampled.input, sampled.sample)
    /\ Collect(sampled.input, sampled.sample)
    /\ sampled' = [sampled EXCEPT !.sample = NoSample]
    /\ UNCHANGED <<provider, scan, last_published, armed>>
-----------------------------------------------------------------------------
(* A client that captures *)

\* Mutant: one sample too few is discarded.
ArmOneDiscard(i, n) ==
    /\ ~request.active
    /\ request' = [NoRequest EXCEPT !.active = TRUE, !.input = i,
                                    !.window = [EmptyWindow(n) EXCEPT !.discard = CaptureDiscards - 1]]
    /\ armed' = source_generation
    /\ UNCHANGED <<provider, scan, sampled, last_published, pending, power>>

ArmCapture(i, n) ==
    /\ ~request.active
    /\ request' = [NoRequest EXCEPT !.active = TRUE, !.input = i, !.window = EmptyWindow(n)]
    /\ armed' = source_generation
    /\ UNCHANGED <<provider, scan, sampled, last_published, pending, power>>

\* The waiting client takes the mean, or gives up at the timeout.  What it leaves in
\* s_request is overwritten when the next capture is armed.
EndCapture ==
    /\ request.active
    /\ request' = NoRequest
    /\ UNCHANGED <<provider, scan, sampled, last_published, pending, power, armed>>
-----------------------------------------------------------------------------
PipelineNext ==
    \/ StartConversion
    \/ \E code \in AdcCodes : FinishConversion(code)
    \/ FailConversion
    \/ \E sps \in ScanRates : ApplyDataRate(sps)
    \/ \E i \in InputSet : ReadSample(i)
    \/ PublishSample
    \/ \E i \in InputSet, n \in SampleCounts : ArmCapture(i, n)
    \/ EndCapture

PipelineSpec == PipelineInit /\ [][PipelineNext]_pipelineVars
-----------------------------------------------------------------------------
(* Properties *)

\* However a rate change falls into a conversion, the cache never holds a
\* conversion made at a rate that is no longer set.
CacheIsOfRate == \A i \in DOMAIN cache : cache[i] = NoSample \/ cache[i].rate = scan_rate

\* The cache is of the rate in force, no conversion is used in two power pairs, and a
\* pair is made of the newest published conversion of both inputs, also across rate
\* changes that empty the cache and conversions the sampler came too late for.
ConversionsAreFresh ==
    [][/\ CacheIsOfRate'
       /\ power' # power =>
              \A i \in {PowerVoltage, PowerCurrent} :
                  power'[i] > power[i] /\ power'[i] = last_published[i]]_pipelineVars

\* An accepted window has the requested number of different conversions, of one PGA
\* range, with codes that spread no more than the limit, and none of them was already
\* in the cache, or read by the sampler and not yet published, when the capture was armed.
WindowIsSound ==
    request.ready =>
        LET w == request.window IN
        /\ \A s \in Range(w.codes) : s.generation > armed
        /\ Cardinality(Range(w.codes)) = w.requested
        /\ \A s, t \in Range(w.codes) : s.pga = t.pga /\ s.code - t.code <= MaxSpread
        /\ \A s, t \in Range(w.codes) : s.generation = t.generation => s = t
=============================================================================
