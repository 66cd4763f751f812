---------------------------- MODULE AdsConverter ----------------------------
(***************************************************************************)
(* How measure_prov_ads1115.c obtains one code from the ADS1115: start-up, *)
(* the data rate it keeps in NVS, and the acquisition task that selects    *)
(* each input in turn, throws the first conversions away and accepts the   *)
(* last one.  What becomes of an accepted code is SamplePipeline's.        *)
(*                                                                         *)
(* The converter has no ready signal here (ALERT/RDY is unused): the task  *)
(* starts a conversion, sleeps and reads.  vTaskDelay(n) ends at the n-th  *)
(* tick from now, so it lasts as much less than n ticks as the current     *)
(* tick is old, and a read can come before the end of its conversion.  It  *)
(* then finds the one before, of whatever input that was.  Times are in    *)
(* milliseconds.                                                           *)
(***************************************************************************)
EXTENDS Integers, Sequences, SequencesExt

CONSTANTS
    Inputs,          \* a sequence: ADS_SCANNED_INPUTS
    Current,         \* s_current_input
    Pgas,            \* full scales of ADS_RANGES, in mV
    Rates,           \* data rates a client sets or an older firmware stored
    DefaultRate,     \* ADS1115_DEFAULT_DATA_RATE_SPS
    TickMs,          \* portTICK_PERIOD_MS
    TickAges,        \* how old the current tick is when the task goes to sleep
    Nothing          \* no conversion, no stored rate, no accepted code

\* ads1115_data_rate_bits
SupportedRates == {8, 16, 32, 64, 128, 250, 475, 860}

\* ads1115_build_config: what selects an input and its gain.
Config(input, pga, sps) == [input |-> input, pga |-> pga, rate |-> sps]

ASSUME AdsAssumption ==
    /\ Inputs # <<>> /\ Inputs \in Seq(ToSet(Inputs))
    /\ Pgas # {} /\ DefaultRate \in SupportedRates
    /\ TickMs \in Nat \ {0} /\ TickAges \subseteq 0..(TickMs - 1)
    /\ \A input \in ToSet(Inputs), pga \in Pgas \cup {2048}, sps \in SupportedRates :
           Config(input, pga, sps) # Nothing

VARIABLES
    running,     \* s_ads_initialized, and the acquisition task exists
    rate,        \* s_data_rate_sps
    nvs_rate,    \* the key ads_rate_sps
    turn,        \* the acquisition task: the input, its selection, the conversion it is at
    converter,   \* the chip: the conversion in progress and the one in the register
    early,       \* history: reads of this turn that came too early, up to 2, with the one
                 \* that left the turn before with its conversion unfinished
    accepted     \* history: a code that was accepted just now

adsVars == <<running, rate, nvs_rate, turn, converter, early, accepted>>

\* Mutant: the current input, with no settling to wait for, accepts its first conversion.
SettlingVoltageOnly(input, pga) ==
    IF input = Current THEN 0 ELSE IF pga = 256 THEN 3 ELSE 1

\* measure_prov_ads1115_settling_conversions: the dividers settle slowly at +-256 mV.
Settling(input, pga) == IF input # Current /\ pga = 256 THEN 3 ELSE 1

\* A data rate is within 10% of its nominal value.
IsOver(ms, sps) == ms * 9 * sps >= 10000
MayBeOver(ms, sps) == ms * 11 * sps >= 10000

\* ads1115_conversion_delay_ticks, without the tick that stands for a rounded-off rest.
DelayMs(sps) == (10000 + (9 * sps) - 1) \div (9 * sps)

DelayTicks(sps) ==
    LET ticks == DelayMs(sps) \div TickMs IN
    IF ticks = 0 \/ ticks * TickMs < DelayMs(sps) THEN ticks + 1 ELSE ticks

\* ads1115_load_data_rate
Loaded == IF nvs_rate \in SupportedRates THEN nvs_rate ELSE DefaultRate

\* A turn that begins with a conversion in progress owes it to one read.
Left(c) == IF c.busy = Nothing THEN 0 ELSE 1

NoTurn == [at |-> 1, pga |-> 2048, rate |-> DefaultRate, started |-> 0, done |-> 0, waiting |-> FALSE]

AdsInit ==
    /\ running = FALSE
    /\ rate = DefaultRate
    /\ nvs_rate \in Rates \cup {Nothing}
    /\ turn = NoTurn
    /\ converter = [busy |-> Nothing, elapsed |-> 0, register |-> Nothing]
    /\ early = 0
    /\ accepted = Nothing
-----------------------------------------------------------------------------
(* Start-up and the data rate *)

\* measure_prov_ads1115_init.  Any step of it that fails makes main restart, which
\* changes nothing here: the converter has its own power-on reset only.
StartAds ==
    /\ ~running
    /\ running' = TRUE
    /\ rate' = Loaded
    /\ turn' = [NoTurn EXCEPT !.rate = Loaded]
    /\ early' = Left(converter)
    /\ accepted' = Nothing
    /\ UNCHANGED <<nvs_rate, converter>>

\* A reset of the processor, which the converter does not notice.
Restart ==
    /\ running
    /\ running' = FALSE
    /\ turn' = NoTurn
    /\ accepted' = Nothing
    /\ UNCHANGED <<rate, nvs_rate, converter, early>>

\* ads1115_store_data_rate: a store that fails may have reached the flash all the same.
StoreDataRate(sps, ok) == nvs_rate' \in IF ok THEN {sps} ELSE {nvs_rate, sps}

\* measure_prov_ads1115_set_data_rate_sps; the two steps of it are apart in SamplePipeline.
SetDataRate(sps) ==
    /\ running
    /\ sps \in SupportedRates
    /\ \/ StoreDataRate(sps, TRUE) /\ rate' = sps
       \/ StoreDataRate(sps, FALSE) /\ UNCHANGED rate
    /\ UNCHANGED <<running, turn, converter, early, accepted>>
-----------------------------------------------------------------------------
(* The acquisition task *)

Input == Inputs[turn.at]
Selected == Config(Input, turn.pga, turn.rate)

\* The next input starts with the range the policy left for it and the rate in force.
NextTurn ==
    \E pga \in Pgas :
        turn' = [at |-> (turn.at % Len(Inputs)) + 1, pga |-> pga, rate |-> rate,
                 started |-> 0, done |-> 0, waiting |-> FALSE]

\* ads1115_read_single_shot writes the configuration.  A converter that is still
\* converting drops the conversion for a new one or finishes it and starts none.
WriteConfig ==
    /\ running /\ ~turn.waiting
    /\ turn' = [turn EXCEPT !.waiting = TRUE, !.started = @ + 1]
    /\ \/ converter' = [converter EXCEPT !.busy = Selected, !.elapsed = 0]
       \/ converter.busy # Nothing /\ UNCHANGED converter
    /\ accepted' = Nothing
    /\ UNCHANGED <<running, rate, nvs_rate, early>>

\* The transfer fails, or its acknowledge is lost: the task gives the turn up.
WriteFails ==
    /\ running /\ ~turn.waiting
    /\ converter' \in {converter, [converter EXCEPT !.busy = Selected, !.elapsed = 0]}
    /\ NextTurn
    /\ early' = Left(converter')
    /\ accepted' = Nothing
    /\ UNCHANGED <<running, rate, nvs_rate>>

\* The task has slept from a moment when the tick was `age` old.
Slept(age) ==
    LET elapsed == converter.elapsed + (DelayTicks(turn.rate) * TickMs) - age
        finished == [busy |-> Nothing, elapsed |-> 0, register |-> converter.busy] IN
    /\ \/ /\ MayBeOver(elapsed, converter.busy.rate)
          /\ converter' = finished
       \/ /\ ~IsOver(elapsed, converter.busy.rate)
          /\ converter' = [converter EXCEPT !.elapsed = elapsed]

IsEarly == converter'.busy # Nothing
Early == IF IsEarly /\ early < 2 THEN early + 1 ELSE early

\* ads1115_read_settled_single_shot: the first codes are discarded.
Discards == Settling(Input, turn.pga)
Finished == IF converter'.register = Selected /\ ~IsEarly THEN turn.done + 1 ELSE turn.done

ReadDiscarded(age) ==
    /\ running /\ turn.waiting
    /\ turn.started <= Discards
    /\ Slept(age)
    /\ turn' = [turn EXCEPT !.waiting = FALSE, !.done = Finished]
    /\ early' = Early
    /\ UNCHANGED <<running, rate, nvs_rate, accepted>>

ReadAccepted(age) ==
    /\ running /\ turn.waiting
    /\ turn.started > Discards
    /\ Slept(age)
    /\ accepted' = [wanted |-> Selected, code |-> converter'.register, done |-> Finished,
                    early |-> Early]
    /\ NextTurn
    /\ early' = Left(converter')
    /\ UNCHANGED <<running, rate, nvs_rate>>

\* The register cannot be read: the input keeps what SamplePipeline has cached of it.
ReadFails(age) ==
    /\ running /\ turn.waiting
    /\ Slept(age)
    /\ NextTurn
    /\ early' = Left(converter')
    /\ UNCHANGED <<running, rate, nvs_rate, accepted>>
-----------------------------------------------------------------------------
AdsNext ==
    \/ StartAds
    \/ Restart
    \/ \E sps \in Rates : SetDataRate(sps)
    \/ WriteConfig
    \/ WriteFails
    \/ \E age \in TickAges : ReadDiscarded(age) \/ ReadAccepted(age) \/ ReadFails(age)

AdsSpec == AdsInit /\ [][AdsNext]_adsVars
-----------------------------------------------------------------------------
(* Properties *)

Configs == [input : ToSet(Inputs), pga : Pgas \cup {2048}, rate : SupportedRates]
Turns == [at : 1..Len(Inputs), pga : Pgas \cup {2048}, rate : SupportedRates,
          started : Nat, done : Nat, waiting : BOOLEAN]

AdsTypeOK ==
    /\ running \in BOOLEAN /\ rate \in SupportedRates /\ nvs_rate \in Rates \cup {Nothing}
    /\ turn \in Turns
    /\ converter \in [busy : Configs \cup {Nothing}, elapsed : Int, register : Configs \cup {Nothing}]
    /\ early \in 0..2
    /\ accepted \in {Nothing} \cup
           [wanted : Configs, code : Configs \cup {Nothing}, done : Nat, early : 0..2]

\* One read that comes before the end of its conversion, a transfer that fails or a
\* reset never makes the conversion of another input, gain or rate pass for the
\* selected one's: it takes two of them within one turn and the end of the turn
\* before.  Without any, every discarded conversion was of the selected input, too.
\* And a sleep that begins with a tick lasts as long as the slowest conversion.
AcceptedIsSettled ==
    /\ accepted # Nothing =>
           /\ accepted.code = accepted.wanted \/ accepted.early = 2
           /\ accepted.early = 0 =>
                  accepted.done = Settling(accepted.wanted.input, accepted.wanted.pga) + 1
    /\ \A sps \in SupportedRates : IsOver(DelayTicks(sps) * TickMs, sps)
=============================================================================
