------------------------------ MODULE Settings ------------------------------
(***************************************************************************)
(* One persistent setting of protection_svc.c, measure_prov_ads1115.c or   *)
(* measure_svc_average.c.  A setter checks its argument, stores it in NVS  *)
(* with no lock held, and then puts it in RAM, from where the device works *)
(* until the next boot reads NVS again.  Setters run in the tasks of the   *)
(* USB and the TCP session; power can fail between any two steps.          *)
(*                                                                         *)
(* Settings share nothing with each other, so a behaviour is that of one   *)
(* of them, chosen at the start: "ovp" is an OVP threshold, "ocp" the OCP  *)
(* threshold or its enable, "rate" the ADC rate, "average" an averaging    *)
(* count.                                                                  *)
(***************************************************************************)
EXTENDS Integers

CONSTANTS
    Clients,       \* sessions that change the setting
    Idle,          \* no call in progress
    Missing,       \* the key is not in NVS
    Values,        \* numbers a client can send or an older firmware has stored
    MaxOvp,        \* limits.max_ovp_limit_u4
    Rates,         \* data rates of the ADS1115
    MinAverage,    \* MEASURE_SVC_MIN_AVERAGE_COUNT
    MaxAverage,    \* MEASURE_SVC_MAX_AVERAGE_COUNT
    Default        \* what is used when a key is missing

SettingNames == {"ovp", "ocp", "rate", "average"}

VARIABLES
    setting,   \* which setting this is
    nvs,       \* what a boot would read
    ram,       \* what the device works with
    call,      \* a client's setter call that has passed its checks
    raced,     \* history: the last change was by calls that overlapped
    torn       \* history: a call returned an error and left NVS changed

vars == <<setting, nvs, ram, call, raced, torn>>

Clamped(n) == IF n < MinAverage THEN MinAverage ELSE IF n > MaxAverage THEN MaxAverage ELSE n

\* The values a setting may have while the device runs.
Legal(s) ==
    CASE s = "ovp" -> {v \in Values : v <= MaxOvp}
      [] s = "ocp" -> Values
      [] s = "rate" -> Rates
      [] s = "average" -> MinAverage..MaxAverage

ASSUME ValuesAssumption ==
    /\ Values \subseteq Int /\ Rates \subseteq Values /\ MaxOvp \in Int
    /\ MinAverage \in Int /\ MaxAverage \in Int /\ MinAverage <= MaxAverage
    /\ MinAverage..MaxAverage \subseteq Values
    /\ Missing \notin Values
ASSUME DefaultAssumption ==
    /\ DOMAIN Default = SettingNames
    /\ \A s \in SettingNames : Default[s] \in Legal(s)

Calls == [value : Values, stored : BOOLEAN, alone : BOOLEAN]
ASSUME IdleAssumption == Idle \notin Calls

TypeOK ==
    /\ setting \in SettingNames
    /\ nvs \in Values \cup {Missing}
    /\ ram \in Values
    /\ call \in [Clients -> Calls \cup {Idle}]
    /\ raced \in BOOLEAN /\ torn \in BOOLEAN

Calling == {c \in Clients : call[c] # Idle}

\* What a boot makes of what it reads.
Loaded(stored) ==
    IF stored = Missing \/ (setting \in {"ovp", "rate"} /\ stored \notin Legal(setting))
    THEN Default[setting]
    ELSE IF setting = "average" THEN Clamped(stored) ELSE stored

\* protection_svc_init_with_limits writes a corrected OVP threshold back; the others
\* leave NVS as it is.
WrittenBack(stored) ==
    IF setting = "ovp" /\ stored # Missing /\ stored \notin Legal(setting)
    THEN Default[setting] ELSE stored

Init ==
    /\ setting \in SettingNames
    /\ \E old \in Values \cup {Missing} : nvs = WrittenBack(old) /\ ram = Loaded(old)
    /\ call = [c \in Clients |-> Idle]
    /\ raced = FALSE /\ torn = FALSE

\* A setter passes its checks.  An averaging count is clamped, the rest is rejected.
Begin(c, v) ==
    /\ call[c] = Idle
    /\ setting = "average" \/ v \in Legal(setting)
    /\ call' = [d \in Clients |->
           IF d = c THEN [value |-> IF setting = "average" THEN Clamped(v) ELSE v,
                          stored |-> FALSE, alone |-> Calling = {}]
           ELSE IF d \in Calling THEN [call[d] EXCEPT !.alone = FALSE]
           ELSE Idle]
    /\ raced' = (raced \/ Calling # {})
    /\ UNCHANGED <<setting, nvs, ram, torn>>

\* nvs_set and nvs_commit succeed.
Store(c) ==
    /\ call[c] # Idle /\ ~call[c].stored
    /\ nvs' = call[c].value
    /\ call' = [call EXCEPT ![c].stored = TRUE]
    /\ UNCHANGED <<setting, ram, raced, torn>>

\* The setter returns the error and leaves RAM alone.  When it was nvs_commit that
\* failed, NVS may have taken the value.
StoreFails(c) ==
    /\ call[c] # Idle /\ ~call[c].stored
    /\ \/ nvs' = call[c].value /\ torn' = TRUE
       \/ UNCHANGED <<nvs, torn>>
    /\ call' = [call EXCEPT ![c] = Idle]
    /\ UNCHANGED <<setting, ram, raced>>

\* Mutant: RAM is set before the store has succeeded.
ApplyUnstored(c) ==
    /\ call[c] # Idle
    /\ ram' = call[c].value
    /\ call' = [call EXCEPT ![c] = Idle]
    /\ raced' = ~call[c].alone
    /\ torn' = (torn /\ ~call[c].alone)
    /\ UNCHANGED <<setting, nvs>>

\* The value is put in RAM, under the lock of the component that has one.
Apply(c) ==
    /\ call[c] # Idle /\ call[c].stored
    /\ ram' = call[c].value
    /\ call' = [call EXCEPT ![c] = Idle]
    /\ raced' = ~call[c].alone
    /\ torn' = (torn /\ ~call[c].alone)
    /\ UNCHANGED <<setting, nvs>>

\* A power loss, and the boot that follows it.
Restart ==
    /\ nvs' = WrittenBack(nvs)
    /\ ram' = Loaded(nvs)
    /\ call' = [c \in Clients |-> Idle]
    /\ raced' = FALSE /\ torn' = FALSE
    /\ UNCHANGED setting

Next ==
    \/ \E c \in Clients :
           \/ \E v \in Values : Begin(c, v)
           \/ Store(c)
           \/ StoreFails(c)
           \/ Apply(c)
    \/ Restart

Spec == Init /\ [][Next]_vars
-----------------------------------------------------------------------------
(* Properties *)

\* Whatever an older firmware left in NVS and wherever the power fails, the device
\* works with a legal value: no threshold above the limit, no rate the ADC lacks, no
\* averaging count outside its bounds.
RamIsLegal == ram \in Legal(setting)

\* A power loss at any point costs at most the call in progress: the boot that follows
\* works with the value the device had or, when a call had stored its own, with that.
\* A setting whose last change was by calls that overlapped is exempt until a call on
\* its own sets it again, and so is one that a failed nvs_commit has left changed.
RestartKeepsOrCompletes ==
    ~raced /\ ~torn => Loaded(nvs) \in {ram} \cup {call[c].value : c \in Calling}

\* The device works with legal values, and a power loss keeps or completes the last call.
SettingIsSound == RamIsLegal /\ RestartKeepsOrCompletes

\* .doc/scpi-ref.md: "Protection settings are persisted in NVS."  Once every call on
\* the threshold has returned and none has failed, the threshold the device works
\* with is the one the next boot loads.
ProtectionIsPersisted ==
    setting \in {"ovp", "ocp"} /\ Calling = {} /\ ~torn => Loaded(nvs) = ram
=============================================================================
