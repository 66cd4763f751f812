----------------------------- MODULE MqttSettings -----------------------------
(***************************************************************************)
(* The configuration of the MQTT service: mqtt_svc_config.c and the        *)
(* setters of mqtt_svc.c.  Unlike the settings of Settings and the         *)
(* credentials of WifiManager, a key is stored and put in RAM under one    *)
(* lock.  All keys are loaded at boot or none: one string that no longer   *)
(* fits its buffer keeps the service down, and then every setter refuses.  *)
(*                                                                         *)
(* The password goes the way of the user, the interval that of the prefix, *)
(* and "enabled" that of the interval without its check.                   *)
(***************************************************************************)
CONSTANTS
    Setters,       \* tasks that serve a SCPI client
    Good,          \* texts the validators accept for every key
    Odd,           \* one that fits the buffers and that no validator accepts
    Blank,         \* ""
    Overlong,      \* one that does not fit a buffer
    Absent,        \* the key is not in NVS
    Standard,      \* MQTT_SVC_DEFAULT_PREFIX
    NoOne

ASSUME TextsAssumption ==
    /\ {Absent, Overlong} \cap (Good \cup {Odd, Blank, Standard}) = {}
    /\ Absent # Overlong
    /\ NoOne \notin Setters

VARIABLES
    mqtt_nvs,      \* the keys in NVS
    config,        \* s_mqtt.config
    up,            \* s_mqtt.initialized
    set,           \* a session's setter
    owner,         \* who has s_mqtt.lock
    mqtt_torn      \* history: keys a failed nvs_commit has left changed

mqttVars == <<mqtt_nvs, config, up, set, owner, mqtt_torn>>

MqttKeys == {"uri", "user", "prefix"}
Strings == Good \cup {Odd, Blank, Overlong, Standard}

Setter == [key : MqttKeys, value : Strings, stored : BOOLEAN]

ASSUME SetterAssumption == NoOne \notin Setter

MqttTypeOK ==
    /\ mqtt_nvs \in [MqttKeys -> Strings \cup {Absent}]
    /\ config \in [MqttKeys -> Strings]
    /\ up \in BOOLEAN
    /\ set \in [Setters -> Setter \cup {NoOne}]
    /\ owner \in Setters \cup {NoOne}
    /\ mqtt_torn \subseteq MqttKeys

\* mqtt_svc_config_validate_uri and its siblings
Validates(k, v) == v \in Good \cup {Standard} \/ (k = "user" /\ v = Blank)

\* mqtt_svc_config_set_defaults
DefaultText(k) == IF k = "prefix" THEN Standard ELSE Blank

\* nvs_get_str fails on a string that is longer than the buffer.
Loads == \A k \in MqttKeys : mqtt_nvs[k] # Overlong

\* mqtt_svc_config_load.  A user name is taken as it is.
LoadedText(k) ==
    IF mqtt_nvs[k] = Absent \/ (k # "user" /\ ~Validates(k, mqtt_nvs[k]))
    THEN DefaultText(k) ELSE mqtt_nvs[k]

MqttInit ==
    /\ mqtt_nvs \in [MqttKeys -> {Absent, Odd, Overlong} \cup Good]
    /\ up = Loads
    /\ config = IF Loads THEN [k \in MqttKeys |-> LoadedText(k)] ELSE [k \in MqttKeys |-> DefaultText(k)]
    /\ set = [c \in Setters |-> NoOne]
    /\ owner = NoOne
    /\ mqtt_torn = {}

\* A power loss and the boot that follows.
MqttRestart ==
    /\ up' = Loads
    /\ config' = IF Loads THEN [k \in MqttKeys |-> LoadedText(k)] ELSE [k \in MqttKeys |-> DefaultText(k)]
    /\ set' = [c \in Setters |-> NoOne]
    /\ owner' = NoOne
    /\ mqtt_torn' = {}
    /\ UNCHANGED mqtt_nvs

\* The checks of a setter, and mqtt_svc_take_lock's of the service.
Request(c, k, v) ==
    /\ set[c] = NoOne /\ up
    /\ Validates(k, v)
    /\ set' = [set EXCEPT ![c] = [key |-> k, value |-> v, stored |-> FALSE]]
    /\ UNCHANGED <<mqtt_nvs, config, up, owner, mqtt_torn>>

TakeLock(c) ==
    /\ set[c] # NoOne /\ owner = NoOne
    /\ owner' = c
    /\ UNCHANGED <<mqtt_nvs, config, up, set, mqtt_torn>>

\* Mutant: the lock is for NVS only.
StoreAndRelease(c) ==
    /\ owner = c /\ ~set[c].stored
    /\ mqtt_nvs' = [mqtt_nvs EXCEPT ![set[c].key] = set[c].value]
    /\ set' = [set EXCEPT ![c].stored = TRUE]
    /\ owner' = NoOne
    /\ UNCHANGED <<config, up, mqtt_torn>>

\* mqtt_svc_config_store_string and mqtt_svc_config_store_u32
StoreText(c) ==
    /\ owner = c /\ ~set[c].stored
    /\ mqtt_nvs' = [mqtt_nvs EXCEPT ![set[c].key] = set[c].value]
    /\ set' = [set EXCEPT ![c].stored = TRUE]
    /\ mqtt_torn' = mqtt_torn \ {set[c].key}
    /\ UNCHANGED <<config, up, owner>>

\* When it was nvs_commit that failed, NVS may have taken the value.
StoreTextFails(c) ==
    /\ owner = c /\ ~set[c].stored
    /\ \/ UNCHANGED <<mqtt_nvs, mqtt_torn>>
       \/ /\ mqtt_nvs' = [mqtt_nvs EXCEPT ![set[c].key] = set[c].value]
          /\ mqtt_torn' = mqtt_torn \cup {set[c].key}
    /\ set' = [set EXCEPT ![c] = NoOne]
    /\ owner' = NoOne
    /\ UNCHANGED <<config, up>>

ApplyText(c) ==
    /\ owner = c /\ set[c].stored
    /\ config' = [config EXCEPT ![set[c].key] = set[c].value]
    /\ set' = [set EXCEPT ![c] = NoOne]
    /\ owner' = NoOne
    /\ UNCHANGED <<mqtt_nvs, up, mqtt_torn>>

MqttNext ==
    \/ MqttRestart
    \/ \E c \in Setters :
           \/ \E k \in MqttKeys, v \in Strings : Request(c, k, v)
           \/ TakeLock(c)
           \/ StoreText(c)
           \/ StoreTextFails(c)
           \/ ApplyText(c)

MqttSpec == MqttInit /\ [][MqttNext]_mqttVars
-----------------------------------------------------------------------------
(* Properties *)

\* Stored, and not yet in RAM.
Pending(k) == \E c \in Setters : set[c] # NoOne /\ set[c].key = k /\ set[c].stored

\* While the service is up its configuration is one a client can be started with, and,
\* with any two sessions at work and wherever the power fails, a key a session reads is
\* the one the next boot loads; only a failed nvs_commit can leave NVS changed.  No
\* setter brings NVS into a state that keeps the service down.
ConfigurationIsSound ==
    up => /\ Loads
          /\ \A k \in MqttKeys : config[k] \in {v \in Strings : Validates(k, v)} \cup
                 (IF k \in {"uri", "user"} THEN {Blank} ELSE {}) \cup
                 (IF k = "user" THEN {Odd} ELSE {})
          /\ \A k \in MqttKeys \ mqtt_torn : ~Pending(k) => config[k] = LoadedText(k)
=============================================================================
