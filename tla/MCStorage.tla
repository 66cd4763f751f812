------------------------------ MODULE MCStorage ------------------------------
(***************************************************************************)
(* What survives a power loss, for TLC: the settings of Settings, the log  *)
(* of FlashLog, the configuration of MqttSettings and the credentials of   *)
(* WifiManager.  They share no state, so a behaviour moves one of them.    *)
(*                                                                         *)
(* Values are on both sides of every limit of a setting: 3 is above the    *)
(* OVP limit, 0 and 2 are no rates, 0 and 3 are no averaging counts.       *)
(***************************************************************************)
EXTENDS Settings, FlashLog, MqttSettings, WifiManager

VARIABLE part

Defaults == [ovp |-> 2, ocp |-> 1, rate |-> 1, average |-> 1]

\* The part that does not move starts from one state.
AllInit ==
    /\ part \in {"setting", "flash", "mqtt", "wifi"}
    /\ Init /\ (part # "setting" => setting = "ocp" /\ nvs = Missing)
    /\ FlashInit
    /\ MqttInit /\ (part # "mqtt" => \A k \in MqttKeys : mqtt_nvs[k] = Absent)
    /\ WifiInit /\ (part # "wifi" => \A k \in Keys : wifi_nvs[k] = NoText)

AllNext ==
    /\ UNCHANGED part
    /\ \/ part = "setting" /\ Next /\ UNCHANGED <<flashVars, mqttVars, wifiVars>>
       \/ part = "flash" /\ FlashNext /\ UNCHANGED <<vars, mqttVars, wifiVars>>
       \/ part = "mqtt" /\ MqttNext /\ UNCHANGED <<vars, flashVars, wifiVars>>
       \/ part = "wifi" /\ WifiNext /\ UNCHANGED <<vars, flashVars, mqttVars>>

AllSpec == AllInit /\ [][AllNext]_<<part, vars, flashVars, mqttVars, wifiVars>>
=============================================================================
