---------------------------- MODULE MCMqttService ----------------------------
(***************************************************************************)
(* MqttService for TLC.  Everything around the worker at once is too much; *)
(* each behaviour has the inputs of one of the sets in InputSets.          *)
(***************************************************************************)
EXTENDS MqttService

CONSTANT InputSets

VARIABLE inputs

AllInputs == {"wifi", "settings", "relay", "homeAssistant"}

ASSUME InputSets \subseteq SUBSET AllInputs

\* A step that is not of this input.
Without(i) ==
    CASE i = "wifi" -> link' = link
      [] i = "settings" -> "reconfigure" \notin telling'
      [] i = "relay" -> "output" \notin telling'
      [] i = "homeAssistant" -> "haOnline" \notin bits' /\ command' = None

AllInit ==
    /\ Init /\ inputs \in InputSets
    /\ "settings" \notin inputs => config = CHOOSE b \in Brokers : TRUE

AllNext == Next /\ UNCHANGED inputs /\ \A i \in AllInputs \ inputs : Without(i)

AllSpec == AllInit /\ [][AllNext]_<<vars, inputs>> /\ Fairness

Pairs == {{"relay", "homeAssistant"}, {"relay", "wifi"}, {"settings", "wifi"}}
=============================================================================
