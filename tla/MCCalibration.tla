---------------------------- MODULE MCCalibration ----------------------------
(* Instances of Calibration for TLC. *)
EXTENDS Calibration, TLC

MCRaws == 0 .. 1
MCActuals == 0 .. 1

MCDefaultTable == <<[raw |-> 0, actual |-> 0], [raw |-> 32767, actual |-> 60000]>>

ClientsAlike == Permutations(Clients)
=============================================================================
