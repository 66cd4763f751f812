---------------------------- MODULE RangePolicy ----------------------------
(***************************************************************************)
(* The autorange policy of measure_prov_ads1115.c with its real tables.    *)
(* An input holds some voltage, the ADC converts it in the present range,  *)
(* and the reading selects the next range.  The voltage is in half units   *)
(* of u4 (1/10000 V): readings of one voltage in two ranges differ by the  *)
(* rounding of the conversion and by its saturation at full scale.         *)
(***************************************************************************)
EXTENDS Integers

CONSTANTS
    Voltages,    \* voltages an input can have, in u4 / 2
    MaxChanges   \* bound on the changes of the voltage

\* pga_full_scale_mv, hysteresis_top_u4 and hysteresis_bottom_u4 by range
FullScale == <<256, 512, 2048>>
ADS_RANGES == [top |-> <<572, 4160, 20480>>, bottom |-> <<0, 500, 3840>>]
ADS_CURRENT_RANGES == [top |-> <<2400, 4800, 20480>>, bottom |-> <<0, 2200, 4400>>]
Policies == {ADS_RANGES, ADS_CURRENT_RANGES}
RangeIndices == 1..3

VARIABLES
    policy,    \* the table of the input
    voltage,   \* at the ADC pin
    range,     \* s_input_range_index, counted from 1
    moved,     \* how the range moved since the voltage changed: "up", "down" or "no"
    changes    \* how often the voltage changed

vars == <<policy, voltage, range, moved, changes>>

\* ads1115_range_policy_validate
Valid(p) ==
    /\ \A r \in 1..2 : FullScale[r] < FullScale[r + 1] /\ p.top[r] < FullScale[r] * 10
    /\ \A r \in 2..3 : p.bottom[r] < p.top[r - 1]

ASSUME VoltagesAssumption == Voltages \subseteq Nat
ASSUME MaxChangesAssumption == MaxChanges \in Nat
ASSUME PoliciesAssumption == \A p \in Policies : Valid(p)

TypeOK ==
    /\ policy \in Policies
    /\ voltage \in Voltages
    /\ range \in RangeIndices
    /\ moved \in {"no", "up", "down"}
    /\ changes \in 0..MaxChanges

\* What the ADC makes of a voltage: it truncates, and saturates at the last code.
Code(v, r) ==
    LET c == (v * 32768) \div (FullScale[r] * 20) IN IF c > 32767 THEN 32767 ELSE c

\* ads1115_raw_to_voltage_u4, for codes that are not negative
ToU4(code, r) == (code * FullScale[r] * 10 + 16384) \div 32768

\* Mutant: one threshold serves both directions.
SelectNoGap(p, r, u4) ==
    IF r < 3 /\ u4 >= p.top[r] THEN r + 1
    ELSE IF r > 1 /\ u4 <= p.top[r - 1] THEN r - 1
    ELSE r

\* measure_prov_ads1115_range_select
Select(p, r, u4) ==
    IF r < 3 /\ u4 >= p.top[r] THEN r + 1
    ELSE IF r > 1 /\ u4 <= p.bottom[r] THEN r - 1
    ELSE r

NextRange == Select(policy, range, ToU4(Code(voltage, range), range))

Init ==
    /\ policy \in Policies
    /\ voltage \in Voltages
    /\ range = 3
    /\ moved = "no"
    /\ changes = 0

\* The range part of one accepted conversion.
Convert ==
    /\ NextRange # range
    /\ range' = NextRange
    /\ moved' = IF NextRange > range THEN "up" ELSE "down"
    /\ UNCHANGED <<policy, voltage, changes>>

\* The world outside: the voltage at the pin changes.
Change ==
    /\ changes < MaxChanges
    /\ changes' = changes + 1
    /\ voltage' \in Voltages
    /\ moved' = "no"
    /\ UNCHANGED <<policy, range>>

Next == Convert \/ Change
Spec == Init /\ [][Next]_vars
-----------------------------------------------------------------------------
(* Properties *)

\* At a steady voltage the range never goes up after it went down, or down after it
\* went up: the gap between the thresholds is wider than what rounding and
\* saturation make of one voltage in two ranges.
NeverHunts ==
    [][voltage' = voltage /\ range' # range =>
           moved \in {"no", IF range' > range THEN "up" ELSE "down"}]_vars

\* A range that no reading moves is one in which the reading is not saturated.
SettledIsUnsaturated ==
    NextRange = range => Code(voltage, range) < 32767 \/ range = 3

\* The policy comes to rest, and where the reading is good.
RangeIsSound == NeverHunts /\ []SettledIsUnsaturated
=============================================================================
