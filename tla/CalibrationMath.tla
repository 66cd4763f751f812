-------------------------- MODULE CalibrationMath --------------------------
(***************************************************************************)
(* What a calibration computes: the mean of a capture window, the points   *)
(* it leaves in the table, whether a table can be committed, and the value *)
(* the piecewise-linear correction gives a code.  A fraction of a code is  *)
(* 1/Q16; doubles are exact fractions here.  (Transactions, timeouts and   *)
(* storage are Calibration's.)                                             *)
(***************************************************************************)
EXTENDS Integers, Sequences, FiniteSetsExt

CONSTANTS
    TablePgas,    \* measure_prov_ads1115_get_configured_pgas
    MinPoints,    \* CONFIG_PSUEXT_CAL_MIN_POINTS_PER_PGA, 0 where it is not required
    MaxTable,     \* MEASURE_SVC_CAL_MAX_POINTS
    Q16,          \* 65536
    HalfCodes,    \* 32768: codes are -HalfCodes .. HalfCodes - 1
    CodeWindows,  \* the codes of capture windows, each a sequence
    Actuals       \* what clients give for actual values, in u4

Codes == -HalfCodes..(HalfCodes - 1)

ASSUME MathAssumption ==
    /\ {MinPoints, MaxTable} \subseteq Nat
    /\ {Q16, HalfCodes} \subseteq Nat \ {0} /\ Q16 >= 2
    /\ CodeWindows \subseteq Seq(Codes) \ {<<>>}
    /\ Actuals \subseteq Nat

VARIABLE table    \* the staging table: a sequence of [raw, actual, pga]

MathInit == table = <<>>

\* window->code_sum after the last code.
Sum(codes) ==
    LET sum[i \in 0..Len(codes)] == IF i = 0 THEN 0 ELSE sum[i - 1] + codes[i] IN sum[Len(codes)]

\* A conversion to int32_t, which holds Q16 times a code and no more.
Int32(n) == ((n + Q16 * HalfCodes) % (2 * Q16 * HalfCodes)) - Q16 * HalfCodes

\* measure_svc_cal_capture_window_mean_q16; C divides towards zero.
mean_q16(codes) ==
    LET n == Len(codes)
        numerator == Q16 * Sum(codes)
        half == (n + 1) \div 2
    IN Int32(IF numerator >= 0 THEN (numerator + half) \div n ELSE -((half - numerator) \div n))

\* The points of a range, which the loops over the table do not skip, and the one before point j.
InRange(pts, pga) == {i \in DOMAIN pts : pts[i].pga = pga}
Previous(in, j) == Max({i \in in : i < j})
Ends(in) == {j \in in : \E i \in in : i < j}

\* Mutant: only the codes have to increase.
ValidByCode(pts) ==
    /\ Len(pts) \in 2..MaxTable
    /\ \A pga \in TablePgas :
           LET in == InRange(pts, pga) IN
           /\ \A j \in Ends(in) : pts[Previous(in, j)].raw < pts[j].raw
           /\ Cardinality(in) >= MinPoints

\* measure_svc_cal_table_validate; every point is of a configured range.
table_validate(pts) ==
    /\ Len(pts) \in 2..MaxTable
    /\ \A pga \in TablePgas :
           LET in == InRange(pts, pga) IN
           /\ \A j \in Ends(in) :
                  LET i == Previous(in, j) IN
                  pts[i].raw < pts[j].raw /\ pts[i].actual < pts[j].actual
           /\ Cardinality(in) >= MinPoints

\* measure_svc_cal_table_find_segment, which knows a segment by its end: the first that ends
\* at or above the code, or the last.
Segment(pts, in, code) ==
    LET above == {j \in Ends(in) : code * Q16 <= pts[j].raw} IN
    IF above # {} THEN Min(above) ELSE Max(in)

\* apply_precise_u4 as a fraction <<numerator, denominator>>.
Precise(pts, in, code) ==
    LET end == Segment(pts, in, code)
        p == pts[Previous(in, end)]
        q == pts[end]
    IN <<p.actual * (q.raw - p.raw) + (code * Q16 - p.raw) * (q.actual - p.actual), q.raw - p.raw>>

\* measure_svc_precision_to_u4 (a table cannot reach UINT32_MAX here).
to_u4(v) == IF v[1] <= 0 THEN 0 ELSE (2 * v[1] + v[2]) \div (2 * v[2])

\* measure_svc_core_raw_code_to_u4, to the scale of the model: one unit per code.
Uncorrected(code) == IF code <= 0 THEN 0 ELSE code

\* measure_svc_calibration_apply_target_u4: where a range has no segment the plain value stays.
Apply(pts, code, pga) ==
    LET in == InRange(pts, pga) IN
    IF table_validate(pts) /\ Ends(in) # {} THEN to_u4(Precise(pts, in, code)) ELSE Uncorrected(code)

\* A capture is stored at the index its client names, at most one past the end.
StorePoint ==
    \E codes \in CodeWindows, actual \in Actuals, pga \in TablePgas, i \in 1..MaxTable :
        LET point == [raw |-> mean_q16(codes), actual |-> actual, pga |-> pga] IN
        /\ i <= Len(table) + 1
        /\ table' = IF i = Len(table) + 1 THEN Append(table, point) ELSE [table EXCEPT ![i] = point]

MathSpec == MathInit /\ [][StorePoint]_table
-----------------------------------------------------------------------------
\* A mean is within half a step of 1/Q16, and half an n-th of a step more for odd n (so one
\* code alone is stored a step off), but for a lone lowest code, which comes out highest.
MeansAreClose ==
    \A codes \in CodeWindows \ {<<-HalfCodes>>} :
        2 * (Len(codes) * mean_q16(codes) - Q16 * Sum(codes)) \in -(Len(codes) + 1)..(Len(codes) + 1)

\* Means are as close as that; and over every table that can be committed the correction of
\* a range with two points or more rises strictly with the code, without a jump between
\* segments, keeps what is between two points between their values, and gives back the
\* value of a point whose code is measured again; other ranges are left as measured.
CorrectionIsSound ==
    /\ MeansAreClose
    /\ table_validate(table) =>
           \A pga \in TablePgas :
               LET in == InRange(table, pga)
                   v[c \in Codes] == Precise(table, in, c)
               IN IF Ends(in) = {} THEN \A c \in Codes : Apply(table, c, pga) = Uncorrected(c)
                  ELSE
                  /\ \A c \in Codes \ {HalfCodes - 1} : v[c][1] * v[c + 1][2] < v[c + 1][1] * v[c][2]
                  /\ \A c \in Codes, i \in in :
                         /\ c * Q16 <= table[i].raw => v[c][1] <= table[i].actual * v[c][2]
                         /\ c * Q16 >= table[i].raw => v[c][1] >= table[i].actual * v[c][2]
                         /\ c * Q16 = table[i].raw => Apply(table, c, pga) = table[i].actual
=============================================================================
