----------------------------- MODULE Calibration -----------------------------
(***************************************************************************)
(* The calibration transaction (measure_svc_calibration), the capture of a *)
(* point (measure_svc_calibration_capture), the stored tables and what a   *)
(* transaction forbids: relative offsets and ADC rate changes.             *)
(*                                                                         *)
(* No step below holds the calibration lock or the capture lock across a   *)
(* wait, so each critical section is one action; a client is between two   *)
(* of them while pc says so.                                               *)
(***************************************************************************)
EXTENDS Integers, Sequences

CONSTANTS
    Clients,        \* SCPI tasks: USB and TCP
    NoClient,
    Targets,        \* the calibrated measurements
    Raws, Actuals,  \* codes a capture may accept, values a client may give
    Rates,          \* ADC data rates
    MaxPoints,      \* MEASURE_SVC_CAL_MAX_POINTS
    DefaultTable,   \* stands for the default of each target
    NoTarget,
    NoSession,
    MaxGeneration   \* bound on transaction generations between restarts

ASSUME ClientsAssumption == NoClient \notin Clients /\ NoTarget \notin Targets

VARIABLES
    pc,             \* where each client is in a call
    call,           \* what it remembers of that call
    state,          \* of the transaction: IDLE, OPEN, COMMITTING
    target,
    staging,
    generation,
    active,         \* tables in RAM
    stored,         \* tables in NVS
    relative,       \* the targets with a nonzero REL offset
    rate,           \* the ADC data rate setting
    request,        \* the capture request
    ready_given,    \* the binary semaphore that ends a wait
    overtaken,      \* history: captures whose transaction has changed since
    attempted       \* history: tables whose storing was begun and not finished

txn == <<state, target, staging, generation>>
tables == <<active, stored, attempted>>
capture == <<request, ready_given>>
vars == <<pc, call, txn, tables, relative, rate, capture, overtaken>>

-----------------------------------------------------------------------------
Point == [raw : Raws, actual : Actuals]

\* measure_svc_cal_table_validate, for one PGA range.
Valid(table) ==
    /\ Len(table) >= 2
    /\ Len(table) <= MaxPoints
    /\ \A i \in 1 .. Len(table) - 1 :
          table[i].raw < table[i + 1].raw /\ table[i].actual < table[i + 1].actual

StagedTables == UNION {[1 .. n -> Point] : n \in 0 .. MaxPoints}
ValidTables == {table \in StagedTables : Valid(table)}

\* Two points and a slope between any two of them, near or far.
Rising(table) ==
    /\ Len(table) >= 2
    /\ \A i, j \in 1 .. Len(table) :
          i < j => table[i].raw < table[j].raw /\ table[i].actual < table[j].actual

ASSUME TablesAssumption ==
    /\ Raws \subseteq Int /\ Actuals \subseteq Int /\ MaxPoints \in Nat
    /\ Rising(DefaultTable)
    /\ Rates # {}
    /\ NoSession \notin [target : Targets, table : StagedTables]

NoCall == [target |-> NoTarget, index |-> 0, generation |-> 0, table |-> <<>>]
NoRequest == [active |-> FALSE, ready |-> FALSE, owner |-> NoClient]

Idle == [c \in Clients |-> "idle"]
NoCalls == [c \in Clients |-> NoCall]
NoAttempts == [k \in Targets |-> {}]

Init ==
    /\ pc = Idle
    /\ call = NoCalls
    /\ state = "IDLE" /\ target = NoTarget /\ staging = <<>> /\ generation = 0
    /\ active = [k \in Targets |-> DefaultTable]
    /\ stored = active
    /\ relative = {}
    /\ rate = CHOOSE r \in Rates : TRUE
    /\ request = NoRequest /\ ready_given = FALSE
    /\ overtaken = {}
    /\ attempted = NoAttempts

Goto(c, point) == pc' = [pc EXCEPT ![c] = point]
Return(c) == Goto(c, "idle") /\ call' = [call EXCEPT ![c] = NoCall]

\* A new generation: what was captured for the one before is out of date.
NewGeneration ==
    /\ generation < MaxGeneration
    /\ generation' = generation + 1
    /\ overtaken' = {c \in Clients : pc[c] \in {"arm", "wait", "cancel", "collect", "store"}}

-----------------------------------------------------------------------------
(* The transaction.                                                        *)

\* Mutant: an open transaction may be started again.
StartAgain(c) ==
    /\ pc[c] = "idle"
    /\ state # "COMMITTING"
    /\ \E k \in Targets : target' = k
    /\ state' = "OPEN"
    /\ staging' = <<>>
    /\ relative' = {}
    /\ NewGeneration
    /\ UNCHANGED <<pc, call, tables, rate, capture>>

Start(c) ==
    /\ pc[c] = "idle"
    /\ state = "IDLE"
    /\ \E k \in Targets : target' = k
    /\ state' = "OPEN"
    /\ staging' = <<>>
    /\ relative' = {}
    /\ NewGeneration
    /\ UNCHANGED <<pc, call, tables, rate, capture>>

Abort(c) ==
    /\ pc[c] = "idle"
    /\ state = "OPEN"
    /\ state' = "IDLE" /\ target' = NoTarget /\ staging' = <<>>
    /\ NewGeneration
    /\ UNCHANGED <<pc, call, tables, relative, rate, capture>>

\* Mutant: a table that is being stored can be cleared.
ClearCommitting(c) ==
    /\ pc[c] = "idle"
    /\ state # "IDLE"
    /\ staging' = <<>>
    /\ NewGeneration
    /\ UNCHANGED <<pc, call, state, target, tables, relative, rate, capture>>

\* measure_svc_calibration_clear, for the target of the transaction.
Clear(c) ==
    /\ pc[c] = "idle"
    /\ state = "OPEN"
    /\ staging' = <<>>
    /\ NewGeneration
    /\ UNCHANGED <<pc, call, state, target, tables, relative, rate, capture>>

BeginCommit(c) ==
    /\ pc[c] = "idle"
    /\ state = "OPEN"
    /\ Valid(staging)
    /\ state' = "COMMITTING"
    /\ NewGeneration
    /\ Goto(c, "persist")
    /\ call' = [call EXCEPT ![c] =
           [target |-> target, index |-> 0, generation |-> generation', table |-> staging]]
    /\ UNCHANGED <<target, staging, tables, relative, rate, capture>>

\* measure_svc_cal_persistence_store, with no lock held: a table that can be
\* encoded is written, and either call of NVS may fail, nvs_commit after the
\* blob has changed.
Persist(c) ==
    /\ pc[c] = "persist"
    /\ \/ /\ Valid(call[c].table)
          /\ attempted' = [attempted EXCEPT ![call[c].target] = @ \union {call[c].table}]
          /\ stored' = [stored EXCEPT ![call[c].target] = call[c].table]
          /\ Goto(c, "publish") \/ Goto(c, "reopen")
       \/ /\ UNCHANGED <<stored, attempted>>
          /\ Goto(c, "reopen")
    /\ UNCHANGED <<call, txn, active, relative, rate, capture, overtaken>>

\* The recheck after the lock has been taken again.
StillCommitting(c) ==
    /\ state = "COMMITTING"
    /\ target = call[c].target
    /\ generation = call[c].generation

Publish(c) ==
    /\ pc[c] = "publish"
    /\ StillCommitting(c)
    /\ active' = [active EXCEPT ![target] = call[c].table]
    /\ attempted' = [attempted EXCEPT ![target] = {}]
    /\ state' = "IDLE" /\ target' = NoTarget /\ staging' = <<>>
    /\ generation' = generation + 1
    /\ Return(c)
    /\ UNCHANGED <<stored, relative, rate, capture, overtaken>>

\* A failed store leaves the transaction open, with its staged points.
Reopen(c) ==
    /\ pc[c] = "reopen"
    /\ StillCommitting(c)
    /\ state' = "OPEN"
    /\ Return(c)
    /\ UNCHANGED <<target, staging, generation, tables, relative, rate, capture, overtaken>>

-----------------------------------------------------------------------------
(* The capture of a point.                                                 *)

BeginCapture(c) ==
    /\ pc[c] = "idle"
    /\ state = "OPEN"
    /\ \E i \in 1 .. MaxPoints :
          /\ i <= Len(staging) + 1
          /\ call' = [call EXCEPT ![c] =
                 [target |-> target, index |-> i, generation |-> generation, table |-> <<>>]]
    /\ Goto(c, "arm")
    /\ UNCHANGED <<txn, tables, relative, rate, capture, overtaken>>

Leave(c) == Return(c) /\ overtaken' = overtaken \ {c}

\* Mutant: the semaphore is not drained.
ArmUndrained(c) ==
    /\ pc[c] = "arm"
    /\ \/ /\ request.active
          /\ Leave(c)
          /\ UNCHANGED request
       \/ /\ ~request.active
          /\ request' = [active |-> TRUE, ready |-> FALSE, owner |-> c]
          /\ Goto(c, "wait")
          /\ UNCHANGED <<call, overtaken>>
    /\ UNCHANGED <<txn, tables, relative, rate, ready_given>>

\* measure_svc_calibration_capture_wait up to the wait: one request at a time,
\* and a semaphore left over from an earlier one is drained.
Arm(c) ==
    /\ pc[c] = "arm"
    /\ \/ /\ request.active
          /\ Leave(c)
          /\ UNCHANGED capture
       \/ /\ ~request.active
          /\ request' = [active |-> TRUE, ready |-> FALSE, owner |-> c]
          /\ ready_given' = FALSE
          /\ Goto(c, "wait")
          /\ UNCHANGED <<call, overtaken>>
    /\ UNCHANGED <<txn, tables, relative, rate>>

\* capture_listener, on the sampler task, when a window is stable.
AcceptWindow ==
    /\ request.active /\ ~request.ready
    /\ request' = [request EXCEPT !.ready = TRUE]
    /\ ready_given' = TRUE
    /\ UNCHANGED <<pc, call, txn, tables, relative, rate, overtaken>>

Wake(c) ==
    /\ pc[c] = "wait"
    /\ ready_given
    /\ ready_given' = FALSE
    /\ Goto(c, "collect")
    /\ UNCHANGED <<call, txn, tables, relative, rate, request, overtaken>>

TimeOut(c) ==
    /\ pc[c] = "wait"
    /\ ~ready_given
    /\ Goto(c, "cancel")
    /\ UNCHANGED <<call, txn, tables, relative, rate, capture, overtaken>>

\* A window accepted between the timeout and this is given up, and the
\* semaphore stays given.
Cancel(c) ==
    /\ pc[c] = "cancel"
    /\ request' = NoRequest
    /\ Leave(c)
    /\ UNCHANGED <<txn, tables, relative, rate, ready_given>>

Collect(c) ==
    /\ pc[c] = "collect"
    /\ request' = NoRequest
    /\ IF request.ready
       THEN Goto(c, "store") /\ UNCHANGED <<call, overtaken>>
       ELSE Leave(c)
    /\ UNCHANGED <<txn, tables, relative, rate, ready_given>>

\* The second critical section of measure_svc_calibration_capture_point.
StorePoint(c) ==
    /\ pc[c] = "store"
    /\ IF /\ state = "OPEN"
          /\ target = call[c].target
          /\ generation = call[c].generation
          /\ call[c].index <= Len(staging) + 1
       THEN \E p \in Point :
                staging' = IF call[c].index > Len(staging)
                           THEN Append(staging, p)
                           ELSE [staging EXCEPT ![call[c].index] = p]
       ELSE UNCHANGED staging
    /\ Leave(c)
    /\ UNCHANGED <<state, target, generation, tables, relative, rate, capture>>

-----------------------------------------------------------------------------
(* What a transaction forbids.                                             *)

\* measure_svc_set_relative_u4, one critical section.
SetRelative(c) ==
    /\ pc[c] = "idle"
    /\ \E k \in Targets :
          \/ state = "IDLE" /\ relative' = relative \union {k}
          \/ relative' = relative \ {k}
    /\ UNCHANGED <<pc, call, txn, tables, rate, capture, overtaken>>

\* measure_svc_set_adc_data_rate_sps reads the state in one critical section
\* and sets the rate after it.
CheckRate(c) ==
    /\ pc[c] = "idle"
    /\ state = "IDLE"
    /\ Goto(c, "rate")
    /\ UNCHANGED <<call, txn, tables, relative, rate, capture, overtaken>>

SetRate(c) ==
    /\ pc[c] = "rate"
    /\ rate' \in Rates
    /\ Goto(c, "idle")
    /\ UNCHANGED <<call, txn, tables, relative, capture, overtaken>>

\* Power is lost, and measure_svc_calibration_init loads what is stored.
Restart ==
    /\ pc' = Idle
    /\ call' = NoCalls
    /\ state' = "IDLE" /\ target' = NoTarget /\ staging' = <<>> /\ generation' = 0
    /\ active' = stored
    /\ relative' = {}
    /\ request' = NoRequest /\ ready_given' = FALSE
    /\ overtaken' = {}
    /\ attempted' = NoAttempts
    /\ UNCHANGED <<stored, rate>>

-----------------------------------------------------------------------------
Transaction(c) == Start(c) \/ Abort(c) \/ Clear(c) \/ BeginCommit(c)
Commit(c) == Persist(c) \/ Publish(c) \/ Reopen(c)
Capture(c) == Arm(c) \/ Wake(c) \/ TimeOut(c) \/ Cancel(c) \/ Collect(c) \/ StorePoint(c)
Setting(c) == SetRelative(c) \/ CheckRate(c) \/ SetRate(c)

Next ==
    \/ \E c \in Clients :
          Transaction(c) \/ Commit(c) \/ BeginCapture(c) \/ Capture(c) \/ Setting(c)
    \/ AcceptWindow
    \/ Restart

Spec == Init /\ [][Next]_vars

-----------------------------------------------------------------------------
(* Properties.                                                             *)

TypeOK ==
    /\ pc \in [Clients -> {"idle", "arm", "wait", "cancel", "collect", "store",
                           "persist", "publish", "reopen", "rate"}]
    /\ call \in [Clients -> [target : Targets \union {NoTarget}, index : 0 .. MaxPoints,
                             generation : Nat, table : StagedTables]]
    /\ state \in {"IDLE", "OPEN", "COMMITTING"}
    /\ target \in Targets \union {NoTarget}
    /\ staging \in StagedTables
    /\ generation \in Nat
    /\ active \in [Targets -> ValidTables \union {DefaultTable}]
    /\ stored \in [Targets -> ValidTables \union {DefaultTable}]
    /\ relative \subseteq Targets
    /\ rate \in Rates
    /\ request \in [active : BOOLEAN, ready : BOOLEAN, owner : Clients \union {NoClient}]
    /\ ready_given \in BOOLEAN
    /\ overtaken \subseteq Clients
    /\ attempted \in [Targets -> SUBSET ValidTables]

\* A client that has been woken collects a window of its own request, never
\* one that a request before it gave up, and nobody else uses the request
\* until it has: the wait ends with a semaphore that outlives a timeout.
CaptureIsOwn ==
    \A c \in Clients :
        /\ pc[c] \in {"wait", "cancel", "collect"} => request.active /\ request.owner = c
        /\ pc[c] = "collect" => request.ready

\* The recheck of a commit never fails: between its two critical sections
\* nothing that other clients call can touch the transaction.
CommitUndisturbed ==
    \A c \in Clients : pc[c] \in {"persist", "publish", "reopen"} =>
        StillCommitting(c) /\ call[c].table = staging

\* What measure_svc_cal_table_apply_precise_u4 divides by is never zero: no
\* table in use, or that a restart may load, has a segment without a slope.
SlopesArePositive ==
    \A k \in Targets : Rising(active[k]) /\ Rising(stored[k])

\* A restart brings up the tables in use, but for a target whose storing is
\* under way or has failed.
StoredIsActive ==
    \A k \in Targets : stored[k] \in {active[k]} \union attempted[k]

\* "Nonzero offsets are rejected while the transaction is OPEN or COMMITTING.
\* Offsets remain zero after commit or abort" (.doc/calibration.md).
NoOffsetInTransaction == state # "IDLE" => relative = {}

\* What a client relies on while a transaction is open or committing, and what
\* measurement and the next boot rely on in the tables.
TransactionsAreSound ==
    /\ CommitUndisturbed
    /\ NoOffsetInTransaction
    /\ SlopesArePositive
    /\ StoredIsActive

\* Every capture is its client's own, and a point captured before the transaction
\* was cleared, aborted, restarted or taken to a commit is never staged after it.
CapturesAreOwn ==
    [][/\ CaptureIsOwn'
       /\ \A c \in overtaken : StorePoint(c) => staging' = staging]_vars

\* "ADC-rate changes are rejected while a transaction is open or committing."
RateKept == [][state # "IDLE" => rate' = rate]_vars

\* The session a client edits, and the tables a boot may bring up.
Session == IF state = "IDLE" THEN NoSession ELSE [target |-> target, table |-> staging]
Survivors == [k \in Targets |-> {active[k]} \union attempted[k]]

Store == INSTANCE CalibrationStore WITH
    Tables <- ValidTables, Points <- Point, session <- Session, survivors <- Survivors

\* Calls of two clients, captures that wait and commits that store without a
\* lock look to each client like single edits of one session.
ImplementsStore == Store!Spec
=============================================================================
