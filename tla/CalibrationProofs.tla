-------------------------- MODULE CalibrationProofs --------------------------
(***************************************************************************)
(* Proofs about Calibration, for any clients, targets, codes, values and   *)
(* number of points, and that it implements CalibrationStore.              *)
(***************************************************************************)
EXTENDS Calibration, WellFoundedInduction, TLAPS

Capturing(c) == pc[c] \in {"arm", "wait", "cancel", "collect", "store"}
Committing(c) == pc[c] \in {"persist", "publish", "reopen"}

\* A transaction has a target.
TransactionInv == state # "IDLE" => target \in Targets

\* A commit has the transaction to itself, and what it is to publish has been stored.
CommitInv ==
    \A c \in Clients : Committing(c) =>
        /\ StillCommitting(c)
        /\ call[c].table = staging /\ Valid(staging)
        /\ pc[c] = "publish" => stored[target] = staging
        /\ \A d \in Clients : Committing(d) => d = c

\* The semaphore that a waiting client may take was given for its own window.
WindowInv == \A c \in Clients : pc[c] = "wait" /\ ready_given => request.ready

\* A capture is of the present generation or of one before; of one before, when it has
\* been overtaken.
GenerationInv ==
    /\ \A c \in overtaken : Capturing(c) /\ call[c].generation < generation
    /\ \A c \in Clients : Capturing(c) => call[c].index >= 1 /\ call[c].generation <= generation

IInv ==
    /\ TypeOK /\ TransactionInv /\ CommitInv
    /\ NoOffsetInTransaction /\ StoredIsActive
    /\ CaptureIsOwn /\ WindowInv /\ GenerationInv
-----------------------------------------------------------------------------
(* Tables *)

\* A set of natural numbers has a least one.
LEMMA LeastOf ==
    ASSUME NEW T \in SUBSET Nat, T # {}
    PROVE  \E x \in T : \A y \in T : x <= y
<1>1. PICK x \in T : \A y \in T : <<y, x>> \notin OpToRel(<, Nat)
  BY NatLessThanWellFounded, WFMin
<1>2. \A y \in T : y < x => <<y, x>> \in OpToRel(<, Nat)
  BY DEF OpToRel
<1>3. \A y \in T : ~(y < x)
  BY <1>1, <1>2
<1> QED BY <1>3

LEMMA StagedIsSeq ==
    \A t : t \in StagedTables <=> t \in Seq(Point) /\ Len(t) <= MaxPoints
<1> SUFFICES ASSUME NEW t
             PROVE  t \in StagedTables <=> t \in Seq(Point) /\ Len(t) <= MaxPoints
  OBVIOUS
<1>1. ASSUME t \in StagedTables PROVE t \in Seq(Point) /\ Len(t) <= MaxPoints
  <2>1. PICK n \in 0 .. MaxPoints : t \in [1 .. n -> Point]
    BY <1>1 DEF StagedTables
  <2> QED BY <2>1, TablesAssumption
<1>2. ASSUME t \in Seq(Point), Len(t) <= MaxPoints PROVE t \in StagedTables
  <2>1. Len(t) \in 0 .. MaxPoints /\ t \in [1 .. Len(t) -> Point]
    BY <1>2, TablesAssumption
  <2> QED BY <2>1 DEF StagedTables
<1> QED BY <1>1, <1>2

LEMMA EmptyIsStaged == <<>> \in StagedTables
<1>1. <<>> \in Seq(Point) /\ Len(<<>>) <= MaxPoints
  BY TablesAssumption
<1> QED BY <1>1, StagedIsSeq

\* A point that replaces one of a table or extends it keeps to the bound.
LEMMA EditIsStaged ==
    ASSUME NEW t \in StagedTables, NEW p \in Point, NEW i \in 1 .. MaxPoints, i <= Len(t) + 1
    PROVE  (IF i > Len(t) THEN Append(t, p) ELSE [t EXCEPT ![i] = p]) \in StagedTables
<1>1. t \in Seq(Point) /\ Len(t) <= MaxPoints /\ MaxPoints \in Nat
  BY StagedIsSeq, TablesAssumption
<1>2. CASE i > Len(t)
  <2>1. Append(t, p) \in Seq(Point) /\ Len(Append(t, p)) <= MaxPoints
    BY <1>1, <1>2
  <2> QED BY <1>2, <2>1, StagedIsSeq
<1>3. CASE ~(i > Len(t))
  <2>1. [t EXCEPT ![i] = p] \in Seq(Point) /\ Len([t EXCEPT ![i] = p]) <= MaxPoints
    BY <1>1, <1>3
  <2> QED BY <1>3, <2>1, StagedIsSeq
<1> QED BY <1>2, <1>3

\* Points that rise from each to the next rise from any to any later one: of the points
\* after one that are not above it, the first follows one that is.
LEMMA ValidIsRising == ASSUME NEW t \in ValidTables PROVE Rising(t)
<1>1. t \in Seq(Point) /\ Valid(t)
  BY StagedIsSeq DEF ValidTables
<1> DEFINE Below(i, j) == t[i].raw < t[j].raw /\ t[i].actual < t[j].actual
<1>2. \A i \in 1 .. Len(t) : t[i].raw \in Int /\ t[i].actual \in Int
  <2>1. \A i \in 1 .. Len(t) : t[i] \in Point
    BY <1>1
  <2> QED BY <2>1, TablesAssumption DEF Point
<1>3. \A i \in 1 .. Len(t) - 1 : Below(i, i + 1)
  BY <1>1 DEF Valid
<1>4. ASSUME NEW i \in 1 .. Len(t), NEW j \in 1 .. Len(t), NEW k \in 1 .. Len(t),
             Below(i, j), Below(j, k)
      PROVE  Below(i, k)
  BY <1>2, <1>4
<1>5. ASSUME NEW i \in 1 .. Len(t), NEW j \in 1 .. Len(t), i < j PROVE Below(i, j)
  <2> HIDE DEF Below
  <2> DEFINE T == {k \in 1 .. Len(t) : i < k /\ ~Below(i, k)}
  <2> SUFFICES ASSUME ~Below(i, j) PROVE FALSE
    OBVIOUS
  <2>1. T \in SUBSET Nat /\ T # {}
    BY <1>1, <1>5
  <2>2. PICK k \in T : \A m \in T : k <= m
    <3> HIDE DEF T
    <3> QED BY <2>1, LeastOf
  <2>3. k \in 2 .. Len(t) /\ i < k /\ ~Below(i, k) /\ Len(t) \in Nat
    BY <1>1
  <2>4. k - 1 \in 1 .. Len(t) - 1 /\ k - 1 \in 1 .. Len(t) /\ (k - 1) + 1 = k
    BY <2>3
  <2>5. Below(k - 1, k)
    BY <1>3, <2>4
  <2>6. i # k - 1
    BY <2>3, <2>5
  <2>7. Below(i, k - 1)
    BY <2>2, <2>3, <2>4, <2>6
  <2> QED BY <1>4, <2>3, <2>4, <2>5, <2>7
<1>6. Len(t) >= 2
  BY <1>1 DEF Valid
<1> QED BY <1>5, <1>6 DEF Rising

\* So every table in use, or that a boot may load, has a slope everywhere.
LEMMA TypeIsSloped == ASSUME TypeOK PROVE SlopesArePositive
<1>1. \A t \in ValidTables \union {DefaultTable} : Rising(t)
  BY ValidIsRising, TablesAssumption
<1> QED BY <1>1 DEF TypeOK, SlopesArePositive
-----------------------------------------------------------------------------
(* Steps *)

Calls == [target : Targets \union {NoTarget}, index : 0 .. MaxPoints,
          generation : Nat, table : StagedTables]

LEMMA NoCallIsCall == NoCall \in Calls
BY EmptyIsStaged, TablesAssumption DEF NoCall, Calls

LEMMA InitInv == Init => IInv
<1> SUFFICES ASSUME Init PROVE IInv
  OBVIOUS
<1>1. TypeOK
  <2>1. rate \in Rates
    BY TablesAssumption DEF Init
  <2>2. call \in [Clients -> Calls]
    BY NoCallIsCall DEF Init, NoCalls
  <2>3. request \in [active : BOOLEAN, ready : BOOLEAN, owner : Clients \union {NoClient}]
    BY DEF Init, NoRequest
  <2> QED BY <2>1, <2>2, <2>3, EmptyIsStaged DEF Init, TypeOK, Idle, NoAttempts, Calls
<1>2. \A c \in Clients : pc[c] = "idle"
  BY DEF Init, Idle
<1>3. TransactionInv /\ CommitInv /\ NoOffsetInTransaction /\ StoredIsActive
  BY <1>2 DEF Init, TransactionInv, CommitInv, Committing, NoOffsetInTransaction, StoredIsActive
<1>4. CaptureIsOwn /\ WindowInv /\ GenerationInv
  BY <1>2 DEF Init, CaptureIsOwn, WindowInv, GenerationInv, Capturing
<1> QED BY <1>1, <1>3, <1>4 DEF IInv

\* What a transaction or a commit may change leaves every capture its own.
LEMMA CaptureSame ==
    ASSUME IInv, request' = request, ready_given' = ready_given,
           \A d \in Clients : pc'[d] \in {"wait", "cancel", "collect"} => pc'[d] = pc[d]
    PROVE  CaptureIsOwn' /\ WindowInv'
BY DEF IInv, CaptureIsOwn, WindowInv

\* Nobody commits unless the transaction says so.
LEMMA NotCommitting ==
    ASSUME IInv, state # "COMMITTING", NEW c \in Clients
    PROVE  ~Committing(c)
BY DEF IInv, CommitInv, StillCommitting

\* A new generation overtakes the captures there are, and no other.
LEMMA Renews ==
    ASSUME IInv, NewGeneration,
           \A d \in Clients : Capturing(d)' <=> Capturing(d),
           \A d \in Clients : Capturing(d) => call'[d] = call[d]
    PROVE  GenerationInv' /\ generation' \in Nat /\ generation' > generation
           /\ overtaken' \subseteq Clients
BY DEF IInv, TypeOK, NewGeneration, GenerationInv, Capturing

\* Start, Abort and Clear of a client change the transaction and nothing else.
LEMMA EditInv ==
    ASSUME IInv, state # "COMMITTING", state' # "COMMITTING",
           NewGeneration,
           state' \in {"IDLE", "OPEN"}, target' \in Targets \union {NoTarget}, staging' = <<>>,
           state' = "OPEN" => target' \in Targets /\ relative' = {},
           relative' \in SUBSET relative,
           UNCHANGED <<pc, call, tables, rate, capture>>
    PROVE  IInv'
<1> USE DEF tables, capture
<1>1. GenerationInv' /\ generation' \in Nat /\ overtaken' \subseteq Clients
  BY Renews DEF Capturing
<1>2. TypeOK'
  BY <1>1, EmptyIsStaged DEF IInv, TypeOK
<1>3. TransactionInv' /\ NoOffsetInTransaction'
  BY DEF TransactionInv, NoOffsetInTransaction
<1>4. CommitInv'
  BY NotCommitting DEF CommitInv, Committing
<1>5. StoredIsActive'
  BY DEF IInv, StoredIsActive
<1>6. CaptureIsOwn' /\ WindowInv'
  BY CaptureSame
<1> QED BY <1>1, <1>2, <1>3, <1>4, <1>5, <1>6 DEF IInv

LEMMA StartInv == ASSUME IInv, NEW c \in Clients, Start(c) PROVE IInv'
BY EditInv DEF Start

LEMMA AbortInv == ASSUME IInv, NEW c \in Clients, Abort(c) PROVE IInv'
BY EditInv DEF Abort

LEMMA ClearInv == ASSUME IInv, NEW c \in Clients, Clear(c) PROVE IInv'
<1>1. target \in Targets /\ relative = {}
  BY DEF Clear, IInv, TransactionInv, NoOffsetInTransaction
<1> QED BY <1>1, EditInv DEF Clear

LEMMA BeginCommitInv == ASSUME IInv, NEW c \in Clients, BeginCommit(c) PROVE IInv'
<1> USE DEF tables, capture, Goto
<1> DEFINE New == [target |-> target, index |-> 0, generation |-> generation', table |-> staging]
<1>1. /\ pc[c] = "idle" /\ state = "OPEN" /\ Valid(staging)
      /\ state' = "COMMITTING" /\ NewGeneration
      /\ pc' = [pc EXCEPT ![c] = "persist"] /\ call' = [call EXCEPT ![c] = New]
      /\ UNCHANGED <<target, staging, tables, relative, rate, capture>>
  BY DEF BeginCommit
<1>2. /\ pc'[c] = "persist" /\ \A d \in Clients \ {c} : pc'[d] = pc[d] /\ call'[d] = call[d]
      /\ call'[c] = New
  BY <1>1 DEF IInv, TypeOK
<1>3. GenerationInv' /\ generation' \in Nat /\ overtaken' \subseteq Clients
  BY <1>1, <1>2, Renews DEF Capturing
<1>4. TypeOK'
  <2>1. New \in Calls
    BY <1>3, TablesAssumption DEF IInv, TypeOK, Calls
  <2>2. call' \in [Clients -> Calls]
    BY <1>1, <2>1 DEF IInv, TypeOK, Calls
  <2> QED BY <1>1, <1>3, <2>2 DEF IInv, TypeOK, Calls
<1>5. TransactionInv' /\ NoOffsetInTransaction'
  BY <1>1 DEF IInv, TransactionInv, NoOffsetInTransaction
<1>6. CommitInv'
  <2>1. \A d \in Clients \ {c} : ~Committing(d)'
    BY <1>1, <1>2, NotCommitting DEF Committing
  <2> QED BY <1>1, <1>2, <2>1 DEF CommitInv, Committing, StillCommitting
<1>7. StoredIsActive'
  BY <1>1 DEF IInv, StoredIsActive
<1>8. CaptureIsOwn' /\ WindowInv'
  BY <1>1, <1>2, CaptureSame
<1> QED BY <1>3, <1>4, <1>5, <1>6, <1>7, <1>8 DEF IInv

\* A capture that goes on, or ends, is of the generation it was of.
LEMMA GenerationSame ==
    ASSUME IInv, generation' \in Nat, generation' >= generation, overtaken' \subseteq overtaken,
           \A d \in Clients : Capturing(d)' => Capturing(d) /\ call'[d] = call[d],
           \A d \in overtaken' : Capturing(d)'
    PROVE  GenerationInv'
BY DEF IInv, TypeOK, GenerationInv, Calls

LEMMA PersistInv == ASSUME IInv, NEW c \in Clients, Persist(c) PROVE IInv'
<1> USE DEF txn, tables, capture, Goto
<1>1. /\ pc[c] = "persist"
      /\ UNCHANGED <<call, txn, active, relative, rate, capture, overtaken>>
      /\ state = "COMMITTING" /\ call[c].target = target /\ target \in Targets
      /\ call[c].table = staging /\ Valid(staging) /\ staging \in ValidTables
      /\ \A d \in Clients : Committing(d) => d = c
  BY DEF Persist, IInv, TypeOK, TransactionInv, CommitInv, Committing, StillCommitting, ValidTables
<1>2. \/ /\ attempted' = [attempted EXCEPT ![target] = @ \union {staging}]
         /\ stored' = [stored EXCEPT ![target] = staging]
         /\ pc' = [pc EXCEPT ![c] = "publish"] \/ pc' = [pc EXCEPT ![c] = "reopen"]
      \/ UNCHANGED <<stored, attempted>> /\ pc' = [pc EXCEPT ![c] = "reopen"]
  BY <1>1 DEF Persist
<1>3. /\ pc'[c] \in {"publish", "reopen"} /\ \A d \in Clients \ {c} : pc'[d] = pc[d]
      /\ pc'[c] = "publish" => stored'[target] = staging
  BY <1>1, <1>2 DEF IInv, TypeOK
<1>4. TypeOK'
  <2>1. stored' \in [Targets -> ValidTables \union {DefaultTable}]
    BY <1>1, <1>2 DEF IInv, TypeOK
  <2>2. attempted' \in [Targets -> SUBSET ValidTables]
    BY <1>1, <1>2 DEF IInv, TypeOK
  <2>3. pc' \in [Clients -> {"idle", "arm", "wait", "cancel", "collect", "store",
                             "persist", "publish", "reopen", "rate"}]
    BY <1>2 DEF IInv, TypeOK
  <2> QED BY <1>1, <2>1, <2>2, <2>3 DEF IInv, TypeOK
<1>5. TransactionInv' /\ NoOffsetInTransaction'
  BY <1>1 DEF IInv, TransactionInv, NoOffsetInTransaction
<1>6. CommitInv'
  BY <1>1, <1>3 DEF IInv, CommitInv, Committing, StillCommitting
<1>7. StoredIsActive'
  BY <1>1, <1>2 DEF IInv, TypeOK, StoredIsActive
<1>8. CaptureIsOwn' /\ WindowInv'
  BY <1>1, <1>3, CaptureSame
<1>9. GenerationInv'
  BY <1>1, <1>3, GenerationSame DEF Capturing, IInv, TypeOK, GenerationInv
<1> QED BY <1>4, <1>5, <1>6, <1>7, <1>8, <1>9 DEF IInv

LEMMA ReturnIs ==
    ASSUME TypeOK, NEW c \in Clients, Return(c)
    PROVE  /\ pc'[c] = "idle" /\ \A d \in Clients \ {c} : pc'[d] = pc[d] /\ call'[d] = call[d]
           /\ pc' \in [Clients -> {"idle", "arm", "wait", "cancel", "collect", "store",
                                   "persist", "publish", "reopen", "rate"}]
           /\ call' \in [Clients -> Calls]
BY NoCallIsCall DEF TypeOK, Return, Goto, Calls

LEMMA PublishInv == ASSUME IInv, NEW c \in Clients, Publish(c) PROVE IInv'
<1> USE DEF tables, capture
<1>1. /\ pc[c] = "publish" /\ state = "COMMITTING" /\ target \in Targets
      /\ active' = [active EXCEPT ![target] = staging]
      /\ attempted' = [attempted EXCEPT ![target] = {}]
      /\ state' = "IDLE" /\ target' = NoTarget /\ staging' = <<>>
      /\ generation' = generation + 1
      /\ UNCHANGED <<stored, relative, rate, capture, overtaken>>
      /\ stored[target] = staging /\ staging \in ValidTables
      /\ \A d \in Clients : Committing(d) => d = c
  <2>1. pc[c] = "publish" /\ StillCommitting(c)
    BY DEF Publish
  <2>2. /\ call[c].table = staging /\ Valid(staging) /\ stored[target] = staging
        /\ \A d \in Clients : Committing(d) => d = c
    BY <2>1 DEF IInv, CommitInv, Committing
  <2>3. state = "COMMITTING" /\ target \in Targets /\ staging \in ValidTables
    BY <2>1, <2>2 DEF IInv, TypeOK, TransactionInv, StillCommitting, ValidTables
  <2> QED BY <2>1, <2>2, <2>3 DEF Publish
<1>2. /\ pc'[c] = "idle" /\ \A d \in Clients \ {c} : pc'[d] = pc[d] /\ call'[d] = call[d]
      /\ pc' \in [Clients -> {"idle", "arm", "wait", "cancel", "collect", "store",
                              "persist", "publish", "reopen", "rate"}]
      /\ call' \in [Clients -> Calls]
  BY ReturnIs DEF Publish, IInv
<1>3. generation' \in Nat /\ generation' >= generation
  BY <1>1 DEF IInv, TypeOK
<1>4. TypeOK'
  <2>1. active' \in [Targets -> ValidTables \union {DefaultTable}]
    BY <1>1 DEF IInv, TypeOK
  <2>2. attempted' \in [Targets -> SUBSET ValidTables]
    BY <1>1 DEF IInv, TypeOK
  <2> QED BY <1>1, <1>2, <1>3, <2>1, <2>2, EmptyIsStaged DEF IInv, TypeOK, Calls
<1>5. TransactionInv' /\ NoOffsetInTransaction'
  BY <1>1 DEF TransactionInv, NoOffsetInTransaction
<1>6. CommitInv'
  BY <1>1, <1>2 DEF CommitInv, Committing
<1>7. StoredIsActive'
  BY <1>1 DEF IInv, TypeOK, StoredIsActive
<1>8. CaptureIsOwn' /\ WindowInv'
  BY <1>1, <1>2, CaptureSame
<1>9. GenerationInv'
  BY <1>1, <1>2, <1>3, GenerationSame DEF Capturing, IInv, TypeOK, GenerationInv
<1> QED BY <1>4, <1>5, <1>6, <1>7, <1>8, <1>9 DEF IInv

LEMMA ReopenInv == ASSUME IInv, NEW c \in Clients, Reopen(c) PROVE IInv'
<1> USE DEF tables, capture
<1>1. /\ pc[c] = "reopen" /\ state = "COMMITTING" /\ state' = "OPEN"
      /\ UNCHANGED <<target, staging, generation, tables, relative, rate, capture, overtaken>>
      /\ \A d \in Clients : Committing(d) => d = c
  BY DEF Reopen, IInv, CommitInv, Committing, StillCommitting
<1>2. /\ pc'[c] = "idle" /\ \A d \in Clients \ {c} : pc'[d] = pc[d] /\ call'[d] = call[d]
      /\ pc' \in [Clients -> {"idle", "arm", "wait", "cancel", "collect", "store",
                              "persist", "publish", "reopen", "rate"}]
      /\ call' \in [Clients -> Calls]
  BY ReturnIs DEF Reopen, IInv
<1>3. TypeOK'
  BY <1>1, <1>2 DEF IInv, TypeOK, Calls
<1>4. TransactionInv' /\ NoOffsetInTransaction'
  BY <1>1 DEF IInv, TransactionInv, NoOffsetInTransaction
<1>5. CommitInv'
  BY <1>1, <1>2 DEF CommitInv, Committing
<1>6. StoredIsActive'
  BY <1>1 DEF IInv, StoredIsActive
<1>7. CaptureIsOwn' /\ WindowInv'
  BY <1>1, <1>2, CaptureSame
<1>8. GenerationInv'
  BY <1>1, <1>2, GenerationSame DEF Capturing, IInv, TypeOK, GenerationInv
<1> QED BY <1>3, <1>4, <1>5, <1>6, <1>7, <1>8 DEF IInv

\* A step of a capture, or of a setting, leaves the tables alone, and a transaction that
\* commits, too.
LEMMA TransactionSame ==
    ASSUME IInv,
           UNCHANGED <<state, target, generation, active, stored, attempted>>,
           staging' = staging \/ state = "OPEN",
           state = "IDLE" \/ relative' \subseteq relative,
           \A d \in Clients : Committing(d)' => pc'[d] = pc[d] /\ call'[d] = call[d]
    PROVE  TransactionInv' /\ NoOffsetInTransaction' /\ StoredIsActive' /\ CommitInv'
<1>1. TransactionInv' /\ NoOffsetInTransaction' /\ StoredIsActive'
  BY DEF IInv, TransactionInv, NoOffsetInTransaction, StoredIsActive
<1>2. CommitInv'
  BY NotCommitting DEF IInv, CommitInv, Committing, StillCommitting
<1> QED BY <1>1, <1>2

\* A client that moves on in a call.
LEMMA GotoIs ==
    ASSUME TypeOK, NEW c \in Clients,
           NEW point \in {"idle", "arm", "wait", "cancel", "collect", "store",
                          "persist", "publish", "reopen", "rate"}, Goto(c, point)
    PROVE  /\ pc'[c] = point /\ \A d \in Clients \ {c} : pc'[d] = pc[d]
           /\ pc' \in [Clients -> {"idle", "arm", "wait", "cancel", "collect", "store",
                                   "persist", "publish", "reopen", "rate"}]
BY DEF TypeOK, Goto

LEMMA BeginCaptureInv == ASSUME IInv, NEW c \in Clients, BeginCapture(c) PROVE IInv'
<1> USE DEF txn, tables, capture
<1>1. PICK i \in 1 .. MaxPoints :
          call' = [call EXCEPT ![c] =
              [target |-> target, index |-> i, generation |-> generation, table |-> <<>>]]
  BY DEF BeginCapture
<1>2. /\ pc[c] = "idle"
      /\ UNCHANGED <<txn, tables, relative, rate, capture, overtaken>>
      /\ pc'[c] = "arm" /\ \A d \in Clients \ {c} : pc'[d] = pc[d]
      /\ pc' \in [Clients -> {"idle", "arm", "wait", "cancel", "collect", "store",
                              "persist", "publish", "reopen", "rate"}]
  BY GotoIs DEF BeginCapture, IInv
<1>3. /\ call' \in [Clients -> Calls]
      /\ call'[c].index >= 1 /\ call'[c].generation = generation
      /\ \A d \in Clients \ {c} : call'[d] = call[d]
  <2>1. [target |-> target, index |-> i, generation |-> generation, table |-> <<>>] \in Calls
    BY EmptyIsStaged, TablesAssumption DEF IInv, TypeOK, Calls
  <2> QED BY <1>1, <2>1 DEF IInv, TypeOK, Calls
<1>4. CaptureIsOwn' /\ WindowInv'
  BY <1>2, CaptureSame
<1>5. GenerationInv'
  BY <1>2, <1>3 DEF IInv, TypeOK, GenerationInv, Capturing
<1>6. TypeOK'
  BY <1>2, <1>3 DEF IInv, TypeOK, Calls
<1>7. \A d \in Clients : Committing(d)' => pc'[d] = pc[d] /\ call'[d] = call[d]
  BY <1>2, <1>3 DEF Committing
<1>8. TransactionInv' /\ NoOffsetInTransaction' /\ StoredIsActive' /\ CommitInv'
  BY <1>2, <1>7, TransactionSame
<1> QED BY <1>4, <1>5, <1>6, <1>8 DEF IInv

\* A capture that ends is no longer overtaken, and disturbs no other and no commit.
LEMMA LeaveInv ==
    ASSUME IInv, NEW c \in Clients, Capturing(c), Leave(c),
           UNCHANGED <<state, target, generation, tables, relative, rate>>,
           staging' = staging \/ state = "OPEN",
           staging' \in StagedTables, ready_given' \in BOOLEAN,
           request' \in [active : BOOLEAN, ready : BOOLEAN, owner : Clients \union {NoClient}]
    PROVE  /\ pc'[c] = "idle" /\ \A d \in Clients \ {c} : pc'[d] = pc[d]
           /\ TypeOK' /\ GenerationInv'
           /\ TransactionInv' /\ NoOffsetInTransaction' /\ StoredIsActive' /\ CommitInv'
<1> USE DEF tables
<1>1. /\ pc'[c] = "idle" /\ \A d \in Clients \ {c} : pc'[d] = pc[d] /\ call'[d] = call[d]
      /\ pc' \in [Clients -> {"idle", "arm", "wait", "cancel", "collect", "store",
                              "persist", "publish", "reopen", "rate"}]
      /\ call' \in [Clients -> Calls]
      /\ overtaken' = overtaken \ {c}
  BY ReturnIs DEF Leave, IInv
<1>2. TypeOK'
  BY <1>1 DEF IInv, TypeOK, Calls
<1>3. GenerationInv'
  BY <1>1, GenerationSame DEF Capturing, IInv, TypeOK, GenerationInv
<1>4. \A d \in Clients : Committing(d)' => pc'[d] = pc[d] /\ call'[d] = call[d]
  BY <1>1 DEF Committing
<1>5. TransactionInv' /\ NoOffsetInTransaction' /\ StoredIsActive' /\ CommitInv'
  BY <1>4, TransactionSame
<1> QED BY <1>1, <1>2, <1>3, <1>5

\* A capture that goes on to its next point disturbs no commit.
LEMMA GoOnInv ==
    ASSUME IInv, NEW c \in Clients, Capturing(c),
           NEW point \in {"wait", "cancel", "collect", "store"}, Goto(c, point),
           UNCHANGED <<call, txn, tables, relative, rate, overtaken>>, ready_given' \in BOOLEAN,
           request' \in [active : BOOLEAN, ready : BOOLEAN, owner : Clients \union {NoClient}]
    PROVE  /\ pc'[c] = point /\ \A d \in Clients \ {c} : pc'[d] = pc[d]
           /\ TypeOK' /\ GenerationInv'
           /\ TransactionInv' /\ NoOffsetInTransaction' /\ StoredIsActive' /\ CommitInv'
<1> USE DEF txn, tables
<1>1. /\ pc'[c] = point /\ \A d \in Clients \ {c} : pc'[d] = pc[d]
      /\ pc' \in [Clients -> {"idle", "arm", "wait", "cancel", "collect", "store",
                              "persist", "publish", "reopen", "rate"}]
  BY GotoIs DEF IInv
<1>2. TypeOK'
  BY <1>1 DEF IInv, TypeOK
<1>3. GenerationInv'
  BY <1>1, GenerationSame DEF Capturing, IInv, TypeOK, GenerationInv
<1>4. \A d \in Clients : Committing(d)' => pc'[d] = pc[d] /\ call'[d] = call[d]
  BY <1>1 DEF Committing
<1>5. TransactionInv' /\ NoOffsetInTransaction' /\ StoredIsActive' /\ CommitInv'
  BY <1>4, TransactionSame
<1> QED BY <1>1, <1>2, <1>3, <1>5

LEMMA NoRequestIs ==
    /\ NoRequest \in [active : BOOLEAN, ready : BOOLEAN, owner : Clients \union {NoClient}]
    /\ ~NoRequest.active
BY DEF NoRequest

LEMMA ArmInv == ASSUME IInv, NEW c \in Clients, Arm(c) PROVE IInv'
<1> USE DEF capture
<1>1. /\ pc[c] = "arm" /\ Capturing(c)
      /\ UNCHANGED <<txn, tables, relative, rate>>
  BY DEF Arm, Capturing
<1>2. CASE request.active /\ Leave(c) /\ UNCHANGED capture
  <2>1. /\ pc'[c] = "idle" /\ \A d \in Clients \ {c} : pc'[d] = pc[d]
        /\ TypeOK' /\ GenerationInv'
        /\ TransactionInv' /\ NoOffsetInTransaction' /\ StoredIsActive' /\ CommitInv'
    BY <1>1, <1>2, LeaveInv DEF IInv, TypeOK, txn
  <2>2. CaptureIsOwn' /\ WindowInv'
    BY <1>2, <2>1, CaptureSame
  <2> QED BY <2>1, <2>2 DEF IInv
<1>3. CASE /\ ~request.active
           /\ request' = [active |-> TRUE, ready |-> FALSE, owner |-> c]
           /\ ready_given' = FALSE /\ Goto(c, "wait") /\ UNCHANGED <<call, overtaken>>
  <2>1. /\ request' \in [active : BOOLEAN, ready : BOOLEAN, owner : Clients \union {NoClient}]
        /\ request'.active /\ request'.owner = c
    BY <1>3
  <2>2. /\ pc'[c] = "wait" /\ \A d \in Clients \ {c} : pc'[d] = pc[d]
        /\ TypeOK' /\ GenerationInv'
        /\ TransactionInv' /\ NoOffsetInTransaction' /\ StoredIsActive' /\ CommitInv'
    BY <1>1, <1>3, <2>1, GoOnInv
  <2>3. \A d \in Clients : pc[d] \notin {"wait", "cancel", "collect"}
    BY <1>3 DEF IInv, CaptureIsOwn
  <2>4. CaptureIsOwn' /\ WindowInv'
    BY <1>3, <2>1, <2>2, <2>3 DEF CaptureIsOwn, WindowInv
  <2> QED BY <2>2, <2>4 DEF IInv
<1> QED BY <1>2, <1>3 DEF Arm

LEMMA AcceptWindowInv == ASSUME IInv, AcceptWindow PROVE IInv'
<1> USE DEF txn, tables
<1>1. /\ request' \in [active : BOOLEAN, ready : BOOLEAN, owner : Clients \union {NoClient}]
      /\ request'.active = request.active /\ request'.owner = request.owner /\ request'.ready
      /\ ready_given' \in BOOLEAN
      /\ UNCHANGED <<pc, call, txn, tables, relative, rate, overtaken>>
  BY DEF AcceptWindow, IInv, TypeOK
<1>2. TypeOK' /\ GenerationInv'
  BY <1>1 DEF IInv, TypeOK, GenerationInv, Capturing
<1>3. TransactionInv' /\ NoOffsetInTransaction' /\ StoredIsActive' /\ CommitInv'
  BY <1>1, TransactionSame
<1>4. CaptureIsOwn' /\ WindowInv'
  BY <1>1 DEF IInv, CaptureIsOwn, WindowInv
<1> QED BY <1>2, <1>3, <1>4 DEF IInv

LEMMA WakeInv == ASSUME IInv, NEW c \in Clients, Wake(c) PROVE IInv'
<1>1. /\ pc[c] = "wait" /\ Capturing(c) /\ ready_given /\ ~ready_given' /\ ready_given' \in BOOLEAN
      /\ request' = request /\ request.ready /\ Goto(c, "collect")
      /\ UNCHANGED <<call, txn, tables, relative, rate, overtaken>>
  BY DEF Wake, Capturing, IInv, WindowInv
<1>2. /\ pc'[c] = "collect" /\ \A d \in Clients \ {c} : pc'[d] = pc[d]
      /\ TypeOK' /\ GenerationInv'
      /\ TransactionInv' /\ NoOffsetInTransaction' /\ StoredIsActive' /\ CommitInv'
  BY <1>1, GoOnInv DEF IInv, TypeOK
<1>3. CaptureIsOwn' /\ WindowInv'
  BY <1>1, <1>2 DEF IInv, CaptureIsOwn, WindowInv
<1> QED BY <1>2, <1>3 DEF IInv

LEMMA TimeOutInv == ASSUME IInv, NEW c \in Clients, TimeOut(c) PROVE IInv'
<1> USE DEF capture
<1>1. /\ pc[c] = "wait" /\ Capturing(c) /\ Goto(c, "cancel")
      /\ UNCHANGED <<call, txn, tables, relative, rate, capture, overtaken>>
  BY DEF TimeOut, Capturing
<1>2. /\ pc'[c] = "cancel" /\ \A d \in Clients \ {c} : pc'[d] = pc[d]
      /\ TypeOK' /\ GenerationInv'
      /\ TransactionInv' /\ NoOffsetInTransaction' /\ StoredIsActive' /\ CommitInv'
  BY <1>1, GoOnInv DEF IInv, TypeOK
<1>3. CaptureIsOwn' /\ WindowInv'
  BY <1>1, <1>2 DEF IInv, CaptureIsOwn, WindowInv
<1> QED BY <1>2, <1>3 DEF IInv

\* While a client waits, gives up or collects, no other does.
LEMMA OneWaits ==
    ASSUME IInv, NEW c \in Clients, NEW d \in Clients,
           pc[c] \in {"wait", "cancel", "collect"}, pc[d] \in {"wait", "cancel", "collect"}
    PROVE  c = d
BY DEF IInv, CaptureIsOwn

LEMMA CancelInv == ASSUME IInv, NEW c \in Clients, Cancel(c) PROVE IInv'
<1>1. /\ pc[c] = "cancel" /\ Capturing(c) /\ Leave(c) /\ request' = NoRequest
      /\ UNCHANGED <<txn, tables, relative, rate, ready_given>>
  BY DEF Cancel, Capturing
<1>2. /\ pc'[c] = "idle" /\ \A d \in Clients \ {c} : pc'[d] = pc[d]
      /\ TypeOK' /\ GenerationInv'
      /\ TransactionInv' /\ NoOffsetInTransaction' /\ StoredIsActive' /\ CommitInv'
  BY <1>1, LeaveInv, NoRequestIs DEF IInv, TypeOK, txn
<1>3. \A d \in Clients : pc'[d] \notin {"wait", "cancel", "collect"}
  BY <1>1, <1>2, OneWaits
<1>4. CaptureIsOwn' /\ WindowInv'
  BY <1>3 DEF CaptureIsOwn, WindowInv
<1> QED BY <1>2, <1>4 DEF IInv

LEMMA CollectInv == ASSUME IInv, NEW c \in Clients, Collect(c) PROVE IInv'
<1>1. /\ pc[c] = "collect" /\ Capturing(c) /\ request' = NoRequest /\ request.ready
      /\ Goto(c, "store") /\ UNCHANGED <<call, overtaken>>
      /\ UNCHANGED <<txn, tables, relative, rate, ready_given>>
  BY DEF Collect, Capturing, IInv, CaptureIsOwn
<1>2. /\ pc'[c] = "store" /\ \A d \in Clients \ {c} : pc'[d] = pc[d]
      /\ TypeOK' /\ GenerationInv'
      /\ TransactionInv' /\ NoOffsetInTransaction' /\ StoredIsActive' /\ CommitInv'
  BY <1>1, GoOnInv, NoRequestIs DEF IInv, TypeOK
<1>3. \A d \in Clients : pc'[d] \notin {"wait", "cancel", "collect"}
  BY <1>1, <1>2, OneWaits
<1>4. CaptureIsOwn' /\ WindowInv'
  BY <1>3 DEF CaptureIsOwn, WindowInv
<1> QED BY <1>2, <1>4 DEF IInv

\* What is stored of a capture keeps the staged table within its bound.
LEMMA StorePointIs ==
    ASSUME IInv, NEW c \in Clients, StorePoint(c)
    PROVE  /\ pc[c] = "store" /\ Capturing(c) /\ Leave(c)
           /\ UNCHANGED <<state, target, generation, tables, relative, rate, capture>>
           /\ \/ staging' = staging
              \/ /\ state = "OPEN" /\ generation = call[c].generation
                 /\ call[c].index \in 1 .. Len(staging) + 1
                 /\ staging' \in StagedTables
                 /\ \E p \in Point :
                        staging' = IF call[c].index > Len(staging) THEN Append(staging, p)
                                   ELSE [staging EXCEPT ![call[c].index] = p]
<1>1. pc[c] = "store" /\ Capturing(c) /\ Leave(c)
      /\ UNCHANGED <<state, target, generation, tables, relative, rate, capture>>
  BY DEF StorePoint, Capturing
<1>2. call[c].index \in 1 .. MaxPoints /\ staging \in StagedTables /\ Len(staging) \in Nat
  BY <1>1, StagedIsSeq, TablesAssumption DEF IInv, TypeOK, GenerationInv
<1>3. CASE UNCHANGED staging
  BY <1>1, <1>3
<1>4. CASE /\ state = "OPEN" /\ generation = call[c].generation
           /\ call[c].index <= Len(staging) + 1
           /\ \E p \in Point : staging' = IF call[c].index > Len(staging) THEN Append(staging, p)
                                          ELSE [staging EXCEPT ![call[c].index] = p]
  <2>1. staging' \in StagedTables
    BY <1>2, <1>4, EditIsStaged
  <2>2. call[c].index \in 1 .. Len(staging) + 1
    BY <1>2, <1>4
  <2> QED BY <1>1, <1>4, <2>1, <2>2
<1> QED BY <1>3, <1>4 DEF StorePoint

LEMMA StorePointInv == ASSUME IInv, NEW c \in Clients, StorePoint(c) PROVE IInv'
<1> USE DEF capture
<1>1. /\ pc[c] = "store" /\ Capturing(c) /\ Leave(c)
      /\ UNCHANGED <<state, target, generation, tables, relative, rate, capture>>
      /\ staging' = staging \/ state = "OPEN"
      /\ staging' \in StagedTables
  BY StorePointIs DEF IInv, TypeOK
<1>2. /\ pc'[c] = "idle" /\ \A d \in Clients \ {c} : pc'[d] = pc[d]
      /\ TypeOK' /\ GenerationInv'
      /\ TransactionInv' /\ NoOffsetInTransaction' /\ StoredIsActive' /\ CommitInv'
  BY <1>1, LeaveInv DEF IInv, TypeOK
<1>3. CaptureIsOwn' /\ WindowInv'
  BY <1>1, <1>2, CaptureSame
<1> QED BY <1>2, <1>3 DEF IInv

LEMMA SetRelativeInv == ASSUME IInv, NEW c \in Clients, SetRelative(c) PROVE IInv'
<1> USE DEF txn, tables, capture
<1>1. /\ relative' \subseteq Targets /\ (state = "IDLE" \/ relative' \subseteq relative)
      /\ UNCHANGED <<pc, call, txn, tables, rate, capture, overtaken>>
  BY DEF SetRelative, IInv, TypeOK
<1>2. TypeOK' /\ GenerationInv'
  BY <1>1 DEF IInv, TypeOK, GenerationInv, Capturing
<1>3. TransactionInv' /\ NoOffsetInTransaction' /\ StoredIsActive' /\ CommitInv'
  BY <1>1, TransactionSame
<1>4. CaptureIsOwn' /\ WindowInv'
  BY <1>1, CaptureSame
<1> QED BY <1>2, <1>3, <1>4 DEF IInv

\* Both steps of a change of the data rate.
LEMMA RateInv == ASSUME IInv, NEW c \in Clients, CheckRate(c) \/ SetRate(c) PROVE IInv'
<1> USE DEF txn, tables, capture
<1>1. /\ pc[c] \in {"idle", "rate"} /\ pc'[c] \in {"idle", "rate"}
      /\ \A d \in Clients \ {c} : pc'[d] = pc[d]
      /\ pc' \in [Clients -> {"idle", "arm", "wait", "cancel", "collect", "store",
                              "persist", "publish", "reopen", "rate"}]
      /\ rate' \in Rates
      /\ UNCHANGED <<call, txn, tables, relative, capture, overtaken>>
  BY GotoIs DEF CheckRate, SetRate, IInv, TypeOK
<1>2. TypeOK' /\ GenerationInv'
  BY <1>1 DEF IInv, TypeOK, GenerationInv, Capturing
<1>3. \A d \in Clients : Committing(d)' => pc'[d] = pc[d] /\ call'[d] = call[d]
  BY <1>1 DEF Committing
<1>4. TransactionInv' /\ NoOffsetInTransaction' /\ StoredIsActive' /\ CommitInv'
  BY <1>1, <1>3, TransactionSame
<1>5. CaptureIsOwn' /\ WindowInv'
  BY <1>1, CaptureSame
<1> QED BY <1>2, <1>4, <1>5 DEF IInv

LEMMA RestartInv == ASSUME IInv, Restart PROVE IInv'
<1>1. TypeOK'
  <2>1. call' \in [Clients -> Calls]
    BY NoCallIsCall DEF Restart, NoCalls
  <2> QED BY <2>1, NoRequestIs, EmptyIsStaged DEF Restart, IInv, TypeOK, Idle, NoAttempts, Calls
<1>2. \A c \in Clients : pc'[c] = "idle"
  BY DEF Restart, Idle
<1>3. TransactionInv' /\ CommitInv' /\ NoOffsetInTransaction' /\ StoredIsActive'
  BY <1>2 DEF Restart, TransactionInv, CommitInv, Committing, NoOffsetInTransaction, StoredIsActive
<1>4. CaptureIsOwn' /\ WindowInv' /\ GenerationInv'
  BY <1>2 DEF Restart, CaptureIsOwn, WindowInv, GenerationInv, Capturing
<1> QED BY <1>1, <1>3, <1>4 DEF IInv

LEMMA StutterInv == ASSUME IInv, UNCHANGED vars PROVE IInv'
<1> USE DEF vars, txn, tables, capture
<1>1. TypeOK' /\ GenerationInv'
  BY DEF IInv, TypeOK, GenerationInv, Capturing
<1>2. TransactionInv' /\ NoOffsetInTransaction' /\ StoredIsActive' /\ CommitInv'
  BY TransactionSame
<1>3. CaptureIsOwn' /\ WindowInv'
  BY CaptureSame
<1> QED BY <1>1, <1>2, <1>3 DEF IInv

LEMMA NextInv == ASSUME IInv, [Next]_vars PROVE IInv'
<1>1. ASSUME NEW c \in Clients, Transaction(c) PROVE IInv'
  BY <1>1, StartInv, AbortInv, ClearInv, BeginCommitInv DEF Transaction
<1>2. ASSUME NEW c \in Clients, Commit(c) PROVE IInv'
  BY <1>2, PersistInv, PublishInv, ReopenInv DEF Commit
<1>3. ASSUME NEW c \in Clients, Capture(c) PROVE IInv'
  BY <1>3, ArmInv, WakeInv, TimeOutInv, CancelInv, CollectInv, StorePointInv DEF Capture
<1>4. ASSUME NEW c \in Clients, Setting(c) PROVE IInv'
  BY <1>4, SetRelativeInv, RateInv DEF Setting
<1> QED BY <1>1, <1>2, <1>3, <1>4, BeginCaptureInv, AcceptWindowInv, RestartInv, StutterInv DEF Next

LEMMA Inductive == Spec => []IInv
BY InitInv, NextInv, PTL DEF Spec
-----------------------------------------------------------------------------
(* Theorems *)

\* Every variable keeps its type, and no table outgrows its bound.
THEOREM TypeCorrect == Spec => []TypeOK
<1>1. IInv => TypeOK
  BY DEF IInv
<1> QED BY <1>1, Inductive, PTL

\* For any clients, targets and tables: the recheck of a commit finds the transaction it
\* began with, no offset survives into a transaction, the correction never divides by
\* zero, and a power loss loses no table but one that is on its way to NVS.
THEOREM TransactionsCorrect == Spec => []TransactionsAreSound
<1>1. IInv => TransactionsAreSound
  <2> SUFFICES ASSUME IInv PROVE TransactionsAreSound
    OBVIOUS
  <2>1. CommitUndisturbed
    BY DEF IInv, CommitInv, Committing, CommitUndisturbed
  <2>2. SlopesArePositive
    BY TypeIsSloped DEF IInv
  <2> QED BY <2>1, <2>2 DEF IInv, TransactionsAreSound
<1> QED BY <1>1, Inductive, PTL

\* For any clients that capture, give up and are overtaken in any order: who is woken has
\* a window of its own request, and measure_svc_calibration_capture_point stages nothing of a
\* generation that is over.
THEOREM CapturesCorrect == Spec => CapturesAreOwn
<1>1. ASSUME IInv, IInv', [Next]_vars
      PROVE  CaptureIsOwn' /\ \A c \in overtaken : StorePoint(c) => staging' = staging
  <2>1. CaptureIsOwn'
    BY <1>1 DEF IInv
  <2>2. ASSUME NEW c \in overtaken, StorePoint(c) PROVE staging' = staging
    <3>1. c \in Clients /\ call[c].generation \in Nat /\ call[c].generation < generation
      BY <1>1 DEF IInv, TypeOK, GenerationInv
    <3> QED BY <1>1, <2>2, <3>1, StorePointIs DEF IInv, TypeOK
  <2> QED BY <2>1, <2>2
<1> QED BY <1>1, Inductive, PTL DEF Spec, CapturesAreOwn
-----------------------------------------------------------------------------
(* The refinement *)

LEMMA InitRefines == Init => Store!Init
BY DEF Init, Store!Init, NoAttempts, Session, Survivors

\* While a transaction is not idle there is a session of its target and staged table.
LEMMA SessionIs ==
    ASSUME IInv, state # "IDLE"
    PROVE  /\ Session # NoSession
           /\ Session = [target |-> target, table |-> staging]
           /\ target \in Targets
<1>1. target \in Targets /\ staging \in StagedTables
  BY DEF IInv, TypeOK, TransactionInv
<1> QED BY <1>1, TablesAssumption DEF Session

LEMMA StartRefines == ASSUME IInv, NEW c \in Clients, Start(c) PROVE Store!Open
<1>1. PICK k \in Targets : target' = k
  BY DEF Start
<1> QED BY <1>1 DEF Start, Session, Survivors, Store!Open, tables

LEMMA AbortRefines == ASSUME IInv, NEW c \in Clients, Abort(c) PROVE Store!Abort
<1>1. Session # NoSession
  BY SessionIs DEF Abort
<1> QED BY <1>1 DEF Abort, Session, Survivors, Store!Abort, tables

LEMMA ClearRefines == ASSUME IInv, NEW c \in Clients, Clear(c) PROVE Store!Clear
<1>1. Session # NoSession /\ Session = [target |-> target, table |-> staging]
  BY SessionIs DEF Clear
<1>2. Session' = [target |-> target, table |-> <<>>]
  BY DEF Clear, Session
<1>3. Session' = [Session EXCEPT !.table = <<>>]
  BY <1>1, <1>2
<1> QED BY <1>1, <1>3 DEF Clear, Survivors, Store!Clear, tables

LEMMA PersistRefines ==
    ASSUME IInv, NEW c \in Clients, Persist(c)
    PROVE  Store!Try \/ UNCHANGED Store!vars
<1> USE DEF txn, tables
<1>1. /\ state = "COMMITTING" /\ UNCHANGED <<state, target, staging, active>>
      /\ call[c].target = target /\ call[c].table = staging /\ staging \in ValidTables
  BY DEF Persist, IInv, TypeOK, CommitInv, Committing, StillCommitting, ValidTables
<1>2. Session # NoSession /\ Session = [target |-> target, table |-> staging]
      /\ target \in Targets /\ Session' = Session
  BY <1>1, SessionIs DEF Session
<1>3. CASE attempted' = attempted
  BY <1>1, <1>2, <1>3 DEF Survivors, Store!vars
<1>4. CASE attempted' = [attempted EXCEPT ![target] = @ \union {staging}]
  <2>1. \A k \in Targets : attempted'[k] = IF k = target THEN attempted[k] \union {staging}
                                           ELSE attempted[k]
    BY <1>4 DEF IInv, TypeOK
  <2>2. Survivors' = [Survivors EXCEPT ![target] = @ \union {staging}]
    <3>1. \A k \in Targets : {active[k]} \union attempted'[k] =
              IF k = target THEN ({active[k]} \union attempted[k]) \union {staging}
              ELSE {active[k]} \union attempted[k]
      BY <2>1
    <3> QED BY <1>1, <1>2, <3>1 DEF Survivors
  <2> QED BY <1>1, <1>2, <2>2 DEF Store!Try
<1> QED BY <1>1, <1>3, <1>4 DEF Persist

LEMMA PublishRefines == ASSUME IInv, NEW c \in Clients, Publish(c) PROVE Store!Publish
<1>1. /\ state = "COMMITTING" /\ state' = "IDLE"
      /\ call[c].table = staging /\ staging \in ValidTables
      /\ active' = [active EXCEPT ![target] = staging]
      /\ attempted' = [attempted EXCEPT ![target] = {}]
  BY DEF Publish, IInv, TypeOK, CommitInv, Committing, StillCommitting, ValidTables
<1>2. Session # NoSession /\ Session = [target |-> target, table |-> staging]
      /\ target \in Targets /\ Session' = NoSession
  BY <1>1, SessionIs DEF Session
<1>3. Survivors' = [Survivors EXCEPT ![target] = {staging}]
  <2>1. \A k \in Targets : {active'[k]} \union attempted'[k] =
            IF k = target THEN {staging} ELSE {active[k]} \union attempted[k]
    BY <1>1, <1>2 DEF IInv, TypeOK
  <2> QED BY <1>2, <2>1 DEF Survivors
<1> QED BY <1>1, <1>2, <1>3 DEF Store!Publish

LEMMA StorePointRefines ==
    ASSUME IInv, NEW c \in Clients, StorePoint(c)
    PROVE  Store!Edit \/ UNCHANGED Store!vars
<1> USE DEF tables
<1>1. UNCHANGED <<state, target, active, attempted>> /\ UNCHANGED Survivors
  BY StorePointIs DEF Survivors
<1>2. CASE staging' = staging
  BY <1>1, <1>2 DEF Session, Store!vars
<1>3. CASE staging' # staging
  <2>1. state = "OPEN" /\ call[c].index \in 1 .. Len(staging) + 1
    BY <1>3, StorePointIs
  <2>2. PICK p \in Point :
            staging' = IF call[c].index > Len(staging) THEN Append(staging, p)
                       ELSE [staging EXCEPT ![call[c].index] = p]
    BY <1>3, StorePointIs
  <2>3. Session # NoSession /\ Session = [target |-> target, table |-> staging]
    BY <2>1, SessionIs
  <2>4. Session' = [target |-> target, table |-> staging']
    BY <1>1, <2>1 DEF Session
  <2>5. Session' = [Session EXCEPT !.table =
                        IF call[c].index > Len(@) THEN Append(@, p)
                        ELSE [@ EXCEPT ![call[c].index] = p]]
    <3>1. Session' = [Session EXCEPT !.table = staging']
      BY <2>3, <2>4
    <3>2. Session.table = staging
      BY <2>3
    <3> QED BY <2>2, <3>1, <3>2
  <2>6. call[c].index \in 1 .. Len(Session.table) + 1
    BY <2>1, <2>3
  <2> QED BY <1>1, <2>3, <2>5, <2>6 DEF Store!Edit
<1> QED BY <1>2, <1>3

LEMMA RestartRefines == ASSUME IInv, Restart PROVE Store!Restart
<1>1. \A k \in Targets : stored[k] \in Survivors[k]
  BY DEF IInv, StoredIsActive, Survivors
<1>2. /\ active' = stored /\ Session' = NoSession /\ attempted' = NoAttempts
      /\ stored \in [Targets -> ValidTables \union {DefaultTable}]
  BY DEF Restart, Session, IInv, TypeOK
<1>3. active' \in [Targets -> UNION {Survivors[k] : k \in Targets}]
  BY <1>1, <1>2
<1>4. Survivors' = [k \in Targets |-> {active'[k]}]
  BY <1>2 DEF Survivors, NoAttempts
<1> QED BY <1>1, <1>2, <1>3, <1>4 DEF Store!Restart

\* What does not touch the transaction or the tables is not seen of the store.
LEMMA OthersStutter ==
    ASSUME UNCHANGED <<state, target, staging, active, attempted>>
    PROVE  UNCHANGED Store!vars
BY DEF Store!vars, Session, Survivors

\* Nor is the beginning of a commit, nor its failure.
LEMMA CommitStutters ==
    ASSUME NEW c \in Clients, BeginCommit(c) \/ Reopen(c)
    PROVE  UNCHANGED Store!vars
BY DEF BeginCommit, Reopen, StillCommitting, tables, Store!vars, Session, Survivors

LEMMA StepRefines == ASSUME IInv, [Next]_vars PROVE [Store!Next]_(Store!vars)
<1> USE DEF txn, tables
<1>1. ASSUME NEW c \in Clients, Transaction(c) PROVE [Store!Next]_(Store!vars)
  BY <1>1, StartRefines, AbortRefines, ClearRefines, CommitStutters DEF Transaction, Store!Next
<1>2. ASSUME NEW c \in Clients, Commit(c) PROVE [Store!Next]_(Store!vars)
  BY <1>2, PersistRefines, PublishRefines, CommitStutters DEF Commit, Store!Next
<1>3. ASSUME NEW c \in Clients, StorePoint(c) PROVE [Store!Next]_(Store!vars)
  BY <1>3, StorePointRefines DEF Store!Next
<1>4. ASSUME NEW c \in Clients,
             Arm(c) \/ Wake(c) \/ TimeOut(c) \/ Cancel(c) \/ Collect(c) \/ BeginCapture(c) \/ Setting(c)
      PROVE  UNCHANGED Store!vars
  <2>1. UNCHANGED <<state, target, staging, active, attempted>>
    BY <1>4 DEF Arm, Wake, TimeOut, Cancel, Collect, BeginCapture, Setting, SetRelative,
                CheckRate, SetRate
  <2> QED BY <2>1, OthersStutter
<1>5. ASSUME AcceptWindow \/ UNCHANGED vars PROVE UNCHANGED Store!vars
  <2>1. UNCHANGED <<state, target, staging, active, attempted>>
    BY <1>5 DEF AcceptWindow, vars
  <2> QED BY <2>1, OthersStutter
<1>6. CASE Restart
  BY <1>6, RestartRefines DEF Store!Next
<1> QED BY <1>1, <1>2, <1>3, <1>4, <1>5, <1>6 DEF Next, Capture

\* The calibration service implements CalibrationStore for any clients, targets, tables and
\* points: calls that overlap, wait or fail half way look to each client like single edits
\* of one session, and a power loss like a choice of what was acknowledged or tried.
THEOREM StoreImplemented == Spec => ImplementsStore
BY InitRefines, StepRefines, Inductive, PTL DEF Spec, ImplementsStore, Store!Spec
=============================================================================
