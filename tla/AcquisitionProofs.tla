-------------------------- MODULE AcquisitionProofs -------------------------
(***************************************************************************)
(* The history of samples, for every capacity, set of clients and number   *)
(* of samples; the choice of the range, for every voltage an input can     *)
(* have; the converter, for any inputs, gains, ticks and times; the        *)
(* pipeline, for any inputs, codes, rates, window lengths and number of    *)
(* discards from two on; and the arithmetic of a calibration, for any      *)
(* table, capture windows, width of a code and resolution of a mean.       *)
(***************************************************************************)
EXTENDS SampleHistory, RangePolicy, AdsConverter, SamplePipeline, CalibrationMath,
        FiniteSetTheorems, WellFoundedInduction, TLAPS

-----------------------------------------------------------------------------
(***************************************************************************)
(* SampleHistory.  The ring holds the newest samples, answers are gapless  *)
(* runs, and the ring implements SampleLog.  The arithmetic of the slots   *)
(* is first made linear (SlotIsLinear); what an answer is made of then     *)
(* follows from what the ring holds (PageIsRun, AverageIsRun).             *)
(***************************************************************************)

\* The window a client between the two critical sections is going to copy.
CallInv ==
    \A c \in latest :
        /\ since[c] \in 0..published
        /\ available[c] = Smaller(since[c], Capacity)

IInv == HistoryTypeOK /\ RingHoldsNewest /\ CallInv /\ AnswersAreRuns
-----------------------------------------------------------------------------
(* Slots *)

LEMMA ModOfTwice ==
    ASSUME NEW n \in Nat \ {0}, NEW x \in 0..(2 * n - 1)
    PROVE  x % n = IF x < n THEN x ELSE x - n
<1>1. CASE x < n
  BY <1>1
<1>2. CASE x >= n
  <2>1. (x - n) % n = x - n
    BY <1>2
  <2>2. x % n = (x - n) % n
    BY <1>2
  <2> QED BY <2>1, <2>2, <1>2
<1> QED BY <1>1, <1>2

\* An index less than two rings ahead, back in the ring.
Wrap(x) == IF x < Capacity THEN x ELSE x - Capacity

LEMMA ModIsWrap ==
    ASSUME NEW x \in 0..(2 * Capacity - 1)
    PROVE  x % Capacity = Wrap(x)
BY CapacityAssumption, ModOfTwice DEF Wrap

\* Where a sample is, without the modulo.
LEMMA SlotIsLinear ==
    ASSUME NEW w \in Slots, NEW n \in 1..Capacity, NEW i \in 0..(n - 1)
    PROVE  (((w + Capacity - n) % Capacity) + i) % Capacity =
               IF w + i < n THEN w + Capacity - n + i ELSE w + i - n
<1> DEFINE first == (w + Capacity - n) % Capacity
<1>1. Capacity \in Nat \ {0} /\ w \in 0..(Capacity - 1)
  BY CapacityAssumption DEF Slots
<1>2. first = Wrap(w + Capacity - n)
  <2>1. w + Capacity - n \in 0..(2 * Capacity - 1)
    BY <1>1
  <2> QED BY <2>1, ModIsWrap
<1> HIDE DEF first
<1>3. (first + i) % Capacity = Wrap(first + i)
  <2>1. first + i \in 0..(2 * Capacity - 1)
    BY <1>1, <1>2 DEF Wrap
  <2> QED BY <2>1, ModIsWrap
<1>4. (first + i) % Capacity =
          IF w + i < n THEN w + Capacity - n + i ELSE w + i - n
  BY <1>1, <1>2, <1>3 DEF Wrap
<1> QED BY <1>4 DEF first

\* What the n newest samples are, read from the slot where they begin.
LEMMA NewestAre ==
    ASSUME HistoryTypeOK, RingHoldsNewest, NEW n \in 1..count, NEW i \in 0..(n - 1)
    PROVE  samples[SlotOfNewest(n, i)] = published - n + 1 + i
<1>1. Capacity \in Nat \ {0} /\ count \in 0..Capacity /\ published \in Nat
      /\ write_index \in 0..(Capacity - 1)
  BY CapacityAssumption DEF HistoryTypeOK, Slots
<1>2. SlotOfNewest(n, i) = SlotOfNewest(count, count - n + i)
  BY <1>1, SlotIsLinear DEF SlotOfNewest, Slots
<1>3. samples[SlotOfNewest(count, count - n + i)] = published - count + 1 + (count - n + i)
  BY <1>1 DEF RingHoldsNewest
<1> QED BY <1>1, <1>2, <1>3

\* A page is a run of the published samples.
LEMMA PageIsRun ==
    ASSUME HistoryTypeOK, RingHoldsNewest, NEW start \in Nat, NEW n \in Nat
    PROVE  PageOf(start, n) =
               IF start < count
               THEN Log!Run(published - count + start + 1, Smaller(count - start, n))
               ELSE <<>>
<1>1. count \in Nat /\ published \in Nat
  BY CapacityAssumption DEF HistoryTypeOK
<1>2. CASE start < count
  <2> DEFINE m == Smaller(count - start, n)
  <2>1. m \in Nat /\ m <= count - start
    BY <1>1, <1>2 DEF Smaller
  <2>2. ASSUME NEW i \in 1..m
        PROVE  samples[SlotOfNewest(count, start + i - 1)] = published - count + start + 1 + i - 1
    <3>1. start + i - 1 \in 0..(count - 1)
      BY <1>1, <2>1
    <3>2. samples[SlotOfNewest(count, start + i - 1)] = published - count + 1 + (start + i - 1)
      BY <3>1 DEF RingHoldsNewest
    <3> QED BY <1>1, <2>1, <3>2
  <2>3. PageOf(start, n) = [i \in 1..m |-> samples[SlotOfNewest(count, start + i - 1)]]
    BY <1>2 DEF PageOf
  <2> HIDE DEF m
  <2>4. PageOf(start, n) = [i \in 1..m |-> published - count + start + 1 + i - 1]
    BY <2>2, <2>3
  <2> QED BY <1>2, <2>4 DEF Log!Run, m
<1>3. CASE ~(start < count)
  BY <1>3 DEF PageOf
<1> QED BY <1>2, <1>3

\* So is what an average is taken over.
LEMMA AverageIsRun ==
    ASSUME HistoryTypeOK, RingHoldsNewest, NEW n \in Nat, NEW m, m = Smaller(count, n)
    PROVE  [i \in 1..m |-> samples[SlotOfNewest(m, i - 1)]] = Log!Run(published - m + 1, m)
<1>1. count \in Nat /\ published \in Nat /\ m \in 0..count
  BY CapacityAssumption DEF HistoryTypeOK, Smaller
<1>2. ASSUME NEW i \in 1..m
      PROVE  samples[SlotOfNewest(m, i - 1)] = published - m + 1 + i - 1
  <2>1. m \in 1..count /\ i - 1 \in 0..(m - 1)
    BY <1>1
  <2>2. samples[SlotOfNewest(m, i - 1)] = published - m + 1 + (i - 1)
    BY <2>1, NewestAre
  <2> QED BY <1>1, <2>2
<1> QED BY <1>2 DEF Log!Run

\* A run of published samples, as an answer.
LEMMA RunIsAnswer ==
    ASSUME NEW p \in Nat, NEW n \in 0..p, NEW last \in n..p
    PROVE  LET r == Log!Run(last - n + 1, n) IN
           /\ r \in Seq(Nat)
           /\ \A i \in DOMAIN r : r[i] \in 1..p
           /\ \A i \in DOMAIN r \ {1} : r[i] = r[i - 1] + 1
<1> DEFINE r == [i \in 1..n |-> last - n + 1 + i - 1]
<1>1. r \in [1..n -> Nat] /\ n \in Nat
  OBVIOUS
<1>2. r \in Seq(Nat)
  BY <1>1
<1>3. \A i \in 1..n : r[i] = last - n + i
  OBVIOUS
<1>4. DOMAIN r = 1..n
  OBVIOUS
<1> HIDE DEF r
<1>5. \A i \in DOMAIN r : r[i] \in 1..p
  BY <1>3, <1>4
<1>6. \A i \in DOMAIN r \ {1} : r[i] = r[i - 1] + 1
  BY <1>3, <1>4
<1> QED BY <1>2, <1>5, <1>6 DEF Log!Run, r
-----------------------------------------------------------------------------
(* The inductive invariant *)

LEMMA InitInv == HistoryInit => IInv
<1> SUFFICES ASSUME HistoryInit PROVE IInv
  OBVIOUS
<1>1. HistoryTypeOK
  BY CapacityAssumption DEF HistoryInit, HistoryTypeOK, Slots
<1>2. RingHoldsNewest
  BY CapacityAssumption DEF HistoryInit, RingHoldsNewest, Smaller
<1>3. CallInv /\ AnswersAreRuns
  BY DEF HistoryInit, CallInv, AnswersAreRuns
<1> QED BY <1>1, <1>2, <1>3 DEF IInv

\* Publishing shifts what is kept by one sample once the ring is full.
LEMMA PublishInv == IInv /\ Publish => IInv'
<1> SUFFICES ASSUME IInv, Publish PROVE IInv'
  OBVIOUS
<1>1. /\ Capacity \in Nat \ {0} /\ count \in 0..Capacity /\ published \in Nat
      /\ write_index \in 0..(Capacity - 1) /\ HistoryTypeOK /\ RingHoldsNewest
      /\ samples \in [0..(Capacity - 1) -> Nat]
  BY CapacityAssumption DEF IInv, HistoryTypeOK, Slots
<1>2. write_index' = IF write_index + 1 < Capacity THEN write_index + 1 ELSE 0
  <2>1. write_index + 1 \in 0..(2 * Capacity - 1)
    BY <1>1
  <2>2. (write_index + 1) % Capacity = Wrap(write_index + 1)
    BY <2>1, ModIsWrap
  <2> QED BY <1>1, <2>2 DEF Publish, Wrap
<1>3. count' = (IF count < Capacity THEN count + 1 ELSE Capacity) /\ published' = published + 1
      /\ count' \in 1..Capacity /\ count' <= count + 1
  BY <1>1 DEF Publish, Smaller
<1>4. HistoryTypeOK'
  BY <1>1, <1>2, <1>3 DEF IInv, HistoryTypeOK, Publish, calls, Slots
<1>5. count' = Smaller(published', Capacity)
  BY <1>1, <1>3 DEF RingHoldsNewest, Smaller
<1>6. ASSUME NEW i \in 0..(count' - 1)
      PROVE  samples'[SlotOfNewest(count, i)'] = published' - count' + 1 + i
  <2> DEFINE slot == IF write_index' + i < count' THEN write_index' + Capacity - count' + i
                     ELSE write_index' + i - count'
  <2>1. SlotOfNewest(count, i)' = slot
    <3>1. write_index' \in Slots /\ count' \in 1..Capacity /\ i \in 0..(count' - 1)
      BY <1>1, <1>2, <1>3, <1>6 DEF Slots
    <3>2. (((write_index' + Capacity - count') % Capacity) + i) % Capacity = slot
      BY <3>1, SlotIsLinear
    <3> QED BY <3>2 DEF SlotOfNewest
  <2>2. samples' = [samples EXCEPT ![write_index] = published + 1]
    BY DEF Publish
  <2>3. CASE i = count' - 1
    <3>1. slot = write_index
      BY <1>1, <1>2, <1>3, <2>3
    <3> QED BY <1>1, <1>3, <2>1, <2>2, <2>3, <3>1
  <2>4. CASE i < count' - 1
    <3> DEFINE j == i + count - (count' - 1)
    <3>1. j \in 0..(count - 1) /\ count \in 1..Capacity
      BY <1>1, <1>3, <2>4
    <3>2. SlotOfNewest(count, j) = IF write_index + j < count THEN write_index + Capacity - count + j
                                   ELSE write_index + j - count
      BY <1>1, <3>1, SlotIsLinear DEF SlotOfNewest, Slots
    <3>3. slot = SlotOfNewest(count, j) /\ slot # write_index /\ slot \in 0..(Capacity - 1)
      BY <1>1, <1>2, <1>3, <2>4, <3>1, <3>2
    <3>4. samples[SlotOfNewest(count, j)] = published - count + 1 + j
      BY <1>1, <3>1 DEF RingHoldsNewest
    <3> QED BY <1>1, <1>3, <2>1, <2>2, <2>4, <3>3, <3>4
  <2> QED BY <1>1, <1>3, <2>3, <2>4
<1>7. RingHoldsNewest'
  BY <1>5, <1>6 DEF RingHoldsNewest
<1>8. CallInv'
  BY <1>1, <1>3 DEF IInv, HistoryTypeOK, CallInv, Publish, calls
<1>9. AnswersAreRuns'
  <2>1. answer' = answer /\ published' = published + 1
    BY DEF Publish
  <2>2. AnswersAreRuns
    BY DEF IInv
  <2>3. \A k \in 1..published : k \in 1..published'
    BY <1>1, <2>1
  <2> QED BY <2>1, <2>2, <2>3 DEF AnswersAreRuns
<1> QED BY <1>4, <1>7, <1>8, <1>9 DEF IInv

\* Reading changes no sample, and what a call answers is a run.
LEMMA ReadInv ==
    ASSUME IInv, NEW c \in Clients, UNCHANGED <<ring, published>>,
           latest' \subseteq latest, UNCHANGED <<available, max_count, since>>,
           NEW n \in 0..published, NEW last \in n..published,
           answer' = [answer EXCEPT ![c] = Log!Run(last - n + 1, n)]
    PROVE  IInv'
<1> DEFINE r == Log!Run(last - n + 1, n)
<1>1. published \in Nat /\ answer \in [Clients -> Seq(Nat)]
  BY DEF IInv, HistoryTypeOK
<1>2. /\ r \in Seq(Nat)
      /\ \A i \in DOMAIN r : r[i] \in 1..published
      /\ \A i \in DOMAIN r \ {1} : r[i] = r[i - 1] + 1
  BY <1>1, RunIsAnswer
<1> HIDE DEF r
<1>3. answer' = [answer EXCEPT ![c] = r]
  BY DEF r
<1>4. HistoryTypeOK'
  <2>1. answer' \in [Clients -> Seq(Nat)]
    BY <1>1, <1>2, <1>3
  <2> QED BY <2>1 DEF IInv, HistoryTypeOK, ring
<1>5. RingHoldsNewest'
  BY DEF IInv, RingHoldsNewest, SlotOfNewest, ring
<1>6. CallInv'
  BY DEF IInv, CallInv, ring
<1>7. AnswersAreRuns'
  <2>1. ASSUME NEW d \in Clients
        PROVE  answer'[d] = IF d = c THEN r ELSE answer[d]
    BY <1>1, <1>3
  <2> QED BY <1>2, <2>1 DEF IInv, AnswersAreRuns
<1> QED BY <1>4, <1>5, <1>6, <1>7 DEF IInv

LEMMA PageInv ==
    ASSUME IInv, NEW c \in Clients, NEW start \in Nat, NEW n \in Nat,
           UNCHANGED <<ring, published>>, latest' \subseteq latest,
           UNCHANGED <<available, max_count, since>>,
           answer' = [answer EXCEPT ![c] = PageOf(start, n)]
    PROVE  IInv'
<1>1. count \in Nat /\ published \in Nat /\ count <= published
  BY CapacityAssumption DEF IInv, HistoryTypeOK, RingHoldsNewest, Smaller
<1>2. HistoryTypeOK /\ RingHoldsNewest
  BY DEF IInv
<1>3. CASE start < count
  <2> DEFINE m == Smaller(count - start, n)
             last == published - count + start + m
  <2>1. m \in 0..published /\ last \in m..published
    BY <1>1, <1>3 DEF Smaller
  <2>2. PageOf(start, n) = Log!Run(published - count + start + 1, m)
    BY <1>2, <1>3, PageIsRun
  <2>3. published - count + start + 1 = last - m + 1
    BY <1>1, <2>1
  <2> HIDE DEF m, last
  <2> QED BY <2>1, <2>2, <2>3, ReadInv
<1>4. CASE ~(start < count)
  <2>1. PageOf(start, n) = <<>>
    BY <1>2, <1>4, PageIsRun
  <2>2. Log!Run(0 - 0 + 1, 0) = <<>>
    BY DEF Log!Run
  <2>3. 0 \in 0..published
    BY <1>1
  <2> QED BY <2>1, <2>2, <2>3, ReadInv
<1> QED BY <1>3, <1>4

LEMMA CopyPageInv ==
    ASSUME IInv, NEW c \in Clients, NEW start \in 0..Capacity, NEW n \in 0..Capacity,
           CopyPage(c, start, n)
    PROVE  IInv'
<1>1. start \in Nat /\ n \in Nat
  BY CapacityAssumption
<1> QED BY <1>1, PageInv DEF CopyPage, ring, calls

LEMMA AverageInv ==
    ASSUME IInv, NEW c \in Clients, NEW n \in 1..Capacity, AverageLatest(c, n)
    PROVE  IInv'
<1> DEFINE m == Smaller(count, n)
<1>1. count \in Nat /\ published \in Nat /\ count <= published
  BY CapacityAssumption DEF IInv, HistoryTypeOK, RingHoldsNewest, Smaller
<1>2. m \in 0..published /\ published \in m..published /\ n \in Nat
  BY <1>1, CapacityAssumption DEF Smaller
<1>3. [i \in 1..m |-> samples[SlotOfNewest(m, i - 1)]] = Log!Run(published - m + 1, m)
  BY <1>2, AverageIsRun DEF IInv
<1> QED BY <1>2, <1>3, ReadInv DEF AverageLatest, ring, calls

LEMMA CountInv ==
    ASSUME IInv, NEW c \in Clients, NEW n \in 0..Capacity, CountAvailable(c, n)
    PROVE  IInv'
<1>1. HistoryTypeOK'
  BY DEF IInv, HistoryTypeOK, CountAvailable, ring
<1>2. RingHoldsNewest'
  BY DEF IInv, RingHoldsNewest, SlotOfNewest, CountAvailable, ring
<1>3. CallInv'
  BY DEF IInv, HistoryTypeOK, RingHoldsNewest, CallInv, CountAvailable, ring
<1>4. AnswersAreRuns'
  BY DEF IInv, AnswersAreRuns, CountAvailable
<1> QED BY <1>1, <1>2, <1>3, <1>4 DEF IInv

LEMMA CopyLatestInv ==
    ASSUME IInv, NEW c \in Clients, CopyLatest(c)
    PROVE  IInv'
<1>1. available[c] - Wanted(c) \in Nat /\ Wanted(c) \in Nat
  BY CapacityAssumption DEF IInv, HistoryTypeOK, Wanted, Smaller
<1> QED BY <1>1, PageInv DEF CopyLatest, ring

LEMMA NextInv == IInv /\ [HistoryNext]_historyVars => IInv'
<1> SUFFICES ASSUME IInv, [HistoryNext]_historyVars PROVE IInv'
  OBVIOUS
<1>1. CASE Publish
  BY <1>1, PublishInv
<1>2. ASSUME NEW c \in Clients, NEW start \in 0..Capacity, NEW n \in 0..Capacity,
             CopyPage(c, start, n)
      PROVE  IInv'
  BY <1>2, CopyPageInv
<1>3. ASSUME NEW c \in Clients, NEW n \in 1..Capacity, AverageLatest(c, n)
      PROVE  IInv'
  BY <1>3, AverageInv
<1>4. ASSUME NEW c \in Clients, NEW n \in 0..Capacity, CountAvailable(c, n)
      PROVE  IInv'
  BY <1>4, CountInv
<1>5. ASSUME NEW c \in Clients, CopyLatest(c)
      PROVE  IInv'
  BY <1>5, CopyLatestInv
<1>6. CASE UNCHANGED historyVars
  BY <1>6 DEF IInv, HistoryTypeOK, RingHoldsNewest, CallInv, AnswersAreRuns, SlotOfNewest, historyVars, ring, calls
<1> QED BY <1>1, <1>2, <1>3, <1>4, <1>5, <1>6 DEF HistoryNext

\* The inductive invariant, from which the theorems follow.
THEOREM InvariantCorrect == HistorySpec => []IInv
<1> QED BY InitInv, NextInv, PTL DEF HistorySpec

\* At every capacity and after any number of overwrites, the ring read from its
\* oldest slot is the last samples published.
THEOREM RingCorrect == HistorySpec => []RingHoldsNewest
<1>1. IInv => RingHoldsNewest
  BY DEF IInv
<1> QED BY <1>1, InvariantCorrect, PTL

\* No answer holds an unwritten slot or a sample out of order.
THEOREM AnswersCorrect == HistorySpec => []AnswersAreRuns
<1>1. IInv => AnswersAreRuns
  BY DEF IInv
<1> QED BY <1>1, InvariantCorrect, PTL

\* What a client finds in the history is sound at every capacity and during any call.
THEOREM HistoryCorrect == HistorySpec => []HistoryIsSound
<1> QED BY RingCorrect, AnswersCorrect, PTL DEF HistoryIsSound
-----------------------------------------------------------------------------
(* The ring implements the log. *)

LEMMA CountIsKept == IInv => count = Log!Kept /\ count \in Nat /\ published \in Nat
BY CapacityAssumption DEF IInv, HistoryTypeOK, RingHoldsNewest, Log!Kept, Log!Smaller, Smaller

LEMMA InitImplements == HistoryInit => Log!LogInit
<1> SUFFICES ASSUME HistoryInit PROVE Log!LogInit
  OBVIOUS
<1>1. \A c \in Clients : Wanted(c) = 0
  BY DEF HistoryInit, Wanted, Smaller
<1> QED BY <1>1 DEF HistoryInit, Log!LogInit

LEMMA PageImplements ==
    ASSUME IInv, NEW c \in Clients, NEW start \in 0..Capacity, NEW n \in 0..Capacity,
           CopyPage(c, start, n)
    PROVE  Log!Page(c, start, n)
<1>1. start \in Nat /\ n \in Nat
  BY CapacityAssumption
<1>2. PageOf(start, n) = IF start < count
                         THEN Log!Run(published - count + start + 1, Log!Smaller(count - start, n))
                         ELSE <<>>
  BY <1>1, PageIsRun DEF IInv, Smaller, Log!Smaller
<1>3. UNCHANGED <<published, latest, [d \in Clients |-> Wanted(d)], since>>
  BY DEF CopyPage, calls, Wanted
<1>4. answer' = [answer EXCEPT ![c] = PageOf(start, n)]
  BY DEF CopyPage
<1> QED BY <1>2, <1>3, <1>4, CountIsKept DEF Log!Page

LEMMA AverageImplements ==
    ASSUME IInv, NEW c \in Clients, NEW n \in 1..Capacity, AverageLatest(c, n)
    PROVE  Log!Newest(c, n)
<1> DEFINE m == Smaller(count, n)
<1>1. n \in Nat /\ published > 0
  BY CapacityAssumption DEF IInv, HistoryTypeOK, RingHoldsNewest, Smaller, AverageLatest
<1>2. [i \in 1..m |-> samples[SlotOfNewest(m, i - 1)]] = Log!Run(published - m + 1, m)
  BY <1>1, AverageIsRun DEF IInv
<1>3. m = Log!Smaller(Log!Kept, n)
  BY CountIsKept DEF Smaller, Log!Smaller
<1>4. UNCHANGED <<published, latest, [d \in Clients |-> Wanted(d)], since>>
  BY DEF AverageLatest, calls, ring, Wanted
<1>5. answer' = [answer EXCEPT ![c] = [i \in 1..m |-> samples[SlotOfNewest(m, i - 1)]]]
  BY DEF AverageLatest
<1> QED BY <1>1, <1>2, <1>3, <1>4, <1>5 DEF Log!Newest

LEMMA CountImplements ==
    ASSUME IInv, NEW c \in Clients, NEW n \in 0..Capacity, CountAvailable(c, n)
    PROVE  Log!Ask(c, n)
<1> DEFINE wanted == [d \in Clients |-> Wanted(d)]
<1>1. available' = [available EXCEPT ![c] = count] /\ max_count' = [max_count EXCEPT ![c] = n]
      /\ available \in [Clients -> 0..Capacity] /\ max_count \in [Clients -> 0..Capacity]
  BY DEF CountAvailable, IInv, HistoryTypeOK
<1>2. ASSUME NEW d \in Clients
      PROVE  Wanted(d)' = IF d = c THEN Log!Smaller(Log!Kept, n) ELSE Wanted(d)
  BY <1>1, CountIsKept DEF Wanted, Smaller, Log!Smaller
<1>3. wanted' = [wanted EXCEPT ![c] = Log!Smaller(Log!Kept, n)]
  BY <1>2
<1> QED BY <1>3 DEF CountAvailable, ring, Log!Ask

\* The page a client copies in its second critical section ends with a sample that
\* was the newest at some moment since its first one: had the ring been full then,
\* the newest now; else the one that has moved to that place.
LEMMA CopyLatestImplements ==
    ASSUME IInv, NEW c \in Clients, CopyLatest(c)
    PROVE  Log!Get(c)
<1> DEFINE w == Wanted(c)
           start == available[c] - w
           last == published - count + available[c]
           wanted == [d \in Clients |-> Wanted(d)]
<1>1. /\ available[c] \in 0..Capacity /\ max_count[c] \in 0..Capacity
      /\ since[c] \in 0..published /\ available[c] = Smaller(since[c], Capacity)
      /\ published \in Nat /\ count = Smaller(published, Capacity) /\ Capacity \in Nat \ {0}
  BY CapacityAssumption DEF IInv, HistoryTypeOK, CallInv, RingHoldsNewest, CopyLatest
<1>2. w \in 0..available[c] /\ start \in Nat /\ w \in Nat
  BY <1>1 DEF Wanted, Smaller
<1>3. last \in since[c]..published /\ count \in Nat /\ available[c] <= count
  BY <1>1 DEF Smaller
<1> HIDE DEF w
<1>4. PageOf(start, w) = Log!Run(last - w + 1, w)
  <2>1. CASE w = 0
    <3>1. PageOf(start, w) = <<>>
      BY <2>1, <1>2, <1>3 DEF PageOf, Smaller
    <3> QED BY <2>1, <3>1 DEF Log!Run
  <2>2. CASE w > 0
    <3>1. start < count /\ Smaller(count - start, w) = w
      BY <1>1, <1>2, <1>3, <2>2 DEF Smaller
    <3>2. PageOf(start, w) = Log!Run(published - count + start + 1, w)
      BY <1>2, <3>1, PageIsRun DEF IInv
    <3>3. published - count + start + 1 = last - w + 1
      BY <1>1, <1>2, <1>3
    <3> QED BY <3>2, <3>3
  <2> QED BY <1>2, <2>1, <2>2
<1>5. wanted[c] = w
  BY DEF w
<1>6. wanted' = wanted
  BY DEF CopyLatest, Wanted
<1>7. answer' = [answer EXCEPT ![c] = Log!Run(last - wanted[c] + 1, wanted[c])]
  BY <1>4, <1>5 DEF CopyLatest, w
<1> HIDE DEF last, wanted
<1>8. \E l \in since[c]..published :
          answer' = [answer EXCEPT ![c] = Log!Run(l - wanted[c] + 1, wanted[c])]
  BY <1>3, <1>7
<1>9. Log!Get(c) = /\ c \in latest
                   /\ latest' = latest \ {c}
                   /\ \E l \in since[c]..published :
                          answer' = [answer EXCEPT ![c] = Log!Run(l - wanted[c] + 1, wanted[c])]
                   /\ UNCHANGED <<published, wanted, since>>
  BY DEF Log!Get, wanted
<1> QED BY <1>6, <1>8, <1>9 DEF CopyLatest, ring

LEMMA StepImplements == IInv /\ [HistoryNext]_historyVars => [Log!LogNext]_(Log!logVars)
<1> SUFFICES ASSUME IInv, [HistoryNext]_historyVars PROVE [Log!LogNext]_(Log!logVars)
  OBVIOUS
<1>1. CASE Publish
  <2>1. Log!Add
    BY <1>1 DEF Publish, calls, Wanted, Log!Add
  <2> QED BY <2>1 DEF Log!LogNext
<1>2. ASSUME NEW c \in Clients, NEW start \in 0..Capacity, NEW n \in 0..Capacity,
             CopyPage(c, start, n)
      PROVE  Log!LogNext
  BY <1>2, PageImplements DEF Log!LogNext
<1>3. ASSUME NEW c \in Clients, NEW n \in 1..Capacity, AverageLatest(c, n)
      PROVE  Log!LogNext
  BY <1>3, AverageImplements DEF Log!LogNext
<1>4. ASSUME NEW c \in Clients, NEW n \in 0..Capacity, CountAvailable(c, n)
      PROVE  Log!LogNext
  BY <1>4, CountImplements DEF Log!LogNext
<1>5. ASSUME NEW c \in Clients, CopyLatest(c)
      PROVE  Log!LogNext
  BY <1>5, CopyLatestImplements DEF Log!LogNext
<1>6. CASE UNCHANGED historyVars
  BY <1>6 DEF historyVars, calls, Wanted, Log!logVars
<1> QED BY <1>1, <1>2, <1>3, <1>4, <1>5, <1>6 DEF HistoryNext

\* The ring with its two-step copy implements the log of samples, for every
\* capacity and every set of clients.
THEOREM LogImplemented == HistorySpec => ImplementsLog
<1> QED BY InitImplements, StepImplements, InvariantCorrect, PTL DEF HistorySpec, ImplementsLog, Log!LogSpec

-----------------------------------------------------------------------------
(***************************************************************************)
(* RangePolicy.  Both tables keep the range from hunting, and a range that *)
(* has settled is none that saturates.  The lemmas compute what one        *)
(* voltage reads in two neighbouring ranges; the invariant says what the   *)
(* last move tells of the reading it was made by.                          *)
(***************************************************************************)

\* What a voltage reads in a range.
Reading(v, r) == ToU4(Code(v, r), r)

\* The reading that moved the range still says so: the voltage is the same.
MoveInv ==
    /\ moved = "up" => /\ range - 1 \in 1..2
                       /\ Reading(voltage, range - 1) >= policy.top[range - 1]
    /\ moved = "down" => /\ range + 1 \in 2..3
                         /\ Reading(voltage, range + 1) <= policy.bottom[range + 1]

RangeInv == TypeOK /\ MoveInv
-----------------------------------------------------------------------------
LEMMA FullScales == FullScale[1] = 256 /\ FullScale[2] = 512 /\ FullScale[3] = 2048
BY DEF FullScale

\* The codes and readings of a voltage, with the numbers of the tables.
LEMMA CodeIs ==
    ASSUME NEW v \in Nat
    PROVE  /\ Code(v, 1) = IF (v * 32768) \div 5120 > 32767 THEN 32767 ELSE (v * 32768) \div 5120
           /\ Code(v, 2) = IF (v * 32768) \div 10240 > 32767 THEN 32767 ELSE (v * 32768) \div 10240
           /\ Code(v, 3) = IF (v * 32768) \div 40960 > 32767 THEN 32767 ELSE (v * 32768) \div 40960
<1>1. FullScale[1] * 20 = 5120 /\ FullScale[2] * 20 = 10240 /\ FullScale[3] * 20 = 40960
  BY FullScales
<1> QED BY <1>1 DEF Code

LEMMA CodeType ==
    ASSUME NEW v \in Nat
    PROVE  Code(v, 1) \in Nat /\ Code(v, 2) \in Nat /\ Code(v, 3) \in Nat
<1>1. /\ (v * 32768) \div 5120 \in Nat
      /\ (v * 32768) \div 10240 \in Nat
      /\ (v * 32768) \div 40960 \in Nat
  OBVIOUS
<1> QED BY <1>1, CodeIs

LEMMA ReadingIs ==
    ASSUME NEW v \in Nat
    PROVE  /\ Reading(v, 1) = (Code(v, 1) * 2560 + 16384) \div 32768
           /\ Reading(v, 2) = (Code(v, 2) * 5120 + 16384) \div 32768
           /\ Reading(v, 3) = (Code(v, 3) * 20480 + 16384) \div 32768
<1>1. /\ Code(v, 1) * FullScale[1] * 10 = Code(v, 1) * 2560
      /\ Code(v, 2) * FullScale[2] * 10 = Code(v, 2) * 5120
      /\ Code(v, 3) * FullScale[3] * 10 = Code(v, 3) * 20480
  <2> DEFINE a == Code(v, 1)
             b == Code(v, 2)
             c == Code(v, 3)
  <2>1. a \in Nat /\ b \in Nat /\ c \in Nat
    BY CodeType
  <2> HIDE DEF a, b, c
  <2>2. a * FullScale[1] * 10 = a * 2560 /\ b * FullScale[2] * 10 = b * 5120
        /\ c * FullScale[3] * 10 = c * 20480
    BY <2>1, FullScales
  <2> QED BY <2>2 DEF a, b, c
<1> QED BY <1>1 DEF Reading, ToU4

\* A voltage that moves the range up does not move it down again.
LEMMA UpIsNotDown ==
    ASSUME NEW v \in Nat, NEW p \in Policies, NEW r \in 1..2, Reading(v, r) >= p.top[r]
    PROVE  Reading(v, r + 1) > p.bottom[r + 1]
<1>1. CASE r = 1
  <2>1. CASE p = ADS_RANGES
    <3>1. p.top[1] = 572 /\ p.bottom[2] = 500
      BY <2>1 DEF ADS_RANGES
    <3> QED BY <1>1, <3>1, ReadingIs, CodeIs
  <2>2. CASE p = ADS_CURRENT_RANGES
    <3>1. p.top[1] = 2400 /\ p.bottom[2] = 2200
      BY <2>2 DEF ADS_CURRENT_RANGES
    <3> QED BY <1>1, <3>1, ReadingIs, CodeIs
  <2> QED BY <2>1, <2>2 DEF Policies
<1>2. CASE r = 2
  <2>1. CASE p = ADS_RANGES
    <3>1. p.top[2] = 4160 /\ p.bottom[3] = 3840
      BY <2>1 DEF ADS_RANGES
    <3> QED BY <1>2, <3>1, ReadingIs, CodeIs
  <2>2. CASE p = ADS_CURRENT_RANGES
    <3>1. p.top[2] = 4800 /\ p.bottom[3] = 4400
      BY <2>2 DEF ADS_CURRENT_RANGES
    <3> QED BY <1>2, <3>1, ReadingIs, CodeIs
  <2> QED BY <2>1, <2>2 DEF Policies
<1> QED BY <1>1, <1>2

LEMMA PolicyType ==
    ASSUME NEW p \in Policies, NEW r \in 1..3
    PROVE  p.top[r] \in Nat /\ p.bottom[r] \in Nat
<1>1. CASE p = ADS_RANGES
  BY <1>1 DEF ADS_RANGES
<1>2. CASE p = ADS_CURRENT_RANGES
  BY <1>2 DEF ADS_CURRENT_RANGES
<1> QED BY <1>1, <1>2 DEF Policies

LEMMA ReadingType ==
    ASSUME NEW v \in Nat, NEW r \in 1..3
    PROVE  Reading(v, r) \in Nat
<1> DEFINE Rounded(n) == (n + 16384) \div 32768
<1>1. \A n \in Nat : Rounded(n) \in Nat
  OBVIOUS
<1>2. /\ Code(v, 1) * 2560 \in Nat
      /\ Code(v, 2) * 5120 \in Nat
      /\ Code(v, 3) * 20480 \in Nat
  BY CodeType
<1>3. /\ Reading(v, 1) = Rounded(Code(v, 1) * 2560)
      /\ Reading(v, 2) = Rounded(Code(v, 2) * 5120)
      /\ Reading(v, 3) = Rounded(Code(v, 3) * 20480)
  BY ReadingIs
<1> HIDE DEF Rounded
<1>4. Reading(v, 1) \in Nat /\ Reading(v, 2) \in Nat /\ Reading(v, 3) \in Nat
  BY <1>1, <1>2, <1>3
<1>5. r = 1 \/ r = 2 \/ r = 3
  OBVIOUS
<1> QED BY <1>4, <1>5

\* What the next range says of the reading.
LEMMA NextRangeIs ==
    ASSUME TypeOK
    PROVE  \/ NextRange = range
           \/ /\ range \in 1..2 /\ NextRange = range + 1
              /\ Reading(voltage, range) >= policy.top[range]
           \/ /\ range \in 2..3 /\ NextRange = range - 1
              /\ Reading(voltage, range) <= policy.bottom[range]
BY DEF TypeOK, RangeIndices, NextRange, Select, Reading
-----------------------------------------------------------------------------
LEMMA RangeInitInv == Init => RangeInv
BY MaxChangesAssumption DEF Init, RangeInv, TypeOK, MoveInv, RangeIndices

LEMMA ConvertInv == RangeInv /\ Convert => RangeInv'
<1> SUFFICES ASSUME RangeInv, Convert PROVE RangeInv'
  OBVIOUS
<1>1. TypeOK /\ range \in 1..3
  BY DEF RangeInv, TypeOK, RangeIndices
<1>2. range' = NextRange /\ voltage' = voltage /\ policy' = policy
      /\ moved' = (IF NextRange > range THEN "up" ELSE "down") /\ NextRange # range
  BY DEF Convert
<1>3. CASE range \in 1..2 /\ NextRange = range + 1 /\ Reading(voltage, range) >= policy.top[range]
  <2>1. range' = range + 1 /\ moved' = "up" /\ range' - 1 = range
    BY <1>1, <1>2, <1>3
  <2>2. TypeOK'
    BY <1>1, <1>2, <1>3, <2>1 DEF TypeOK, RangeIndices, Convert
  <2>3. MoveInv'
    BY <1>2, <1>3, <2>1 DEF MoveInv, Reading
  <2> QED BY <2>2, <2>3 DEF RangeInv
<1>4. CASE range \in 2..3 /\ NextRange = range - 1 /\ Reading(voltage, range) <= policy.bottom[range]
  <2>1. range' = range - 1 /\ moved' = "down" /\ range' + 1 = range
    BY <1>1, <1>2, <1>4
  <2>2. TypeOK'
    BY <1>1, <1>2, <1>4, <2>1 DEF TypeOK, RangeIndices, Convert
  <2>3. MoveInv'
    BY <1>2, <1>4, <2>1 DEF MoveInv, Reading
  <2> QED BY <2>2, <2>3 DEF RangeInv
<1> QED BY <1>1, <1>2, <1>3, <1>4, NextRangeIs

LEMMA RangeNextInv == RangeInv /\ [Next]_vars => RangeInv'
<1> SUFFICES ASSUME RangeInv, [Next]_vars PROVE RangeInv'
  OBVIOUS
<1>1. CASE Convert
  BY <1>1, ConvertInv
<1>2. CASE Change
  BY <1>2, MaxChangesAssumption DEF RangeInv, TypeOK, MoveInv, Change
<1>3. CASE UNCHANGED vars
  BY <1>3 DEF RangeInv, TypeOK, MoveInv, vars
<1> QED BY <1>1, <1>2, <1>3 DEF Next

THEOREM TypeCorrect == Spec => []TypeOK
<1>1. RangeInv => TypeOK
  BY DEF RangeInv
<1> QED BY <1>1, RangeInitInv, RangeNextInv, PTL DEF Spec

\* A move at the voltage of the last one goes on in its direction.
LEMMA NoReversal ==
    ASSUME RangeInv, Convert
    PROVE  moved \in {"no", IF range' > range THEN "up" ELSE "down"}
<1>1. /\ TypeOK /\ range \in 1..3 /\ voltage \in Nat /\ policy \in Policies
      /\ moved \in {"no", "up", "down"} /\ range' = NextRange /\ NextRange # range
  BY VoltagesAssumption DEF RangeInv, TypeOK, RangeIndices, Convert
<1>2. CASE moved = "up"
  <2>1. range - 1 \in 1..2 /\ Reading(voltage, range - 1) >= policy.top[range - 1]
    BY <1>2 DEF RangeInv, MoveInv
  <2>2. Reading(voltage, (range - 1) + 1) > policy.bottom[(range - 1) + 1]
    BY <1>1, <2>1, UpIsNotDown
  <2>3. (range - 1) + 1 = range
    BY <1>1
  <2>4. Reading(voltage, range) > policy.bottom[range]
    BY <2>2, <2>3
  <2>5. Reading(voltage, range) \in Nat /\ policy.bottom[range] \in Nat
    BY <1>1, ReadingType, PolicyType
  <2>6. NextRange = range + 1
    BY <1>1, <2>4, <2>5, NextRangeIs
  <2> QED BY <1>1, <1>2, <2>6
<1>3. CASE moved = "down"
  <2>1. range + 1 \in 2..3 /\ Reading(voltage, range + 1) <= policy.bottom[range + 1]
    BY <1>3 DEF RangeInv, MoveInv
  <2>2. range \in 1..2 /\ range + 1 \in 1..3
    BY <1>1, <2>1
  <2>3. /\ Reading(voltage, range) \in Nat /\ policy.top[range] \in Nat
        /\ Reading(voltage, range + 1) \in Nat /\ policy.bottom[range + 1] \in Nat
    BY <1>1, <2>2, ReadingType, PolicyType
  <2>4. ~(Reading(voltage, range) >= policy.top[range])
    BY <1>1, <2>1, <2>2, <2>3, UpIsNotDown
  <2>5. NextRange = range - 1
    BY <1>1, <2>4, NextRangeIs
  <2> QED BY <1>1, <1>3, <2>5
<1> QED BY <1>1, <1>2, <1>3

\* For every voltage, neither table makes the range hunt: no move at a steady
\* voltage turns back the one before.
THEOREM HuntingFree == Spec => NeverHunts
<1>1. RangeInv /\ [Next]_vars =>
          [voltage' = voltage /\ range' # range =>
              moved \in {"no", IF range' > range THEN "up" ELSE "down"}]_vars
  <2> SUFFICES ASSUME RangeInv, [Next]_vars, voltage' = voltage, range' # range
               PROVE  moved \in {"no", IF range' > range THEN "up" ELSE "down"}
    OBVIOUS
  <2>1. Convert
    BY DEF Next, Change, vars
  <2> QED BY <2>1, NoReversal
<1> QED BY <1>1, RangeInitInv, RangeNextInv, PTL DEF Spec, NeverHunts

\* The last code of a range below the widest reads as its full scale, which is not
\* below the threshold that leaves the range.
LEMMA SaturatedMoves ==
    ASSUME TypeOK, range \in 1..2, ~(Code(voltage, range) < 32767)
    PROVE  NextRange # range
<1>1. voltage \in Nat /\ policy \in Policies
  BY VoltagesAssumption DEF TypeOK
<1>2. Code(voltage, range) = 32767
  BY <1>1, CodeIs, CodeType
<1>3. Reading(voltage, range) = IF range = 1 THEN 2560 ELSE 5120
  BY <1>1, <1>2, ReadingIs
<1>4. Reading(voltage, range) >= policy.top[range]
  BY <1>1, <1>3 DEF Policies, ADS_RANGES, ADS_CURRENT_RANGES
<1>5. NextRange = range + 1
  BY <1>4 DEF NextRange, Select, Reading
<1> QED BY <1>5

\* For every voltage, an input whose range no reading moves is read without saturation, or
\* in the widest range there is: saturation never hides behind a settled range.
THEOREM SettledCorrect == Spec => []SettledIsUnsaturated
<1>1. RangeInv => SettledIsUnsaturated
  <2> SUFFICES ASSUME RangeInv, NextRange = range, range # 3 PROVE Code(voltage, range) < 32767
    BY DEF SettledIsUnsaturated
  <2>1. TypeOK /\ range \in 1..2
    BY DEF RangeInv, TypeOK, RangeIndices
  <2> QED BY <2>1, SaturatedMoves
<1> QED BY <1>1, RangeInitInv, RangeNextInv, PTL DEF Spec

\* For every voltage the policy comes to rest, and where it rests the reading is good.
THEOREM RangeCorrect == Spec => RangeIsSound
BY HuntingFree, SettledCorrect, PTL DEF RangeIsSound

-----------------------------------------------------------------------------
(***************************************************************************)
(* AdsConverter.  What a turn still owes to early reads bounds how far the *)
(* conversion in progress and the one in the register are from the ones    *)
(* the task takes them for: with none, both are the selected input's; with *)
(* one, the one in progress is.                                            *)
(***************************************************************************)

\* A turn in which no read came early has the conversions it asked for, in progress and in the
\* register; one early read leaves it behind by one, so that the one in progress is its own
\* from the second it starts.
TurnInv ==
    /\ turn.started <= IF turn.waiting THEN Discards + 1 ELSE Discards
    /\ turn.waiting => running /\ turn.started >= 1 /\ converter.busy # Nothing
    /\ running /\ early = 0 =>
           /\ converter.busy = IF turn.waiting THEN Selected ELSE Nothing
           /\ turn.done = IF turn.waiting THEN turn.started - 1 ELSE turn.started
           /\ turn.done >= 1 => converter.register = Selected
    /\ running /\ early = 1 =>
           /\ turn.waiting /\ turn.started >= 2 => converter.busy = Selected
           /\ ~turn.waiting /\ turn.started >= 1 => converter.busy \in {Selected, Nothing}

AcceptedInv ==
    accepted # Nothing =>
        /\ accepted.code = accepted.wanted \/ accepted.early = 2
        /\ accepted.early = 0 =>
               accepted.done = Settling(accepted.wanted.input, accepted.wanted.pga) + 1

AdsInv == AdsTypeOK /\ TurnInv /\ AcceptedInv

-----------------------------------------------------------------------------
(* A sleep is as long as the slowest conversion *)

LEMMA RoundedUp ==
    ASSUME NEW a \in Nat \ {0}, NEW b \in Nat \ {0}
    PROVE  (a + b - 1) \div b \in Nat \ {0} /\ a <= ((a + b - 1) \div b) * b
<1> DEFINE n == a + b - 1
           q == n \div b
<1>1. n \in Nat /\ n = a + b - 1 /\ n >= b
  OBVIOUS
<1> HIDE DEF n
<1>2. q \in Nat /\ q * b <= n /\ n < q * b + b
  BY <1>1
<1> HIDE DEF q
<1>3. q * b \in Nat /\ (q = 0 => q * b = 0)
  BY <1>2
<1> QED BY <1>1, <1>2, <1>3 DEF n, q

LEMMA RateIsPositive == SupportedRates \subseteq Nat \ {0}
BY DEF SupportedRates

LEMMA DelayFacts ==
    ASSUME NEW sps \in SupportedRates
    PROVE  /\ DelayMs(sps) \in Nat /\ 10000 <= DelayMs(sps) * (9 * sps)
           /\ DelayTicks(sps) \in Nat /\ DelayMs(sps) <= DelayTicks(sps) * TickMs
<1>1. sps \in Nat \ {0} /\ 9 * sps \in Nat \ {0} /\ TickMs \in Nat \ {0}
  BY RateIsPositive, AdsAssumption
<1>2. DelayMs(sps) \in Nat /\ 10000 <= DelayMs(sps) * (9 * sps)
  BY <1>1, RoundedUp DEF DelayMs
<1> DEFINE d == DelayMs(sps)
           q == d \div TickMs
<1>3. d \in Nat
  BY <1>2
<1> HIDE DEF d
<1>4. q \in Nat /\ q * TickMs <= d /\ d < q * TickMs + TickMs
  BY <1>1, <1>3
<1> HIDE DEF q
<1>5. (q + 1) * TickMs = q * TickMs + TickMs /\ q * TickMs \in Nat
  BY <1>1, <1>4
<1>6. DelayTicks(sps) \in {q, q + 1} /\ (DelayTicks(sps) = q => ~(q * TickMs < d))
  BY <1>4 DEF DelayTicks, d, q
<1>7. DelayTicks(sps) \in Nat /\ d <= DelayTicks(sps) * TickMs
  <2>1. CASE DelayTicks(sps) = q
    BY <1>3, <1>4, <1>5, <1>6, <2>1
  <2>2. CASE DelayTicks(sps) = q + 1
    <3>1. DelayTicks(sps) * TickMs = q * TickMs + TickMs
      BY <1>5, <2>2
    <3> QED BY <1>1, <1>3, <1>4, <1>5, <2>2, <3>1
  <2> QED BY <1>6, <2>1, <2>2
<1> QED BY <1>2, <1>7 DEF d

LEMMA SleepIsLongEnough ==
    ASSUME NEW sps \in SupportedRates PROVE IsOver(DelayTicks(sps) * TickMs, sps)
<1> DEFINE d == DelayMs(sps)
           s == DelayTicks(sps) * TickMs
           n == 9 * sps
<1>1. /\ d \in Nat /\ s \in Nat /\ n \in Nat /\ d <= s /\ 10000 <= d * n
  BY DelayFacts, RateIsPositive, AdsAssumption
<1> HIDE DEF d, s
<1>2. d * n <= s * n /\ d * n \in Nat /\ s * n \in Nat
  <2> HIDE DEF n
  <2>1. s * n = d * n + (s - d) * n /\ (s - d) * n \in Nat /\ d * n \in Nat
    BY <1>1
  <2> QED BY <1>1, <2>1
<1>3. s * 9 * sps = s * n
  BY <1>1, RateIsPositive
<1>4. s * 9 * sps >= 10000
  <2> HIDE DEF n
  <2> QED BY <1>1, <1>2, <1>3
<1> QED BY <1>4 DEF IsOver, s

-----------------------------------------------------------------------------
(* The converter *)

LEMMA TurnFacts ==
    ASSUME AdsTypeOK
    PROVE  /\ turn.at \in 1..Len(Inputs) /\ turn.pga \in Pgas \cup {2048} /\ turn.rate \in SupportedRates
           /\ turn.started \in Nat /\ turn.done \in Nat /\ turn.waiting \in BOOLEAN
           /\ Len(Inputs) \in Nat \ {0} /\ Input \in ToSet(Inputs)
           /\ Selected \in Configs /\ Selected # Nothing
           /\ Selected.input = Input /\ Selected.pga = turn.pga
           /\ Discards \in {1, 3} /\ Discards = Settling(Selected.input, Selected.pga)
<1>1. /\ turn.at \in 1..Len(Inputs) /\ turn.pga \in Pgas \cup {2048} /\ turn.rate \in SupportedRates
      /\ turn.started \in Nat /\ turn.done \in Nat /\ turn.waiting \in BOOLEAN
  BY DEF AdsTypeOK, Turns
<1>2. Len(Inputs) \in Nat \ {0} /\ Input \in ToSet(Inputs)
  BY <1>1, AdsAssumption DEF Input
<1>3. /\ Selected \in Configs /\ Selected # Nothing /\ Selected.input = Input /\ Selected.pga = turn.pga
  <2>1. Selected # Nothing
    <3> DEFINE sps == turn.rate
               pga == turn.pga
               input == Input
    <3>1. input \in ToSet(Inputs) /\ pga \in Pgas \cup {2048} /\ sps \in SupportedRates
      BY <1>1, <1>2
    <3> HIDE DEF input, pga, sps
    <3>2. Config(input, pga, sps) # Nothing
      BY <3>1, AdsAssumption
    <3> QED BY <3>2 DEF Selected, input, pga, sps
  <2> QED BY <1>1, <1>2, <2>1 DEF Selected, Config, Configs
<1>4. Discards \in {1, 3} /\ Discards = Settling(Selected.input, Selected.pga)
  BY <1>3 DEF Discards, Settling
<1> QED BY <1>1, <1>2, <1>3, <1>4

LEMMA DiscardsFacts == Discards \in {1, 3}
BY DEF Discards, Settling

LEMMA NoTurnIsOne == NoTurn \in Turns /\ \A sps \in SupportedRates : [NoTurn EXCEPT !.rate = sps] \in Turns
<1>1. FALSE \in BOOLEAN /\ 1 \in 1..Len(Inputs) /\ DefaultRate \in SupportedRates
  BY AdsAssumption
<1>2. NoTurn \in Turns
  BY <1>1 DEF NoTurn, Turns
<1> QED BY <1>2 DEF Turns

\* The changes that a transfer makes to a turn and to the converter.
LEMMA TurnChanges ==
    ASSUME NEW t \in Turns, NEW w \in BOOLEAN, NEW n \in Nat
    PROVE  /\ [t EXCEPT !.waiting = w, !.started = n] \in Turns
           /\ [t EXCEPT !.waiting = w, !.done = n] \in Turns
<1>1. [t EXCEPT !.waiting = w] \in Turns
  BY DEF Turns
<1>2. \A x \in Turns : [x EXCEPT !.started = n] \in Turns
  BY DEF Turns
<1>3. \A x \in Turns : [x EXCEPT !.done = n] \in Turns
  BY DEF Turns
<1> QED BY <1>1, <1>2, <1>3, Zenon

LEMMA ConverterChanges ==
    ASSUME NEW c \in Configs,
           NEW v \in [busy : Configs \cup {Nothing}, elapsed : Int, register : Configs \cup {Nothing}],
           NEW u, u = [v EXCEPT !.busy = c, !.elapsed = 0]
    PROVE  /\ u \in [busy : Configs \cup {Nothing}, elapsed : Int, register : Configs \cup {Nothing}]
           /\ u.busy = c /\ u.register = v.register
<1>1. u = [busy |-> c, elapsed |-> 0, register |-> v.register]
  OBVIOUS
<1> QED BY <1>1

LEMMA NextTurnFacts ==
    ASSUME AdsTypeOK, NextTurn
    PROVE  turn' \in Turns /\ turn'.started = 0 /\ turn'.done = 0 /\ ~turn'.waiting
<1>1. PICK pga \in Pgas :
        turn' = [at |-> (turn.at % Len(Inputs)) + 1, pga |-> pga, rate |-> rate,
                 started |-> 0, done |-> 0, waiting |-> FALSE]
  BY DEF NextTurn
<1>2. (turn.at % Len(Inputs)) + 1 \in 1..Len(Inputs)
  BY TurnFacts
<1>3. rate \in SupportedRates /\ FALSE \in BOOLEAN
  BY DEF AdsTypeOK
<1> QED BY <1>1, <1>2, <1>3 DEF Turns

\* A turn that begins owes a conversion in progress to one read.
LEMMA BeginsInv ==
    ASSUME AdsTypeOK', turn'.started = 0, turn'.done = 0, ~turn'.waiting, early' = Left(converter')
    PROVE  TurnInv'
<1>1. early' = 0 => converter'.busy = Nothing
  BY DEF Left
<1>2. Discards' \in {1, 3}
  BY DEF Discards, Settling
<1> QED BY <1>1, <1>2 DEF TurnInv

LEMMA SleptFacts ==
    ASSUME AdsTypeOK, turn.waiting, converter.busy # Nothing, NEW age \in TickAges, Slept(age)
    PROVE  /\ converter' \in [busy : Configs \cup {Nothing}, elapsed : Int, register : Configs \cup {Nothing}]
           /\ \/ converter'.busy = Nothing /\ converter'.register = converter.busy
              \/ converter'.busy = converter.busy /\ converter'.register = converter.register
           /\ IsEarly <=> converter'.busy # Nothing
           /\ Left(converter') \in 0..2
<1>1. /\ converter.busy \in Configs /\ converter.elapsed \in Int
      /\ converter.register \in Configs \cup {Nothing}
  BY DEF AdsTypeOK
<1>2. converter.elapsed + (DelayTicks(turn.rate) * TickMs) - age \in Int
  <2>1. DelayTicks(turn.rate) \in Nat /\ TickMs \in Nat /\ age \in Nat
    BY DelayFacts, TurnFacts, AdsAssumption
  <2> QED BY <1>1, <2>1
<1> DEFINE elapsed == converter.elapsed + (DelayTicks(turn.rate) * TickMs) - age
<1>3. \/ converter' = [busy |-> Nothing, elapsed |-> 0, register |-> converter.busy]
      \/ converter' = [converter EXCEPT !.elapsed = elapsed]
  BY DEF Slept
<1> HIDE DEF elapsed
<1>4. /\ converter' \in [busy : Configs \cup {Nothing}, elapsed : Int, register : Configs \cup {Nothing}]
      /\ \/ converter'.busy = Nothing /\ converter'.register = converter.busy
         \/ converter'.busy = converter.busy /\ converter'.register = converter.register
  BY <1>1, <1>2, <1>3 DEF AdsTypeOK, elapsed
<1> QED BY <1>4 DEF IsEarly, Left

-----------------------------------------------------------------------------
(* The actions *)

LEMMA AdsInitInv == AdsInit => AdsInv
<1> SUFFICES ASSUME AdsInit PROVE AdsInv
  OBVIOUS
<1>1. AdsTypeOK
  <2>1. NoTurn \in Turns
    BY NoTurnIsOne
  <2>2. running \in BOOLEAN
    BY DEF AdsInit
  <2> QED BY <2>1, <2>2, AdsAssumption DEF AdsInit, AdsTypeOK
<1>2. /\ turn.started = 0 /\ ~turn.waiting /\ ~running /\ accepted = Nothing
  BY DEF AdsInit, NoTurn
<1> QED BY <1>1, <1>2, DiscardsFacts DEF AdsInv, TurnInv, AcceptedInv

LEMMA StartAdsInv == ASSUME AdsInv, StartAds PROVE AdsInv'
<1>1. /\ turn'.started = 0 /\ turn'.done = 0 /\ ~turn'.waiting /\ turn' \in Turns
  <2>1. Loaded \in SupportedRates
    BY AdsAssumption DEF Loaded
  <2>2. turn' = [NoTurn EXCEPT !.rate = Loaded]
    BY DEF StartAds
  <2>3. turn' \in Turns
    BY <2>1, <2>2, NoTurnIsOne
  <2> QED BY <2>2, <2>3 DEF NoTurn
<1>2. early' = Left(converter') /\ early' \in 0..2 /\ converter' = converter
  BY DEF StartAds, Left
<1>3. AdsTypeOK'
  <2>1. running' \in BOOLEAN /\ rate' \in SupportedRates
    BY AdsAssumption DEF StartAds, Loaded
  <2> QED BY <1>1, <1>2, <2>1 DEF AdsInv, AdsTypeOK, StartAds
<1>4. TurnInv'
  BY <1>1, <1>2, <1>3, BeginsInv
<1>5. AcceptedInv'
  BY DEF AcceptedInv, StartAds
<1> QED BY <1>3, <1>4, <1>5 DEF AdsInv

LEMMA AdsRestartInv == ASSUME AdsInv, Restart PROVE AdsInv'
<1>1. /\ turn'.started = 0 /\ ~turn'.waiting /\ turn' \in Turns
  <2>1. turn' = NoTurn
    BY DEF Restart
  <2> QED BY <2>1, NoTurnIsOne DEF NoTurn
<1>2. AdsTypeOK'
  <2>1. running' \in BOOLEAN
    BY DEF Restart
  <2> QED BY <1>1, <2>1 DEF AdsInv, AdsTypeOK, Restart
<1>3. Discards' \in {1, 3}
  BY DEF Discards, Settling
<1>4. TurnInv'
  BY <1>1, <1>3 DEF TurnInv, Restart
<1>5. AcceptedInv'
  BY DEF AcceptedInv, Restart
<1> QED BY <1>2, <1>4, <1>5 DEF AdsInv

LEMMA SetDataRateInv == ASSUME AdsInv, NEW sps \in Rates, SetDataRate(sps) PROVE AdsInv'
<1>1. /\ UNCHANGED <<running, turn, converter, early, accepted>>
      /\ rate' \in SupportedRates /\ nvs_rate' \in Rates \cup {Nothing}
  BY DEF SetDataRate, StoreDataRate, AdsInv, AdsTypeOK
<1>2. AdsTypeOK'
  BY <1>1 DEF AdsInv, AdsTypeOK
<1>3. TurnInv' /\ AcceptedInv'
  BY <1>1 DEF AdsInv, TurnInv, AcceptedInv, Selected, Discards, Input
<1> QED BY <1>2, <1>3 DEF AdsInv

LEMMA WriteConfigInv == ASSUME AdsInv, WriteConfig PROVE AdsInv'
<1>1. /\ turn.started \in Nat /\ turn.done \in Nat /\ Selected \in Configs /\ Selected # Nothing
      /\ ~turn.waiting /\ running
  BY TurnFacts DEF AdsInv, WriteConfig
<1>2. /\ turn' \in Turns /\ turn'.waiting /\ turn'.started = turn.started + 1 /\ turn'.done = turn.done
      /\ turn'.at = turn.at /\ turn'.pga = turn.pga /\ turn'.rate = turn.rate
  <2>1. turn' = [turn EXCEPT !.waiting = TRUE, !.started = @ + 1] /\ turn \in Turns
    BY DEF WriteConfig, AdsInv, AdsTypeOK
  <2>2. turn' \in Turns
    <3>1. TRUE \in BOOLEAN /\ turn.started + 1 \in Nat
      BY <1>1
    <3> QED BY <2>1, <3>1, TurnChanges, Zenon
  <2> QED BY <1>1, <2>1, <2>2 DEF Turns
<1>3. Selected' = Selected /\ Discards' = Discards
  BY <1>2 DEF Selected, Discards, Input
<1>4. /\ converter' \in [busy : Configs \cup {Nothing}, elapsed : Int, register : Configs \cup {Nothing}]
      /\ converter'.register = converter.register
      /\ converter'.busy = Selected \/ (converter'.busy = converter.busy /\ converter.busy # Nothing)
  BY <1>1, ConverterChanges DEF WriteConfig, AdsInv, AdsTypeOK
<1>5. UNCHANGED <<running, rate, nvs_rate, early>> /\ accepted' = Nothing
  BY DEF WriteConfig
<1>6. AdsTypeOK'
  BY <1>2, <1>4, <1>5 DEF AdsInv, AdsTypeOK
<1>7. TurnInv'
  <2>1. turn'.started <= Discards' + 1 /\ turn'.started >= 1 /\ converter'.busy # Nothing
    BY <1>1, <1>2, <1>3, <1>4, TurnFacts DEF AdsInv, TurnInv
  <2>2. early = 0 => /\ converter'.busy = Selected /\ turn'.done = turn'.started - 1
                     /\ turn'.done >= 1 => converter'.register = Selected
    BY <1>1, <1>2, <1>4 DEF AdsInv, TurnInv
  <2>3. early = 1 /\ turn'.started >= 2 => converter'.busy = Selected
    BY <1>1, <1>2, <1>4 DEF AdsInv, TurnInv
  <2> QED BY <1>1, <1>2, <1>3, <1>5, <2>1, <2>2, <2>3 DEF TurnInv
<1>8. AcceptedInv'
  BY <1>5 DEF AcceptedInv
<1> QED BY <1>6, <1>7, <1>8 DEF AdsInv

LEMMA WriteFailsInv == ASSUME AdsInv, WriteFails PROVE AdsInv'
<1>1. converter' \in [busy : Configs \cup {Nothing}, elapsed : Int, register : Configs \cup {Nothing}]
  <2>1. /\ Selected \in Configs
        /\ converter \in [busy : Configs \cup {Nothing}, elapsed : Int, register : Configs \cup {Nothing}]
    BY TurnFacts DEF AdsInv, AdsTypeOK
  <2>2. CASE converter' = converter
    BY <2>1, <2>2
  <2>3. CASE converter' = [converter EXCEPT !.busy = Selected, !.elapsed = 0]
    BY <2>1, <2>3, ConverterChanges
  <2> QED BY <2>2, <2>3 DEF WriteFails
<1>2. turn' \in Turns /\ turn'.started = 0 /\ turn'.done = 0 /\ ~turn'.waiting
  BY NextTurnFacts DEF AdsInv, WriteFails
<1>3. /\ early' = Left(converter') /\ early' \in 0..2 /\ accepted' = Nothing
      /\ UNCHANGED <<running, rate, nvs_rate>>
  BY DEF WriteFails, Left
<1>4. AdsTypeOK'
  BY <1>1, <1>2, <1>3 DEF AdsInv, AdsTypeOK
<1>5. TurnInv' /\ AcceptedInv'
  BY <1>2, <1>3, <1>4, BeginsInv DEF AcceptedInv
<1> QED BY <1>4, <1>5 DEF AdsInv

\* What a read finds: the end of the conversion it was for, or it has come early.
LEMMA ReadFacts ==
    ASSUME AdsInv, running, turn.waiting, NEW age \in TickAges, Slept(age)
    PROVE  /\ converter' \in [busy : Configs \cup {Nothing}, elapsed : Int, register : Configs \cup {Nothing}]
           /\ Left(converter') \in 0..2 /\ Early \in 0..2 /\ Finished \in {turn.done, turn.done + 1}
           /\ \/ /\ converter'.busy = Nothing /\ converter'.register = converter.busy /\ Early = early
                 /\ converter.busy = Selected => Finished = turn.done + 1
              \/ /\ converter'.busy = converter.busy /\ converter'.register = converter.register
                 /\ Early = IF early < 2 THEN early + 1 ELSE 2
<1>1. AdsTypeOK /\ converter.busy # Nothing
  BY DEF AdsInv, TurnInv
<1>2. /\ converter' \in [busy : Configs \cup {Nothing}, elapsed : Int, register : Configs \cup {Nothing}]
      /\ \/ converter'.busy = Nothing /\ converter'.register = converter.busy
         \/ converter'.busy = converter.busy /\ converter'.register = converter.register
      /\ IsEarly <=> converter'.busy # Nothing
      /\ Left(converter') \in 0..2
  BY <1>1, SleptFacts
<1>3. early \in 0..2
  BY <1>1 DEF AdsTypeOK
<1>4. Early = IF converter'.busy # Nothing /\ early < 2 THEN early + 1 ELSE early
  BY <1>2 DEF Early
<1>5. Finished = IF converter'.register = Selected /\ converter'.busy = Nothing THEN turn.done + 1 ELSE turn.done
  BY <1>2 DEF Finished
<1> QED BY <1>1, <1>2, <1>3, <1>4, <1>5

LEMMA ReadDiscardedInv == ASSUME AdsInv, NEW age \in TickAges, ReadDiscarded(age) PROVE AdsInv'
<1>1. /\ running /\ turn.waiting /\ turn.started <= Discards /\ Slept(age) /\ early' = Early
      /\ UNCHANGED <<running, rate, nvs_rate, accepted>>
      /\ turn' = [turn EXCEPT !.waiting = FALSE, !.done = Finished]
  BY DEF ReadDiscarded
<1>2. /\ turn.started \in Nat /\ turn.done \in Nat /\ turn.started >= 1 /\ Selected # Nothing
      /\ converter.busy # Nothing /\ early \in 0..2
  BY <1>1, TurnFacts DEF AdsInv, AdsTypeOK, TurnInv
<1>3. /\ converter' \in [busy : Configs \cup {Nothing}, elapsed : Int, register : Configs \cup {Nothing}]
      /\ Early \in 0..2 /\ Finished \in {turn.done, turn.done + 1}
      /\ \/ /\ converter'.busy = Nothing /\ converter'.register = converter.busy /\ Early = early
            /\ converter.busy = Selected => Finished = turn.done + 1
         \/ /\ converter'.busy = converter.busy /\ converter'.register = converter.register
            /\ Early = IF early < 2 THEN early + 1 ELSE 2
  BY <1>1, ReadFacts
<1>4. /\ turn' \in Turns /\ ~turn'.waiting /\ turn'.started = turn.started /\ turn'.done = Finished
      /\ turn'.at = turn.at /\ turn'.pga = turn.pga /\ turn'.rate = turn.rate
  <2>1. turn \in Turns /\ FALSE \in BOOLEAN /\ Finished \in Nat
    BY <1>2, <1>3 DEF AdsInv, AdsTypeOK
  <2>2. turn' \in Turns
    BY <1>1, <2>1, TurnChanges, Zenon
  <2> HIDE DEF Finished
  <2> QED BY <1>1, <2>1, <2>2 DEF Turns
<1>5. Selected' = Selected /\ Discards' = Discards
  BY <1>4 DEF Selected, Discards, Input
<1>6. AdsTypeOK'
  BY <1>1, <1>3, <1>4 DEF AdsInv, AdsTypeOK
<1>7. TurnInv'
  <2>1. early' = 0 => /\ converter'.busy = Nothing /\ turn'.done = turn.started
                      /\ converter'.register = Selected
    BY <1>1, <1>2, <1>3, <1>4 DEF AdsInv, TurnInv
  <2>2. early' = 1 => converter'.busy \in {Selected, Nothing}
    BY <1>1, <1>2, <1>3 DEF AdsInv, TurnInv
  <2> QED BY <1>1, <1>4, <1>5, <2>1, <2>2 DEF TurnInv
<1>8. AcceptedInv'
  BY <1>1 DEF AdsInv, AcceptedInv
<1> QED BY <1>6, <1>7, <1>8 DEF AdsInv

LEMMA ReadAcceptedInv == ASSUME AdsInv, NEW age \in TickAges, ReadAccepted(age) PROVE AdsInv'
<1>1. /\ running /\ turn.waiting /\ turn.started > Discards /\ Slept(age) /\ NextTurn
      /\ early' = Left(converter') /\ UNCHANGED <<running, rate, nvs_rate>>
      /\ accepted' = [wanted |-> Selected, code |-> converter'.register, done |-> Finished, early |-> Early]
  BY DEF ReadAccepted
<1>2. /\ turn.started \in Nat /\ turn.done \in Nat /\ Selected \in Configs /\ early \in 0..2
      /\ Discards \in {1, 3} /\ Discards = Settling(Selected.input, Selected.pga)
      /\ converter.busy # Nothing /\ turn.started <= Discards + 1
  BY <1>1, TurnFacts DEF AdsInv, AdsTypeOK, TurnInv
<1>3. /\ converter' \in [busy : Configs \cup {Nothing}, elapsed : Int, register : Configs \cup {Nothing}]
      /\ Left(converter') \in 0..2 /\ Early \in 0..2 /\ Finished \in {turn.done, turn.done + 1}
      /\ \/ /\ converter'.busy = Nothing /\ converter'.register = converter.busy /\ Early = early
            /\ converter.busy = Selected => Finished = turn.done + 1
         \/ /\ converter'.busy = converter.busy /\ converter'.register = converter.register
            /\ Early = IF early < 2 THEN early + 1 ELSE 2
  BY <1>1, ReadFacts
<1>4. turn' \in Turns /\ turn'.started = 0 /\ turn'.done = 0 /\ ~turn'.waiting
  BY <1>1, NextTurnFacts DEF AdsInv
<1>5. AdsTypeOK'
  <2>1. accepted' \in [wanted : Configs, code : Configs \cup {Nothing}, done : Nat, early : 0..2]
    <3>1. converter'.register \in Configs \cup {Nothing} /\ Finished \in Nat
      BY <1>2, <1>3
    <3> QED BY <1>1, <1>2, <1>3, <3>1
  <2> QED BY <1>1, <1>3, <1>4, <2>1 DEF AdsInv, AdsTypeOK
<1>6. TurnInv'
  BY <1>1, <1>4, <1>5, BeginsInv
<1>7. AcceptedInv'
  <2>1. converter'.register = Selected \/ Early = 2
    BY <1>1, <1>2, <1>3 DEF AdsInv, TurnInv
  <2>2. Early = 0 => Finished = Discards + 1
    BY <1>1, <1>2, <1>3 DEF AdsInv, TurnInv
  <2>3. /\ accepted'.wanted = Selected /\ accepted'.code = converter'.register
        /\ accepted'.done = Finished /\ accepted'.early = Early
    BY <1>1
  <2> QED BY <1>2, <2>1, <2>2, <2>3 DEF AcceptedInv
<1> QED BY <1>5, <1>6, <1>7 DEF AdsInv

LEMMA ReadFailsInv == ASSUME AdsInv, NEW age \in TickAges, ReadFails(age) PROVE AdsInv'
<1>1. /\ running /\ turn.waiting /\ Slept(age) /\ NextTurn
      /\ early' = Left(converter') /\ UNCHANGED <<running, rate, nvs_rate, accepted>>
  BY DEF ReadFails
<1>2. turn' \in Turns /\ turn'.started = 0 /\ turn'.done = 0 /\ ~turn'.waiting
  BY <1>1, NextTurnFacts DEF AdsInv
<1>3. AdsTypeOK'
  BY <1>1, <1>2, ReadFacts DEF AdsInv, AdsTypeOK
<1>4. TurnInv' /\ AcceptedInv'
  BY <1>1, <1>2, <1>3, BeginsInv DEF AdsInv, AcceptedInv
<1> QED BY <1>3, <1>4 DEF AdsInv

LEMMA AdsNextInv == AdsInv /\ [AdsNext]_adsVars => AdsInv'
<1> SUFFICES ASSUME AdsInv, [AdsNext]_adsVars PROVE AdsInv'
  OBVIOUS
<1>1. CASE AdsNext
  BY <1>1, StartAdsInv, AdsRestartInv, SetDataRateInv, WriteConfigInv, WriteFailsInv,
     ReadDiscardedInv, ReadAcceptedInv, ReadFailsInv
  DEF AdsNext
<1>2. CASE UNCHANGED adsVars
  BY <1>2 DEF adsVars, AdsInv, AdsTypeOK, TurnInv, AcceptedInv, Selected, Discards, Input
<1> QED BY <1>1, <1>2

\* For any inputs, gains, tick and reads that come early: a code that is accepted is of the
\* selected input but for two of these in one turn, and a sleep is long enough.
THEOREM ConverterCorrect == AdsSpec => []AcceptedIsSettled
<1>1. AdsInv => AcceptedIsSettled
  BY SleepIsLongEnough DEF AdsInv, AcceptedInv, AcceptedIsSettled
<1> QED BY <1>1, AdsInitInv, AdsNextInv, PTL DEF AdsSpec
-----------------------------------------------------------------------------
(***************************************************************************)
(* SamplePipeline.  Each input's conversions only get newer on their way   *)
(* from the cache to the listeners (NewestInv, PairInv); of the            *)
(* conversions that were under way when a capture was armed no more are    *)
(* left than it still discards, and a window that is not accepted is not   *)
(* full (CaptureInv); a conversion of an old rate has an old epoch         *)
(* (RateInv).                                                              *)
(***************************************************************************)

Paired == {PowerVoltage, PowerCurrent}

\* The sampler has read input i and not published it yet.
InHand(i) == sampled.sample # NoSample /\ sampled.input = i

\* A conversion that is not dropped in the end is of the rate that is set.
RateInv ==
    /\ scan.epoch <= epoch
    /\ scan.converting /\ scan.epoch = epoch => scan.rate = scan_rate
    /\ CacheIsOfRate

\* The cache is not older than what was published.
NewestInv ==
    \A i \in InputSet :
        /\ last_published[i] <= source_generation
        /\ cache[i] # NoSample =>
               last_published[i] <= cache[i].generation /\ cache[i].generation <= source_generation

\* What waits for its partner is the newest there is, unless the sampler has the next one.
PairInv ==
    /\ sampled.sample # NoSample => sampled.sample.generation = last_published[sampled.input]
    /\ \A i \in Paired :
           /\ power[i] <= last_published[i]
           /\ InHand(i) => power[i] < last_published[i]
           /\ pending[i] # NoSample =>
                  /\ power[i] < pending[i].generation
                  /\ ~InHand(i) => pending[i].generation = last_published[i]

\* What was on its way to the capture when it was armed.
SampledOld == InHand(request.input) /\ sampled.sample.generation <= armed
CacheOld ==
    LET s == cache[request.input] IN
    s # NoSample /\ s.generation <= armed /\ s.generation # last_published[request.input]

\* Codes of one range, each newer than the one before.
Collected(codes, pga, from, to) ==
    /\ \A k \in 1..Len(codes) :
           codes[k].pga = pga /\ from < codes[k].generation /\ codes[k].generation <= to
    /\ \A j, k \in 1..Len(codes) : j < k => codes[j].generation < codes[k].generation

Steady(codes) == \A j, k \in 1..Len(codes) : codes[j].code - codes[k].code <= MaxSpread

CaptureInv ==
    LET w == request.window IN
    /\ request.ready => request.active
    /\ request.active =>
           /\ armed <= source_generation
           /\ request.last <= last_published[request.input]
           /\ InHand(request.input) => request.last < last_published[request.input]
           /\ Collected(w.codes, request.pga, armed, request.last)
           /\ request.ready => Len(w.codes) = w.requested /\ Steady(w.codes)
           /\ ~request.ready =>
                  /\ Len(w.codes) < w.requested
                  /\ SampledOld \/ CacheOld => w.discard >= 1
                  /\ SampledOld /\ CacheOld => w.discard >= 2

PipelineInv == PipelineTypeOK /\ RateInv /\ NewestInv /\ PairInv /\ CaptureInv

-----------------------------------------------------------------------------
(* Facts *)

LEMMA PipelineFacts ==
    /\ InputSet = {Scanned[k] : k \in 1..Len(Scanned)} /\ Len(Scanned) \in Nat \ {0}
    /\ Paired \subseteq InputSet /\ PowerVoltage # PowerCurrent
<1>1. Scanned \in Seq(InputSet) /\ Len(Scanned) \in Nat /\ DOMAIN Scanned = 1..Len(Scanned)
  BY PipelineAssumption DEF PipelineAssumption
<1>2. InputSet = {Scanned[k] : k \in 1..Len(Scanned)}
  BY <1>1 DEF InputSet, Range
<1>3. Len(Scanned) # 0
  BY <1>1, PipelineAssumption DEF PipelineAssumption
<1> QED BY <1>1, <1>2, <1>3, PipelineAssumption DEF PipelineAssumption, Paired

LEMMA ConversionParts ==
    ASSUME NEW s \in Conversions
    PROVE  /\ s # NoSample /\ s.generation \in 1..MaxGeneration /\ s.generation \in Nat /\ s.generation > 0
           /\ s.code \in Int /\ s.pga \in Ranges /\ s.pga # NoRange
<1>1. s.generation \in 1..MaxGeneration /\ s.code \in AdcCodes /\ s.pga \in Ranges
  BY DEF Conversions
<1>2. MaxGeneration \in Nat /\ AdcCodes \subseteq Int /\ TopRange \in Nat /\ s # NoSample
  BY PipelineAssumption DEF PipelineAssumption
<1>3. s.generation \in Nat /\ s.generation > 0
  BY <1>1, <1>2
<1>6. s.code \in Int
  BY <1>1, <1>2
<1>4. s.pga \in Nat
  BY <1>1, <1>2 DEF Ranges
<1>5. s.pga # NoRange
  BY <1>4 DEF NoRange
<1> QED BY <1>1, <1>2, <1>3, <1>5, <1>6

LEMMA PipelineTypes ==
    ASSUME PipelineTypeOK
    PROVE  /\ epoch \in Nat /\ source_generation \in Nat /\ armed \in Nat /\ scan.epoch \in Nat
           /\ \A i \in InputSet : /\ cache[i] \in Conversions \cup {NoSample}
                                  /\ last_published[i] \in Nat
           /\ \A i \in Paired : /\ pending[i] \in Conversions \cup {NoSample}
                                /\ power[i] \in Nat
           /\ sampled.input \in InputSet /\ sampled.sample \in Conversions \cup {NoSample}
           /\ sampled = [input |-> sampled.input, sample |-> sampled.sample]
BY PipelineAssumption DEF PipelineTypeOK, PipelineAssumption, Paired

LEMMA RequestTypes ==
    ASSUME NEW r \in Requests
    PROVE  /\ r.active \in BOOLEAN /\ r.ready \in BOOLEAN /\ r.input \in InputSet /\ r.last \in Nat
           /\ r.pga \in Ranges \cup {NoRange}
           /\ r.window \in Windows /\ r.window.discard \in 0..CaptureDiscards
           /\ r.window.codes \in Seq(Conversions) /\ r.window.requested \in SampleCounts \cup {1}
           /\ r = [active |-> r.active, ready |-> r.ready, input |-> r.input, window |-> r.window,
                   pga |-> r.pga, last |-> r.last]
BY PipelineAssumption DEF Requests, Windows, PipelineAssumption

LEMMA CountsAreNat ==
    ASSUME NEW n \in SampleCounts \cup {1}
    PROVE  n \in Nat /\ n > 0
<1>1. SampleCounts \subseteq Nat \ {0}
  BY PipelineAssumption DEF PipelineAssumption
<1>2. CASE n \in SampleCounts
  <2>1. n \in Nat /\ n # 0
    BY <1>1, <1>2
  <2> QED BY <2>1
<1>3. CASE n = 1
  BY <1>3
<1> QED BY <1>2, <1>3

LEMMA EmptyWindowType ==
    ASSUME NEW n \in SampleCounts \cup {1}
    PROVE  /\ EmptyWindow(n) \in Windows /\ EmptyWindow(n).codes = <<>>
           /\ EmptyWindow(n).discard = CaptureDiscards /\ EmptyWindow(n).requested = n
<1>1. <<>> \in Seq(Conversions)
  OBVIOUS
<1> QED BY <1>1, PipelineAssumption DEF PipelineAssumption, EmptyWindow, Windows

LEMMA NoRequestType == NoRequest \in Requests /\ ~NoRequest.active /\ ~NoRequest.ready /\ NoRequest.last = 0
<1>1. EmptyWindow(1) \in Windows
  BY EmptyWindowType
<1>2. PowerVoltage \in InputSet /\ 0 \in 0..MaxGeneration
  BY PipelineAssumption DEF PipelineAssumption
<1> QED BY <1>1, <1>2 DEF NoRequest, Requests

-----------------------------------------------------------------------------
(* Steps *)

LEMMA PipelineInitInv == PipelineInit => PipelineInv
<1> SUFFICES ASSUME PipelineInit PROVE PipelineInv
  OBVIOUS
<1>1. PipelineTypeOK
  <2>1. scan_rate \in ScanRates /\ epoch \in 0..MaxEpoch /\ source_generation \in 0..MaxGeneration
        /\ armed \in 0..MaxGeneration
    BY PipelineAssumption DEF PipelineInit, PipelineAssumption
  <2>2. TopRange \in Ranges /\ FirstRate \in ScanRates /\ 0 \in 0..MaxEpoch /\ 0 \in 0..MaxGeneration
        /\ PowerVoltage \in InputSet
    BY PipelineAssumption DEF PipelineAssumption, Ranges
  <2>3. 1 \in 1..Len(Scanned)
    BY PipelineFacts
  <2>4. input_range \in [InputSet -> Ranges] /\ cache \in [InputSet -> Conversions \cup {NoSample}]
        /\ last_published \in [InputSet -> 0..MaxGeneration]
    BY <2>2 DEF PipelineInit
  <2>5. pending \in [{PowerVoltage, PowerCurrent} -> Conversions \cup {NoSample}]
        /\ power \in [{PowerVoltage, PowerCurrent} -> 0..MaxGeneration]
    BY <2>2 DEF PipelineInit
  <2>6. scan \in [at : 1..Len(Scanned), converting : BOOLEAN, rate : ScanRates,
                  epoch : 0..MaxEpoch, pga : Ranges]
    BY <2>2, <2>3 DEF PipelineInit
  <2>7. sampled \in [input : InputSet, sample : Conversions \cup {NoSample}]
    BY <2>2 DEF PipelineInit
  <2>8. request \in Requests
    BY NoRequestType DEF PipelineInit
  <2> QED BY <2>1, <2>4, <2>5, <2>6, <2>7, <2>8 DEF PipelineTypeOK
<1>2. RateInv
  BY DEF PipelineInit, RateInv, CacheIsOfRate
<1>3. NewestInv
  BY DEF PipelineInit, NewestInv
<1>4. PairInv
  BY PipelineFacts DEF PipelineInit, PairInv, InHand, Paired
<1>5. CaptureInv
  BY NoRequestType DEF PipelineInit, CaptureInv
<1> QED BY <1>1, <1>2, <1>3, <1>4, <1>5 DEF PipelineInv

\* The acquisition task around a conversion that is not kept.
LEMMA ScanMoves ==
    ASSUME PipelineInv, StartConversion \/ FailConversion
    PROVE  PipelineInv'
<1>1. UNCHANGED <<provider, sampled, last_published, pending, power, capture>>
  BY DEF StartConversion, FailConversion
<1>2. NextInput \in 1..Len(Scanned)
  BY PipelineFacts DEF PipelineInv, PipelineTypeOK, NextInput
<1>3. scan' \in [at : 1..Len(Scanned), converting : BOOLEAN, rate : ScanRates,
                 epoch : 0..MaxEpoch, pga : Ranges]
  <2>1. CASE StartConversion
    <3>1. input_range[Scanned[scan.at]] \in Ranges
      BY PipelineFacts DEF PipelineInv, PipelineTypeOK
    <3>2. scan' = [at |-> scan.at, converting |-> TRUE, rate |-> scan_rate, epoch |-> epoch,
                   pga |-> input_range[Scanned[scan.at]]]
      BY <2>1 DEF StartConversion, PipelineInv, PipelineTypeOK
    <3> QED BY <3>1, <3>2 DEF PipelineInv, PipelineTypeOK
  <2>2. CASE FailConversion
    <3>1. scan' = [at |-> NextInput, converting |-> FALSE, rate |-> scan.rate, epoch |-> scan.epoch,
                   pga |-> scan.pga]
      BY <2>2 DEF FailConversion, PipelineInv, PipelineTypeOK
    <3> QED BY <1>2, <3>1 DEF PipelineInv, PipelineTypeOK
  <2> QED BY <2>1, <2>2
<1>4. PipelineTypeOK'
  BY <1>1, <1>3 DEF PipelineInv, PipelineTypeOK, provider, capture
<1>5. RateInv'
  <2>1. \/ scan'.rate = scan_rate /\ scan'.epoch = epoch
        \/ ~scan'.converting /\ scan'.epoch = scan.epoch
    BY DEF StartConversion, FailConversion, PipelineInv, PipelineTypeOK
  <2>2. scan'.epoch <= epoch /\ (scan'.converting /\ scan'.epoch = epoch => scan'.rate = scan_rate)
    BY <2>1, PipelineTypes DEF PipelineInv, RateInv
  <2> QED BY <1>1, <2>2 DEF PipelineInv, RateInv, CacheIsOfRate, provider
<1>6. NewestInv' /\ PairInv' /\ CaptureInv'
  BY <1>1 DEF PipelineInv, NewestInv, PairInv, CaptureInv, InHand, SampledOld, CacheOld, provider, capture
<1> QED BY <1>4, <1>5, <1>6 DEF PipelineInv

\* A conversion that is kept is the newest of all.
LEMMA FinishKeeps ==
    ASSUME PipelineInv, NEW code \in AdcCodes, FinishConversion(code)
    PROVE  PipelineInv'
<1> DEFINE i == Scanned[scan.at]
           s == [generation |-> source_generation + 1, code |-> code, pga |-> scan.pga, rate |-> scan.rate]
<1>1. /\ scan.converting
      /\ scan' = [scan EXCEPT !.converting = FALSE, !.at = NextInput]
      /\ UNCHANGED <<scan_rate, epoch, sampled, last_published, pending, power, request, armed>>
  BY DEF FinishConversion, capture
<1>2. i \in InputSet
  BY PipelineFacts DEF PipelineInv, PipelineTypeOK
<1>3. scan' \in [at : 1..Len(Scanned), converting : BOOLEAN, rate : ScanRates,
                 epoch : 0..MaxEpoch, pga : Ranges]
      /\ ~scan'.converting /\ scan'.epoch = scan.epoch
  <2>1. NextInput \in 1..Len(Scanned)
    BY PipelineFacts DEF PipelineInv, PipelineTypeOK, NextInput
  <2>2. scan' = [at |-> NextInput, converting |-> FALSE, rate |-> scan.rate, epoch |-> scan.epoch,
                 pga |-> scan.pga]
    BY <1>1 DEF PipelineInv, PipelineTypeOK
  <2> QED BY <2>1, <2>2 DEF PipelineInv, PipelineTypeOK
<1>4. CASE scan.epoch = epoch
  <2>1. /\ source_generation < MaxGeneration /\ source_generation' = source_generation + 1
        /\ cache' = [cache EXCEPT ![i] = s]
        /\ \E r \in Neighbours(input_range[i]) : input_range' = [input_range EXCEPT ![i] = r]
    BY <1>4, Zenon DEF FinishConversion
  <2>2. s \in Conversions
    <3>1. source_generation + 1 \in 1..MaxGeneration
      BY <2>1, PipelineAssumption, PipelineTypes DEF PipelineInv, PipelineAssumption
    <3>2. scan.pga \in Ranges /\ scan.rate \in ScanRates
      BY DEF PipelineInv, PipelineTypeOK
    <3> QED BY <3>1, <3>2 DEF Conversions
  <2>3. s.generation = source_generation + 1 /\ s.rate = scan_rate
    BY <1>1, <1>4 DEF PipelineInv, RateInv
  <2> HIDE DEF i, s
  <2>4. \A j \in InputSet : cache'[j] = IF j = i THEN s ELSE cache[j]
    BY <2>1 DEF PipelineInv, PipelineTypeOK
  <2>5. PipelineTypeOK'
    <3>1. cache' \in [InputSet -> Conversions \cup {NoSample}] /\ DOMAIN cache' = InputSet
      BY <2>1, <2>2 DEF PipelineInv, PipelineTypeOK
    <3>2. input_range' \in [InputSet -> Ranges]
      <4>1. PICK r \in Ranges : input_range' = [input_range EXCEPT ![i] = r]
        BY <2>1 DEF Neighbours
      <4> QED BY <4>1 DEF PipelineInv, PipelineTypeOK
    <3>3. source_generation' \in 0..MaxGeneration
      BY <2>1, PipelineAssumption DEF PipelineInv, PipelineTypeOK, PipelineAssumption
    <3> QED BY <1>1, <1>3, <3>1, <3>2, <3>3 DEF PipelineInv, PipelineTypeOK
  <2>6. RateInv'
    <3>1. DOMAIN cache' = InputSet /\ DOMAIN cache = InputSet
      BY <2>5 DEF PipelineInv, PipelineTypeOK
    <3>2. CacheIsOfRate'
      BY <1>1, <2>3, <2>4, <3>1 DEF PipelineInv, RateInv, CacheIsOfRate
    <3> QED BY <1>1, <1>3, <3>2 DEF PipelineInv, RateInv
  <2>7. NewestInv'
    <3> SUFFICES ASSUME NEW j \in InputSet
                 PROVE  /\ last_published[j] <= source_generation'
                        /\ cache'[j] # NoSample =>
                               last_published[j] <= cache'[j].generation
                               /\ cache'[j].generation <= source_generation'
      BY <1>1 DEF NewestInv
    <3>1. /\ last_published[j] <= source_generation
          /\ cache[j] # NoSample =>
                 last_published[j] <= cache[j].generation /\ cache[j].generation <= source_generation
      BY DEF PipelineInv, NewestInv
    <3>2. last_published[j] \in Nat /\ source_generation \in Nat
          /\ (cache[j] # NoSample => cache[j].generation \in Nat)
      BY PipelineTypes, ConversionParts DEF PipelineInv
    <3> QED BY <2>1, <2>3, <2>4, <3>1, <3>2
  <2>8. PairInv'
    BY <1>1 DEF PipelineInv, PairInv, InHand
  <2>9. CaptureInv'
    <3>1. request.active => armed <= source_generation'
      BY <2>1, PipelineTypes DEF PipelineInv, CaptureInv
    <3>2. request.input \in InputSet
      BY RequestTypes DEF PipelineInv, PipelineTypeOK
    <3>3. request.active /\ CacheOld' => CacheOld
      <4> SUFFICES ASSUME request.active, CacheOld' PROVE CacheOld
        OBVIOUS
      <4>1. cache'[request.input].generation <= armed /\ armed <= source_generation
        BY <1>1 DEF CacheOld, PipelineInv, CaptureInv
      <4>2. request.input # i
        BY <2>3, <2>4, <3>2, <4>1, PipelineTypes DEF PipelineInv
      <4> QED BY <1>1, <2>4, <3>2, <4>2 DEF CacheOld
    <3>4. InHand(request.input)' = InHand(request.input) /\ SampledOld' = SampledOld
      BY <1>1 DEF InHand, SampledOld
    <3> QED BY <1>1, <3>1, <3>3, <3>4 DEF PipelineInv, CaptureInv
  <2> QED BY <2>5, <2>6, <2>7, <2>8, <2>9 DEF PipelineInv
<1>5. CASE scan.epoch # epoch
  <2>1. UNCHANGED <<source_generation, cache, input_range>>
    BY <1>5 DEF FinishConversion
  <2>2. PipelineTypeOK'
    BY <1>1, <1>3, <2>1 DEF PipelineInv, PipelineTypeOK
  <2>3. RateInv'
    BY <1>1, <1>3, <2>1 DEF PipelineInv, RateInv, CacheIsOfRate
  <2>4. NewestInv' /\ PairInv' /\ CaptureInv'
    BY <1>1, <2>1 DEF PipelineInv, NewestInv, PairInv, CaptureInv, InHand, SampledOld, CacheOld
  <2> QED BY <2>2, <2>3, <2>4 DEF PipelineInv
<1> QED BY <1>4, <1>5

\* A new rate empties the cache, and a conversion in progress is now of an old epoch.
LEMMA RateKeeps ==
    ASSUME PipelineInv, NEW sps \in ScanRates, ApplyDataRate(sps)
    PROVE  PipelineInv'
<1>1. /\ epoch < MaxEpoch /\ scan_rate' = sps /\ epoch' = epoch + 1
      /\ cache' = [i \in InputSet |-> NoSample]
      /\ UNCHANGED <<source_generation, input_range, scan, sampled, last_published, pending, power, request, armed>>
  BY DEF ApplyDataRate, capture
<1>2. PipelineTypeOK'
  BY <1>1, PipelineAssumption DEF PipelineInv, PipelineTypeOK, PipelineAssumption
<1>3. RateInv'
  BY <1>1, PipelineTypes DEF PipelineInv, RateInv, CacheIsOfRate
<1>4. NewestInv'
  BY <1>1 DEF PipelineInv, NewestInv
<1>5. PairInv'
  BY <1>1 DEF PipelineInv, PairInv, InHand
<1>6. CaptureInv'
  <2>1. ~CacheOld'
    BY <1>1, RequestTypes DEF CacheOld, PipelineInv, PipelineTypeOK
  <2>2. InHand(request.input)' = InHand(request.input) /\ SampledOld' = SampledOld
    BY <1>1 DEF InHand, SampledOld
  <2> QED BY <1>1, <2>1, <2>2 DEF PipelineInv, CaptureInv
<1> QED BY <1>2, <1>3, <1>4, <1>5, <1>6 DEF PipelineInv

\* What the sampler reads is newer than what it published of the input before.
LEMMA ReadKeeps ==
    ASSUME PipelineInv, NEW i \in InputSet, ReadSample(i)
    PROVE  PipelineInv'
<1>1. /\ sampled.sample = NoSample /\ cache[i] # NoSample /\ cache[i].generation # last_published[i]
      /\ sampled' = [input |-> i, sample |-> cache[i]]
      /\ last_published' = [last_published EXCEPT ![i] = cache[i].generation]
      /\ UNCHANGED <<scan_rate, epoch, source_generation, input_range, cache, scan, pending, power, request, armed>>
  BY DEF ReadSample, provider, capture
<1>2. cache[i] \in Conversions /\ cache[i].generation \in 1..MaxGeneration /\ cache[i].generation \in Nat
  BY <1>1, PipelineTypes, ConversionParts DEF PipelineInv
<1>3. \A j \in InputSet : last_published'[j] = IF j = i THEN cache[i].generation ELSE last_published[j]
  BY <1>1 DEF PipelineInv, PipelineTypeOK
<1>4. last_published[i] < cache[i].generation /\ cache[i].generation <= source_generation
  BY <1>1, <1>2, PipelineTypes DEF PipelineInv, NewestInv
<1>5. PipelineTypeOK'
  <2>1. last_published' \in [InputSet -> 0..MaxGeneration]
    BY <1>1, <1>2 DEF PipelineInv, PipelineTypeOK
  <2>2. sampled' \in [input : InputSet, sample : Conversions \cup {NoSample}]
    BY <1>1, <1>2
  <2> QED BY <1>1, <2>1, <2>2 DEF PipelineInv, PipelineTypeOK
<1>6. RateInv'
  BY <1>1 DEF PipelineInv, RateInv, CacheIsOfRate
<1>7. NewestInv'
  <2> SUFFICES ASSUME NEW j \in InputSet
               PROVE  /\ last_published'[j] <= source_generation
                      /\ cache[j] # NoSample =>
                             last_published'[j] <= cache[j].generation
                             /\ cache[j].generation <= source_generation
    BY <1>1 DEF NewestInv
  <2> QED BY <1>2, <1>3, <1>4 DEF PipelineInv, NewestInv
<1>8. PairInv'
  <2>1. sampled'.sample # NoSample => sampled'.sample.generation = last_published'[sampled'.input]
    BY <1>1, <1>3
  <2>2. ASSUME NEW j \in Paired
        PROVE  /\ power[j] <= last_published'[j]
               /\ InHand(j)' => power[j] < last_published'[j]
               /\ pending[j] # NoSample =>
                      /\ power[j] < pending[j].generation
                      /\ ~InHand(j)' => pending[j].generation = last_published'[j]
    <3>1. j \in InputSet /\ power[j] \in Nat /\ last_published[j] \in Nat
      BY PipelineFacts, PipelineTypes DEF PipelineInv
    <3>2. /\ power[j] <= last_published[j] /\ ~InHand(j)
          /\ pending[j] # NoSample =>
                 /\ power[j] < pending[j].generation
                 /\ pending[j].generation = last_published[j]
      BY <1>1 DEF PipelineInv, PairInv, InHand
    <3>3. CASE j = i
      <4>1. InHand(j)' /\ last_published'[j] = cache[i].generation
        BY <1>1, <1>3, <3>1, <3>3 DEF InHand
      <4> QED BY <1>2, <1>4, <3>1, <3>2, <3>3, <4>1
    <3>4. CASE j # i
      <4>1. ~InHand(j)' /\ last_published'[j] = last_published[j]
        BY <1>1, <1>3, <3>1, <3>4 DEF InHand
      <4> QED BY <3>2, <4>1
    <3> QED BY <3>3, <3>4
  <2> QED BY <1>1, <2>1, <2>2 DEF PairInv
<1>9. CaptureInv'
  <2>1. request.input \in InputSet /\ request.last \in Nat /\ last_published[request.input] \in Nat
    BY RequestTypes, PipelineTypes DEF PipelineInv, PipelineTypeOK
  <2>2. ~InHand(request.input) /\ ~SampledOld
    BY <1>1 DEF InHand, SampledOld
  <2>3. CASE request.input = i
    <3>1. last_published'[request.input] = cache[i].generation
      BY <1>3, <2>1, <2>3
    <3>2. ~CacheOld'
      BY <1>1, <2>3, <3>1 DEF CacheOld
    <3>3. SampledOld' => CacheOld
      BY <1>1, <2>3 DEF SampledOld, CacheOld, InHand
    <3>4. request.active => request.last < last_published'[request.input]
      BY <1>2, <1>4, <2>1, <2>3, <3>1 DEF PipelineInv, CaptureInv
    <3>5. request.active => request.last <= last_published'[request.input]
      BY <1>2, <2>1, <3>1, <3>4
    <3> QED BY <1>1, <3>2, <3>3, <3>4, <3>5 DEF PipelineInv, CaptureInv
  <2>4. CASE request.input # i
    <3>1. last_published'[request.input] = last_published[request.input]
      BY <1>3, <2>1, <2>4
    <3>2. CacheOld' = CacheOld
      BY <1>1, <3>1 DEF CacheOld
    <3>3. ~InHand(request.input)' /\ ~SampledOld'
      BY <1>1, <2>4 DEF InHand, SampledOld
    <3> QED BY <1>1, <3>1, <3>2, <3>3 DEF PipelineInv, CaptureInv
  <2> QED BY <2>3, <2>4
<1> QED BY <1>5, <1>6, <1>7, <1>8, <1>9 DEF PipelineInv

-----------------------------------------------------------------------------
(* The largest and the smallest code of a window *)

\* A sequence of integers has a largest one: a first beginning of it without one cannot be.
LEMMA LargestOf ==
    ASSUME NEW n \in Nat \ {0}, NEW f \in [1..n -> Int]
    PROVE  \E m \in 1..n : \A k \in 1..n : f[k] <= f[m]
<1> DEFINE Has(l) == \E m \in 1..l : \A k \in 1..l : f[k] <= f[m]
           Without == {l \in 1..n : ~Has(l)}
<1>1. Has(1)
  OBVIOUS
<1>2. ASSUME NEW l \in 1..n, l # 1, Has(l - 1) PROVE Has(l)
  <2>1. PICK m \in 1..(l - 1) : \A k \in 1..(l - 1) : f[k] <= f[m]
    BY <1>2
  <2>2. f[m] \in Int /\ f[l] \in Int /\ l \in 1..l /\ m \in 1..l
    OBVIOUS
  <2>3. \A k \in 1..l : k \in 1..(l - 1) \/ k = l
    OBVIOUS
  <2>4. \A k \in 1..l : f[k] \in Int
    OBVIOUS
  <2>5. CASE f[l] <= f[m]
    <3>1. \A k \in 1..l : f[k] <= f[m]
      BY <2>1, <2>3, <2>5
    <3> QED BY <2>2, <3>1
  <2>6. CASE f[m] < f[l]
    <3>1. \A k \in 1..l : f[k] <= f[l]
      BY <2>1, <2>2, <2>3, <2>4, <2>6
    <3> QED BY <2>2, <3>1
  <2> QED BY <2>2, <2>5, <2>6
<1> HIDE DEF Has
<1>3. Without = {}
  <2> SUFFICES ASSUME Without # {} PROVE FALSE
    OBVIOUS
  <2>1. Without \in SUBSET Nat
    OBVIOUS
  <2>2. PICK l \in Without : \A k \in Without : <<k, l>> \notin OpToRel(<, Nat)
    BY <2>1, NatLessThanWellFounded, WFMin
  <2>3. l \in 1..n /\ ~Has(l) /\ l # 1
    BY <1>1
  <2>4. l - 1 \in 1..n /\ ~Has(l - 1)
    BY <1>2, <2>3
  <2>5. l - 1 \in Without /\ <<l - 1, l>> \in OpToRel(<, Nat)
    BY <2>3, <2>4 DEF OpToRel
  <2> QED BY <2>2, <2>5
<1>4. Has(n)
  BY <1>3
<1> QED BY <1>4 DEF Has

\* A window that the code calls stable has no two codes too far apart.
LEMMA StableIsSteady ==
    ASSUME NEW w \in Windows, Len(w.codes) > 0, Stable(w)
    PROVE  Steady(w.codes)
<1> DEFINE n == Len(w.codes)
           f == [k \in 1..n |-> w.codes[k].code]
           g == [k \in 1..n |-> -w.codes[k].code]
           S == CodesOf(w)
<1>1. n \in Nat \ {0} /\ \A k \in 1..n : w.codes[k] \in Conversions
  BY DEF Windows
<1>2. \A k \in 1..n : w.codes[k].code \in Int
  BY <1>1, ConversionParts
<1>3. S = {w.codes[k].code : k \in 1..n}
  BY DEF CodesOf, Windows
<1> HIDE DEF n
<1>4. f \in [1..n -> Int] /\ g \in [1..n -> Int]
  BY <1>2
<1>5. PICK a \in 1..n : \A k \in 1..n : f[k] <= f[a]
  <2> HIDE DEF f
  <2> QED BY <1>1, <1>4, LargestOf
<1>6. PICK b \in 1..n : \A k \in 1..n : g[k] <= g[b]
  <2> HIDE DEF g
  <2> QED BY <1>1, <1>4, LargestOf
<1>7. \A k \in 1..n : w.codes[k].code <= w.codes[a].code /\ w.codes[b].code <= w.codes[k].code
  <2> SUFFICES ASSUME NEW k \in 1..n
               PROVE  w.codes[k].code <= w.codes[a].code /\ w.codes[b].code <= w.codes[k].code
    OBVIOUS
  <2>1. f[k] <= f[a] /\ g[k] <= g[b]
    BY <1>5, <1>6
  <2> QED BY <1>2, <2>1
<1> HIDE DEF S
<1>8. \E x \in S : \A y \in S : x >= y
  <2>1. w.codes[a].code \in S /\ \A y \in S : w.codes[a].code >= y
    BY <1>2, <1>3, <1>7
  <2> QED BY <2>1
<1>9. \E x \in S : \A y \in S : x =< y
  <2>1. w.codes[b].code \in S /\ \A y \in S : w.codes[b].code =< y
    BY <1>3, <1>7
  <2> QED BY <2>1
<1>10. Max(S) \in S /\ \A y \in S : Max(S) >= y
  BY <1>8 DEF Max
<1>11. Min(S) \in S /\ \A y \in S : Min(S) =< y
  BY <1>9 DEF Min
<1>12. Max(S) - Min(S) <= MaxSpread
  BY DEF Stable, S
<1>13. S \subseteq Int
  BY <1>2, <1>3
<1>14. ASSUME NEW j \in 1..n, NEW k \in 1..n
       PROVE  w.codes[j].code - w.codes[k].code <= MaxSpread
  <2>1. w.codes[j].code \in S /\ w.codes[k].code \in S
    BY <1>3
  <2>2. w.codes[j].code \in Int /\ w.codes[k].code \in Int /\ Max(S) \in Int /\ Min(S) \in Int
    BY <1>2, <1>10, <1>11, <1>13
  <2>3. Max(S) >= w.codes[j].code /\ Min(S) =< w.codes[k].code
    BY <1>10, <1>11, <2>1
  <2> DEFINE hi == Max(S)
             lo == Min(S)
             x == w.codes[j].code
             y == w.codes[k].code
  <2>4. hi \in Int /\ lo \in Int /\ x \in Int /\ y \in Int /\ hi >= x /\ lo =< y /\ hi - lo <= MaxSpread
        /\ MaxSpread \in Int
    BY <1>12, <2>2, <2>3, PipelineAssumption DEF PipelineAssumption
  <2> HIDE DEF hi, lo, x, y
  <2>5. x - y <= MaxSpread
    BY <2>4
  <2> QED BY <2>5 DEF x, y
<1> QED BY <1>14 DEF Steady, n

-----------------------------------------------------------------------------
(* Publication *)

\* A pair is made of the newest conversions of both inputs.
LEMMA PairKeeps ==
    ASSUME PipelineInv, PublishSample
    PROVE  /\ pending' \in [Paired -> Conversions \cup {NoSample}]
           /\ power' \in [Paired -> 0..MaxGeneration]
           /\ PairInv'
           /\ power' # power => \A i \in Paired : power'[i] > power[i] /\ power'[i] = last_published[i]
<1> DEFINE i == sampled.input
           s == sampled.sample
           p == Partner(i)
<1>1. /\ s # NoSample /\ Pair(i, s) /\ last_published' = last_published
      /\ sampled' = [sampled EXCEPT !.sample = NoSample]
  BY DEF PublishSample
<1>2. ~sampled'.sample # NoSample /\ \A j : ~InHand(j)'
  BY <1>1, PipelineTypes DEF InHand, PipelineInv
<1>3. s \in Conversions /\ s.generation \in 1..MaxGeneration /\ s.generation = last_published[i]
  BY <1>1, PipelineTypes, ConversionParts DEF PipelineInv, PairInv
<1>4. /\ pending \in [Paired -> Conversions \cup {NoSample}] /\ power \in [Paired -> 0..MaxGeneration]
  BY DEF PipelineInv, PipelineTypeOK, Paired
<1>5. \A j \in Paired :
          /\ power[j] <= last_published[j] /\ (i = j => power[j] < last_published[j])
          /\ pending[j] # NoSample =>
                 power[j] < pending[j].generation /\ (i # j => pending[j].generation = last_published[j])
  BY <1>1 DEF PipelineInv, PairInv, InHand
<1> HIDE DEF s
<1>6. CASE i \notin Paired
  <2>1. pending' = pending /\ power' = power
    BY <1>1, <1>6 DEF Pair, Paired
  <2>2. PairInv'
    <3> SUFFICES ASSUME NEW j \in Paired
                 PROVE  /\ power[j] <= last_published[j]
                        /\ pending[j] # NoSample =>
                               power[j] < pending[j].generation /\ pending[j].generation = last_published[j]
      BY <1>1, <1>2, <2>1 DEF PairInv
    <3> QED BY <1>5, <1>6
  <2> QED BY <1>4, <2>1, <2>2
<1>7. CASE i \in Paired
  <2>1. p \in Paired /\ p # i /\ \A j \in Paired : j = i \/ j = p
    BY <1>7, PipelineFacts DEF Partner, Paired
  <2>2. CASE pending[p] = NoSample
    <3>1. pending' = [pending EXCEPT ![i] = s] /\ power' = power
      BY <1>1, <1>7, <2>2 DEF Pair, Paired
    <3>2. PairInv'
      <4> SUFFICES ASSUME NEW j \in Paired
                   PROVE  /\ power[j] <= last_published[j]
                          /\ pending'[j] # NoSample =>
                                 power[j] < pending'[j].generation /\ pending'[j].generation = last_published[j]
        BY <1>1, <1>2, <3>1 DEF PairInv
      <4>1. pending'[j] = IF j = i THEN s ELSE pending[j]
        BY <1>4, <3>1
      <4> QED BY <1>3, <1>5, <4>1
    <3> QED BY <1>3, <1>4, <3>1, <3>2
  <2>3. CASE pending[p] # NoSample
    <3>1. /\ pending' = [j \in {PowerVoltage, PowerCurrent} |-> NoSample]
          /\ power' = [power EXCEPT ![i] = s.generation, ![p] = pending[p].generation]
      BY <1>1, <1>7, <2>3 DEF Pair, Paired
    <3>2. pending[p] \in Conversions /\ pending[p].generation \in 1..MaxGeneration
      BY <1>4, <2>1, <2>3, ConversionParts
    <3>3. power'[i] = s.generation /\ power'[p] = pending[p].generation
      BY <1>4, <1>7, <2>1, <3>1
    <3>4. power' \in [Paired -> 0..MaxGeneration]
      <4>1. s.generation \in 0..MaxGeneration /\ pending[p].generation \in 0..MaxGeneration
        BY <1>3, <3>2
      <4>2. [power EXCEPT ![i] = s.generation] \in [Paired -> 0..MaxGeneration]
        BY <1>4, <4>1
      <4> QED BY <1>4, <3>1, <4>1, <4>2
    <3>5. power'[i] = last_published[i] /\ power'[p] = last_published[p]
          /\ power'[i] > power[i] /\ power'[p] > power[p]
      <4>1. power[i] \in Nat /\ power[p] \in Nat /\ last_published[i] \in Nat /\ last_published[p] \in Nat
        BY <1>7, <2>1, PipelineTypes, PipelineFacts DEF PipelineInv
      <4>2. power[i] < last_published[i] /\ power[p] < pending[p].generation
            /\ pending[p].generation = last_published[p]
        BY <1>5, <1>7, <2>1, <2>3
      <4> QED BY <1>3, <3>3, <4>1, <4>2
    <3>6. \A j \in Paired : power'[j] = last_published[j] /\ power'[j] > power[j]
      BY <2>1, <3>5
    <3>7. \A j \in Paired : last_published[j] \in Nat /\ pending'[j] = NoSample
      BY <3>1, PipelineTypes, PipelineFacts DEF PipelineInv, Paired
    <3>8. PairInv'
      BY <1>1, <1>2, <3>6, <3>7 DEF PairInv
    <3> QED BY <3>1, <3>4, <3>6, <3>8 DEF Paired
  <2> QED BY <2>2, <2>3
<1> QED BY <1>6, <1>7

LEMMA AddedIs ==
    ASSUME NEW w \in Windows, NEW s \in Conversions, Len(w.codes) < w.requested
    PROVE  LET v == AddToWindow(w, s) IN
           /\ v \in Windows /\ v.requested = w.requested
           /\ w.discard > 0 => v.discard = w.discard - 1 /\ v.codes = w.codes
           /\ w.discard = 0 => v.discard = 0 /\ v.codes = Append(w.codes, s)
<1>1. /\ w.discard \in 0..CaptureDiscards /\ w.codes \in Seq(Conversions)
      /\ w.requested \in SampleCounts \cup {1} /\ CaptureDiscards \in Nat
      /\ w = [discard |-> w.discard, codes |-> w.codes, requested |-> w.requested]
  BY PipelineAssumption DEF Windows, PipelineAssumption
<1>2. CASE w.discard > 0
  <2>1. AddToWindow(w, s) = [discard |-> w.discard - 1, codes |-> w.codes, requested |-> w.requested]
    BY <1>1, <1>2 DEF AddToWindow
  <2> QED BY <1>1, <1>2, <2>1 DEF Windows
<1>3. CASE w.discard = 0
  <2>1. AddToWindow(w, s) = [discard |-> w.discard, codes |-> Append(w.codes, s), requested |-> w.requested]
    BY <1>1, <1>3 DEF AddToWindow
  <2>2. Append(w.codes, s) \in Seq(Conversions)
    BY <1>1
  <2> QED BY <1>1, <1>3, <2>1, <2>2 DEF Windows
<1> QED BY <1>1, <1>2, <1>3

LEMMA CollectedGrows ==
    ASSUME NEW codes \in Seq(Conversions), NEW s \in Conversions, NEW from \in Nat, NEW to \in Nat,
           Collected(codes, s.pga, from, to), to < s.generation
    PROVE  /\ Collected(codes, s.pga, from, s.generation)
           /\ from < s.generation => Collected(Append(codes, s), s.pga, from, s.generation)
<1>1. /\ s.generation \in Nat /\ Len(codes) \in Nat
      /\ \A k \in 1..Len(codes) : codes[k] \in Conversions
  BY ConversionParts
<1>2. \A k \in 1..Len(codes) : codes[k].generation \in Nat
  BY <1>1, ConversionParts
<1>3. \A k \in 1..Len(codes) :
          codes[k].pga = s.pga /\ from < codes[k].generation /\ codes[k].generation < s.generation
  BY <1>1, <1>2 DEF Collected
<1>4. \A k \in 1..Len(codes) : codes[k].generation <= s.generation
  BY <1>1, <1>2, <1>3
<1>5. Collected(codes, s.pga, from, s.generation)
  BY <1>3, <1>4 DEF Collected
<1>6. ASSUME from < s.generation PROVE Collected(Append(codes, s), s.pga, from, s.generation)
  <2> DEFINE more == Append(codes, s)
             n == Len(codes)
  <2>1. Len(more) = n + 1 /\ more[n + 1] = s /\ \A k \in 1..n : more[k] = codes[k]
    OBVIOUS
  <2>2. n \in Nat /\ \A k \in 1..(n + 1) : k \in 1..n \/ k = n + 1
    OBVIOUS
  <2>3. \A j, k \in 1..n : j < k => codes[j].generation < codes[k].generation
    BY DEF Collected
  <2> HIDE DEF more, n
  <2>4. \A k \in 1..n : codes[k].pga = s.pga /\ from < codes[k].generation /\ codes[k].generation <= s.generation
                        /\ codes[k].generation < s.generation
    BY <1>3, <1>4 DEF n
  <2>5. \A k \in 1..(n + 1) :
            more[k].pga = s.pga /\ from < more[k].generation /\ more[k].generation <= s.generation
    <3> SUFFICES ASSUME NEW k \in 1..(n + 1)
                 PROVE  more[k].pga = s.pga /\ from < more[k].generation /\ more[k].generation <= s.generation
      OBVIOUS
    <3>1. CASE k \in 1..n
      BY <2>1, <2>4, <3>1
    <3>2. CASE k = n + 1
      BY <1>1, <1>6, <2>1, <3>2
    <3> QED BY <2>2, <3>1, <3>2
  <2>6. \A j, k \in 1..(n + 1) : j < k => more[j].generation < more[k].generation
    <3> SUFFICES ASSUME NEW j \in 1..(n + 1), NEW k \in 1..(n + 1), j < k
                 PROVE  more[j].generation < more[k].generation
      OBVIOUS
    <3>1. j \in 1..n
      BY <2>2
    <3>2. CASE k \in 1..n
      BY <2>1, <2>3, <3>1, <3>2
    <3>3. CASE k = n + 1
      BY <2>1, <2>4, <3>1, <3>3
    <3> QED BY <2>2, <3>2, <3>3
  <2>7. Collected(more, s.pga, from, s.generation)
    BY <2>1, <2>5, <2>6 DEF Collected
  <2> QED BY <2>7 DEF more
<1> QED BY <1>5, <1>6

\* A capture that gets a conversion it was not armed for discards it.
LEMMA CollectKeeps ==
    ASSUME PipelineInv, PublishSample
    PROVE  request' \in Requests /\ CaptureInv'
<1> DEFINE s == sampled.sample
           i == request.input
           kept == IF request.pga \notin {NoRange, s.pga} THEN EmptyWindow(request.window.requested)
                   ELSE request.window
           v == AddToWindow(kept, s)
           full == Complete(v)
           good == Complete(v) /\ Stable(v)
           left == IF Complete(v) /\ ~Stable(v) THEN EmptyWindow(v.requested) ELSE v
<1>1. /\ s # NoSample /\ Collect(sampled.input, s)
      /\ sampled' = [sampled EXCEPT !.sample = NoSample]
      /\ UNCHANGED <<cache, source_generation, last_published, armed>>
  BY DEF PublishSample, provider
<1>2. sampled'.sample = NoSample /\ ~SampledOld'
  BY <1>1, PipelineTypes DEF InHand, SampledOld, PipelineInv
<1>3. request \in Requests /\ s \in Conversions /\ s.generation = last_published[sampled.input]
      /\ armed \in Nat /\ source_generation \in Nat /\ i \in InputSet /\ request.last \in Nat
  BY <1>1, PipelineTypes, RequestTypes DEF PipelineInv, PairInv, PipelineTypeOK
<1>4. /\ s.generation \in 1..MaxGeneration /\ s.generation \in Nat /\ s.pga \in Ranges /\ s.pga # NoRange
  BY <1>3, ConversionParts
<1>5. CASE ~Collects(sampled.input) \/ s.generation = request.last
  <2>1. request' = request
    BY <1>1, <1>5 DEF Collect
  <2>2. (request.active /\ ~request.ready) => ~InHand(i)
    <3> SUFFICES ASSUME request.active, ~request.ready, InHand(i) PROVE FALSE
      OBVIOUS
    <3>1. sampled.input = i /\ request.last < last_published[i]
      BY DEF InHand, PipelineInv, CaptureInv
    <3>2. s.generation = request.last
      BY <1>5, <3>1 DEF Collects
    <3> QED BY <1>3, <1>4, <3>1, <3>2
  <2>3. (CacheOld' <=> CacheOld) /\ ~InHand(request.input)' /\ ~SampledOld'
    BY <1>1, <1>2, <2>1 DEF CacheOld, InHand
  <2>4. CaptureInv'
    BY <1>1, <2>1, <2>3 DEF PipelineInv, CaptureInv
  <2> QED BY <1>3, <2>1, <2>4
<1>6. CASE Collects(sampled.input) /\ s.generation # request.last
  <2>1. request.active /\ ~request.ready /\ sampled.input = i /\ InHand(i)
    BY <1>1, <1>6 DEF Collects, InHand
  <2>2. request' = [request EXCEPT !.last = s.generation, !.pga = s.pga, !.ready = good, !.window = left]
    BY <1>1, <1>6 DEF Collect
  <2>3. /\ armed <= source_generation /\ request.last < s.generation
        /\ Collected(request.window.codes, request.pga, armed, request.last)
        /\ Len(request.window.codes) < request.window.requested
        /\ SampledOld \/ CacheOld => request.window.discard >= 1
        /\ SampledOld /\ CacheOld => request.window.discard >= 2
    BY <1>3, <2>1 DEF PipelineInv, CaptureInv
  <2>4. /\ request.window \in Windows /\ request.window.codes \in Seq(Conversions)
        /\ request.window.requested \in SampleCounts \cup {1}
        /\ request.window.discard \in Nat
    BY <1>3, RequestTypes, PipelineAssumption DEF PipelineAssumption
  <2>5. /\ kept \in Windows /\ Len(kept.codes) < kept.requested
        /\ Collected(kept.codes, s.pga, armed, request.last)
        /\ SampledOld \/ CacheOld => kept.discard >= 1
        /\ SampledOld /\ CacheOld => kept.discard >= 2
    <3>1. CASE request.pga \notin {NoRange, s.pga}
      <4>1. kept = EmptyWindow(request.window.requested)
        BY <3>1
      <4>2. kept \in Windows /\ kept.codes = <<>> /\ kept.discard = CaptureDiscards
            /\ kept.requested = request.window.requested
        BY <2>4, <4>1, EmptyWindowType
      <4>3. kept.requested \in Nat /\ kept.requested > 0 /\ CaptureDiscards >= 2 /\ CaptureDiscards \in Nat
        <5>1. kept.requested \in SampleCounts \cup {1}
          BY <2>4, <4>2
        <5>2. kept.requested \in Nat /\ kept.requested > 0
          BY <5>1, CountsAreNat
        <5> QED BY <4>2, <5>2, PipelineAssumption DEF PipelineAssumption
      <4> HIDE DEF kept
      <4>4. Collected(kept.codes, s.pga, armed, request.last) /\ Len(kept.codes) = 0
        BY <4>2 DEF Collected
      <4> QED BY <4>2, <4>3, <4>4
    <3>2. CASE request.pga \in {NoRange, s.pga}
      <4>1. kept = request.window
        BY <3>2
      <4>2. CASE request.pga = s.pga
        BY <2>3, <2>4, <4>1, <4>2
      <4>3. CASE request.pga = NoRange
        <5>1. \A k \in 1..Len(request.window.codes) : request.window.codes[k] \in Conversions
                  /\ request.window.codes[k].pga = NoRange
          BY <2>3, <2>4, <4>3 DEF Collected
        <5>2. 1..Len(request.window.codes) = {}
          BY <5>1, ConversionParts
        <5>3. Collected(request.window.codes, s.pga, armed, request.last)
          BY <5>2 DEF Collected
        <5> QED BY <2>3, <2>4, <4>1, <5>3
      <4> QED BY <3>2, <4>2, <4>3
    <3> QED BY <3>1, <3>2
  <2> HIDE DEF kept
  <2>6. /\ kept.discard \in 0..CaptureDiscards /\ kept.discard \in Nat /\ kept.codes \in Seq(Conversions)
        /\ kept.requested \in SampleCounts \cup {1} /\ kept.requested \in Nat /\ Len(kept.codes) \in Nat
    <3>1. kept \in Windows
      BY <2>5
    <3>2. /\ kept.discard \in 0..CaptureDiscards /\ kept.codes \in Seq(Conversions)
          /\ kept.requested \in SampleCounts \cup {1}
      BY <3>1 DEF Windows
    <3>3. CaptureDiscards \in Nat
      BY PipelineAssumption DEF PipelineAssumption
    <3>4. Len(kept.codes) \in Nat
      BY <3>2
    <3>5. kept.requested \in Nat
      BY <3>2, CountsAreNat
    <3>6. kept.discard \in Nat
      BY <3>2, <3>3
    <3> QED BY <3>2, <3>4, <3>5, <3>6
  <2>7. /\ v \in Windows /\ v.requested = kept.requested
        /\ kept.discard > 0 => v.discard = kept.discard - 1 /\ v.codes = kept.codes
        /\ kept.discard = 0 => v.discard = 0 /\ v.codes = Append(kept.codes, s)
    BY <1>3, <2>5, AddedIs
  <2> HIDE DEF v
  <2>8. CacheOld' => SampledOld /\ CacheOld
    <3> SUFFICES ASSUME CacheOld' PROVE SampledOld /\ CacheOld
      OBVIOUS
    <3> DEFINE c == cache[i]
    <3>1. i = request'.input
      BY <1>3, <2>2, RequestTypes
    <3>2. c # NoSample /\ c.generation <= armed /\ c.generation # last_published[i]
      BY <1>1, <3>1 DEF CacheOld
    <3>3. last_published[i] <= c.generation
      BY <1>3, <3>2 DEF PipelineInv, NewestInv
    <3>4. c.generation \in Nat
      BY <1>3, <3>2, PipelineTypes, ConversionParts DEF PipelineInv
    <3>5. s.generation <= armed
      BY <1>3, <1>4, <2>1, <3>2, <3>3, <3>4
    <3> QED BY <2>1, <3>2, <3>5 DEF SampledOld, CacheOld
  <2>9. Collected(v.codes, s.pga, armed, s.generation) /\ Len(v.codes) <= v.requested
        /\ Len(v.codes) \in Nat /\ v.requested \in Nat /\ v.discard \in Nat
    <3>1. CASE kept.discard > 0
      BY <1>3, <2>3, <2>5, <2>6, <2>7, <3>1, CollectedGrows
    <3>2. CASE kept.discard = 0
      <4>1. ~SampledOld
        BY <2>5, <2>6, <3>2
      <4>2. armed < s.generation
        BY <1>3, <1>4, <2>1, <4>1 DEF SampledOld
      <4>3. Collected(Append(kept.codes, s), s.pga, armed, s.generation)
        BY <1>3, <2>3, <2>5, <2>6, <4>2, CollectedGrows
      <4>4. Len(Append(kept.codes, s)) = Len(kept.codes) + 1
        BY <1>3, <2>6
      <4>5. Len(v.codes) = Len(kept.codes) + 1 /\ Collected(v.codes, s.pga, armed, s.generation)
            /\ v.discard = 0 /\ v.requested = kept.requested
        BY <2>7, <3>2, <4>3, <4>4
      <4>6. Len(kept.codes) < kept.requested
        BY <2>5
      <4> QED BY <2>6, <4>5, <4>6
    <3> QED BY <2>6, <3>1, <3>2
  <2>10. CacheOld' => v.discard >= 1
    BY <2>5, <2>6, <2>7, <2>8
  <2>11. v.requested \in SampleCounts \cup {1} /\ v.requested > 0
    BY <2>6, <2>7, PipelineAssumption DEF PipelineAssumption
  <2>12. good \in BOOLEAN
    BY DEF Complete, Stable
  <2>13. good => Len(v.codes) = v.requested /\ Steady(v.codes)
    BY <2>7, <2>9, <2>11, StableIsSteady DEF Complete
  <2>14. /\ left \in Windows /\ Collected(left.codes, s.pga, armed, s.generation)
         /\ good => left = v
         /\ ~good => Len(left.codes) < left.requested
         /\ CacheOld' => left.discard >= 1
    <3>1. CASE Complete(v) /\ ~Stable(v)
      <4>1. left = EmptyWindow(v.requested)
        BY <3>1
      <4>2. left \in Windows /\ left.codes = <<>> /\ left.discard = CaptureDiscards
            /\ left.requested = v.requested
        BY <2>11, <4>1, EmptyWindowType
      <4>3. ~good
        BY <3>1
      <4> HIDE DEF left, good
      <4>4. Collected(left.codes, s.pga, armed, s.generation) /\ Len(left.codes) = 0
        BY <4>2 DEF Collected
      <4>5. CaptureDiscards >= 1
        BY PipelineAssumption DEF PipelineAssumption
      <4> QED BY <2>11, <4>2, <4>3, <4>4, <4>5
    <3>2. CASE ~(Complete(v) /\ ~Stable(v))
      <4>1. left = v
        BY <3>2
      <4>2. ~good => ~Complete(v)
        BY <3>2
      <4>3. ~good => Len(v.codes) < v.requested
        BY <2>9, <4>2 DEF Complete
      <4> HIDE DEF left, good
      <4> QED BY <2>7, <2>9, <2>10, <4>1, <4>3
    <3> QED BY <3>1, <3>2
  <2> HIDE DEF left, good
  <2>15. request' = [active |-> TRUE, ready |-> good, input |-> i, window |-> left, pga |-> s.pga,
                     last |-> s.generation]
    <3>1. request.active = TRUE
      BY <1>3, <2>1, RequestTypes
    <3>2. request = [active |-> request.active, ready |-> request.ready, input |-> i,
                     window |-> request.window, pga |-> request.pga, last |-> request.last]
      BY <1>3, RequestTypes
    <3> QED BY <2>2, <3>1, <3>2
  <2>16. request' \in Requests
    BY <1>3, <1>4, <2>12, <2>14, <2>15 DEF Requests
  <2>17. CaptureInv'
    <3>1. /\ request'.ready = good /\ request'.active /\ request'.input = i /\ request'.window = left
          /\ request'.pga = s.pga /\ request'.last = s.generation
      BY <2>15
    <3>2. /\ armed' <= source_generation' /\ s.generation = last_published'[i]
          /\ s.generation <= s.generation
      BY <1>1, <1>3, <1>4, <2>1, <2>3
    <3>3. Collected(left.codes, s.pga, armed', s.generation)
      BY <1>1, <2>14
    <3>4. good => Len(left.codes) = left.requested /\ Steady(left.codes)
      BY <2>13, <2>14
    <3>5. ~good => Len(left.codes) < left.requested
      BY <2>14
    <3>6. ~InHand(request.input)' /\ ~SampledOld' /\ (CacheOld' => left.discard >= 1)
      BY <1>2, <2>14 DEF InHand
    <3> QED BY <3>1, <3>2, <3>3, <3>4, <3>5, <3>6 DEF CaptureInv
  <2> QED BY <2>16, <2>17
<1>7. (~Collects(sampled.input) \/ s.generation = request.last)
      \/ (Collects(sampled.input) /\ s.generation # request.last)
  BY DEF Collects
<1> QED BY <1>5, <1>6, <1>7

LEMMA ArmKeeps ==
    ASSUME PipelineInv, NEW i \in InputSet, NEW n \in SampleCounts, ArmCapture(i, n)
    PROVE  PipelineInv'
<1>1. /\ request' = [NoRequest EXCEPT !.active = TRUE, !.input = i, !.window = EmptyWindow(n)]
      /\ armed' = source_generation
      /\ UNCHANGED <<scan_rate, epoch, source_generation, input_range, cache, scan, sampled,
                     last_published, pending, power>>
  BY DEF ArmCapture, provider
<1>2. /\ EmptyWindow(n) \in Windows /\ EmptyWindow(n).codes = <<>>
      /\ EmptyWindow(n).discard = CaptureDiscards /\ EmptyWindow(n).requested = n
  BY EmptyWindowType
<1>3. n \in Nat /\ n > 0 /\ CaptureDiscards \in Nat /\ CaptureDiscards >= 2
  BY CountsAreNat, PipelineAssumption DEF PipelineAssumption
<1>4. request' = [active |-> TRUE, ready |-> FALSE, input |-> i, window |-> EmptyWindow(n),
                  pga |-> NoRange, last |-> 0]
  BY <1>1 DEF NoRequest
<1>5. source_generation \in 0..MaxGeneration /\ source_generation \in Nat /\ 0 \in 0..MaxGeneration
  BY PipelineAssumption, PipelineTypes DEF PipelineInv, PipelineTypeOK, PipelineAssumption
<1>6. request' \in Requests
  BY <1>2, <1>4, <1>5 DEF Requests
<1>7. PipelineTypeOK'
  BY <1>1, <1>5, <1>6 DEF PipelineInv, PipelineTypeOK
<1>8. RateInv' /\ NewestInv' /\ PairInv'
  BY <1>1 DEF PipelineInv, RateInv, CacheIsOfRate, NewestInv, PairInv, InHand
<1>9. CaptureInv'
  <2>1. /\ request'.active /\ ~request'.ready /\ request'.input = i /\ request'.pga = NoRange
        /\ request'.last = 0 /\ request'.window = EmptyWindow(n)
    BY <1>4
  <2>2. last_published[i] \in Nat /\ (InHand(i) => last_published[i] \in Nat \ {0})
    <3>1. InHand(i) => sampled.sample \in Conversions /\ sampled.sample.generation = last_published[i]
      BY PipelineTypes DEF InHand, PipelineInv, PairInv
    <3>2. InHand(i) => last_published[i] \in Nat /\ last_published[i] > 0
      BY <3>1, ConversionParts
    <3> QED BY <3>2, PipelineTypes DEF PipelineInv
  <2>4. Collected(<<>>, NoRange, armed', 0) /\ Len(<<>>) = 0
    BY DEF Collected
  <2>5. InHand(request.input)' => last_published[i] > 0
    BY <1>1, <2>1, <2>2 DEF InHand
  <2> QED BY <1>1, <1>2, <1>3, <1>5, <2>1, <2>2, <2>4, <2>5 DEF CaptureInv
<1> QED BY <1>7, <1>8, <1>9 DEF PipelineInv

LEMMA EndKeeps ==
    ASSUME PipelineInv, EndCapture
    PROVE  PipelineInv'
<1>1. /\ request' = NoRequest
      /\ UNCHANGED <<scan_rate, epoch, source_generation, input_range, cache, scan, sampled,
                     last_published, pending, power, armed>>
  BY DEF EndCapture, provider
<1>2. PipelineTypeOK'
  BY <1>1, NoRequestType DEF PipelineInv, PipelineTypeOK
<1>3. RateInv' /\ NewestInv' /\ PairInv'
  BY <1>1 DEF PipelineInv, RateInv, CacheIsOfRate, NewestInv, PairInv, InHand
<1>4. CaptureInv'
  BY <1>1, NoRequestType DEF CaptureInv
<1> QED BY <1>2, <1>3, <1>4 DEF PipelineInv

LEMMA PublishKeeps ==
    ASSUME PipelineInv, PublishSample
    PROVE  PipelineInv'
<1>1. /\ sampled' = [sampled EXCEPT !.sample = NoSample]
      /\ UNCHANGED <<scan_rate, epoch, source_generation, input_range, cache, scan, last_published, armed>>
  BY DEF PublishSample, provider
<1>2. sampled' = [input |-> sampled.input, sample |-> NoSample]
  BY <1>1, PipelineTypes DEF PipelineInv
<1>3. pending' \in [{PowerVoltage, PowerCurrent} -> Conversions \cup {NoSample}]
      /\ power' \in [{PowerVoltage, PowerCurrent} -> 0..MaxGeneration] /\ request' \in Requests
  BY PairKeeps, CollectKeeps DEF Paired
<1>4. sampled' \in [input : InputSet, sample : Conversions \cup {NoSample}]
  BY <1>2, PipelineTypes DEF PipelineInv
<1>5. PipelineTypeOK'
  BY <1>1, <1>3, <1>4 DEF PipelineInv, PipelineTypeOK
<1>6. RateInv' /\ NewestInv'
  BY <1>1 DEF PipelineInv, RateInv, CacheIsOfRate, NewestInv
<1> QED BY <1>5, <1>6, PairKeeps, CollectKeeps DEF PipelineInv

LEMMA PipelineNextInv == PipelineInv /\ [PipelineNext]_pipelineVars => PipelineInv'
<1> SUFFICES ASSUME PipelineInv, [PipelineNext]_pipelineVars PROVE PipelineInv'
  OBVIOUS
<1>1. CASE UNCHANGED pipelineVars
  BY <1>1 DEF pipelineVars, provider, capture, PipelineInv, PipelineTypeOK, RateInv, CacheIsOfRate,
              NewestInv, PairInv, CaptureInv, InHand, SampledOld, CacheOld
<1>2. CASE StartConversion \/ FailConversion
  BY <1>2, ScanMoves
<1>3. ASSUME NEW code \in AdcCodes, FinishConversion(code) PROVE PipelineInv'
  BY <1>3, FinishKeeps
<1>4. ASSUME NEW sps \in ScanRates, ApplyDataRate(sps) PROVE PipelineInv'
  BY <1>4, RateKeeps
<1>5. ASSUME NEW i \in InputSet, ReadSample(i) PROVE PipelineInv'
  BY <1>5, ReadKeeps
<1>6. CASE PublishSample
  BY <1>6, PublishKeeps
<1>7. ASSUME NEW i \in InputSet, NEW n \in SampleCounts, ArmCapture(i, n) PROVE PipelineInv'
  BY <1>7, ArmKeeps
<1>8. CASE EndCapture
  BY <1>8, EndKeeps
<1> QED BY <1>1, <1>2, <1>3, <1>4, <1>5, <1>6, <1>7, <1>8 DEF PipelineNext

-----------------------------------------------------------------------------
(* Theorems *)

\* As many different conversions as there are codes.
LEMMA CollectedCount ==
    ASSUME NEW codes \in Seq(Conversions), NEW pga, NEW from, NEW to, Collected(codes, pga, from, to)
    PROVE  /\ Cardinality(Range(codes)) = Len(codes)
           /\ Range(codes) = {codes[k] : k \in 1..Len(codes)}
           /\ \A s, t \in Range(codes) : s.generation = t.generation => s = t
<1> DEFINE n == Len(codes)
<1>1. n \in Nat /\ codes \in [1..n -> Range(codes)] /\ Range(codes) = {codes[k] : k \in 1..n}
  BY DEF Range
<1>2. \A k \in 1..n : codes[k].generation \in Nat
  BY ConversionParts
<1>3. ASSUME NEW j \in 1..n, NEW k \in 1..n, codes[j].generation = codes[k].generation
      PROVE  j = k
  <2>1. \A a, b \in 1..n : a < b => codes[a].generation < codes[b].generation
    BY DEF Collected
  <2>2. CASE j < k
    BY <1>2, <1>3, <2>1, <2>2
  <2>3. CASE k < j
    BY <1>2, <1>3, <2>1, <2>3
  <2> QED BY <2>2, <2>3
<1> HIDE DEF n
<1>4. codes \in Surjection(1..n, Range(codes))
  BY <1>1 DEF Surjection
<1>5. codes \in Injection(1..n, Range(codes))
  BY <1>1, <1>3 DEF Injection, IsInjective
<1>6. IsFiniteSet(1..n) /\ Cardinality(1..n) = n
  <2>1. n \in Int /\ 1 \in Int
    BY <1>1
  <2>2. IsFiniteSet(1..n) /\ Cardinality(1..n) = IF 1 > n THEN 0 ELSE n - 1 + 1
    BY <2>1, FS_Interval, Zenon
  <2>3. (IF 1 > n THEN 0 ELSE n - 1 + 1) = n
    BY <1>1
  <2> QED BY <2>2, <2>3
<1>7. Cardinality(Range(codes)) = n
  BY <1>4, <1>5, <1>6, FS_Surjection
<1>8. ASSUME NEW s \in Range(codes), NEW t \in Range(codes), s.generation = t.generation
      PROVE  s = t
  <2>1. PICK j \in 1..n : s = codes[j]
    BY <1>1
  <2>2. PICK k \in 1..n : t = codes[k]
    BY <1>1
  <2> QED BY <1>3, <1>8, <2>1, <2>2
<1> QED BY <1>1, <1>7, <1>8 DEF n

\* A window the capture accepts has as many different conversions as were asked for, of one
\* range, of steady codes, none older than the moment at which it was armed.
THEOREM WindowCorrect == PipelineSpec => []WindowIsSound
<1>1. ASSUME PipelineInv PROVE WindowIsSound
  <2> SUFFICES ASSUME request.ready
               PROVE  LET w == request.window IN
                      /\ \A s \in Range(w.codes) : s.generation > armed
                      /\ Cardinality(Range(w.codes)) = w.requested
                      /\ \A s, t \in Range(w.codes) : s.pga = t.pga /\ s.code - t.code <= MaxSpread
                      /\ \A s, t \in Range(w.codes) : s.generation = t.generation => s = t
    BY DEF WindowIsSound
  <2> DEFINE codes == request.window.codes
             n == Len(codes)
  <2>1. codes \in Seq(Conversions)
    BY <1>1, RequestTypes DEF PipelineInv, PipelineTypeOK
  <2>2. Collected(codes, request.pga, armed, request.last) /\ n = request.window.requested /\ Steady(codes)
    BY <1>1 DEF PipelineInv, CaptureInv
  <2> HIDE DEF codes
  <2>3. /\ Cardinality(Range(codes)) = n /\ Range(codes) = {codes[k] : k \in 1..n}
        /\ \A s, t \in Range(codes) : s.generation = t.generation => s = t
    BY <2>1, <2>2, CollectedCount
  <2>4. armed \in Nat /\ \A k \in 1..n : codes[k].generation \in Nat
    BY <1>1, <2>1, PipelineTypes, ConversionParts DEF PipelineInv
  <2>5. \A k \in 1..n : codes[k].pga = request.pga /\ armed < codes[k].generation
    BY <2>2 DEF Collected
  <2>6. \A k \in 1..n : codes[k].generation > armed
    BY <2>4, <2>5
  <2>7. \A j, k \in 1..n : codes[j].pga = codes[k].pga /\ codes[j].code - codes[k].code <= MaxSpread
    BY <2>2, <2>5 DEF Steady
  <2>8. \A s \in Range(codes) : s.generation > armed
    BY <2>3, <2>6
  <2>9. \A s, t \in Range(codes) : s.pga = t.pga /\ s.code - t.code <= MaxSpread
    <3> SUFFICES ASSUME NEW s \in Range(codes), NEW t \in Range(codes)
                 PROVE  s.pga = t.pga /\ s.code - t.code <= MaxSpread
      OBVIOUS
    <3>1. PICK j \in 1..n : s = codes[j]
      BY <2>3
    <3>2. PICK k \in 1..n : t = codes[k]
      BY <2>3
    <3> QED BY <2>7, <3>1, <3>2
  <2> QED BY <2>2, <2>3, <2>8, <2>9 DEF codes
<1> QED BY <1>1, PipelineInitInv, PipelineNextInv, PTL DEF PipelineSpec

\* The cache is of the rate in force, and a power pair is of the newest conversions of
\* both inputs, neither of which was in a pair before.
THEOREM FreshCorrect == PipelineSpec => ConversionsAreFresh
<1> DEFINE Fresh == /\ CacheIsOfRate'
                    /\ power' # power =>
                           \A i \in {PowerVoltage, PowerCurrent} :
                               power'[i] > power[i] /\ power'[i] = last_published[i]
<1>1. ASSUME PipelineInv, PipelineInv', [PipelineNext]_pipelineVars PROVE Fresh
  <2>1. CacheIsOfRate'
    BY <1>1 DEF PipelineInv, RateInv
  <2>2. CASE PublishSample
    BY <2>1, <2>2, <1>1, PairKeeps DEF Paired
  <2>3. CASE ~PublishSample
    <3>1. power' = power
      BY <1>1, <2>3 DEF PipelineNext, pipelineVars, provider, capture, StartConversion, FinishConversion,
                        FailConversion, ApplyDataRate, ReadSample, ArmCapture, EndCapture
    <3> QED BY <2>1, <3>1
  <2> QED BY <2>2, <2>3
<1>2. PipelineSpec => []PipelineInv
  BY PipelineInitInv, PipelineNextInv, PTL DEF PipelineSpec
<1>3. PipelineInv /\ PipelineInv' /\ [PipelineNext]_pipelineVars => Fresh
  BY <1>1
<1> QED BY <1>2, <1>3, PTL DEF PipelineSpec, ConversionsAreFresh

-----------------------------------------------------------------------------
(***************************************************************************)
(* CalibrationMath.  The sum of a window is within its length times the    *)
(* codes there are, so a mean fits; the points of a range rise, not only   *)
(* from one to the next; and on its segment's line a code lies to every    *)
(* point as its value does, so between two segments lies a point.          *)
(***************************************************************************)

MathParameters ==
    /\ Q16 \in Nat /\ Q16 >= 2 /\ HalfCodes \in Nat /\ HalfCodes >= 1
    /\ \A codes \in CodeWindows : codes \in Seq(Codes) /\ codes # <<>>
    /\ Actuals \subseteq Nat

LEMMA MathParametersAre == MathParameters
BY MathAssumption DEF MathAssumption, MathParameters

\* A set of natural numbers has a least one, and one with a bound a greatest one.
LEMMA LeastIn ==
    ASSUME NEW S \in SUBSET Nat, S # {}
    PROVE  \E w \in S : \A v \in S : w =< v
<1>1. PICK w \in S : \A v \in S : <<v, w>> \notin OpToRel(<, Nat)
  BY NatLessThanWellFounded, WFMin
<1>2. ASSUME NEW v \in S, v < w PROVE FALSE
  <2>1. <<v, w>> \in OpToRel(<, Nat)
    BY <1>2 DEF OpToRel
  <2> QED BY <1>1, <2>1
<1> QED BY <1>2

LEMMA MinIs ==
    ASSUME NEW S \in SUBSET Nat, S # {}
    PROVE  Min(S) \in S /\ \A v \in S : Min(S) =< v
<1>1. \E w \in S : \A v \in S : w =< v
  BY LeastIn
<1> QED BY <1>1 DEF Min

LEMMA MaxIs ==
    ASSUME NEW n \in Nat, NEW S \in SUBSET (1..n), S # {}
    PROVE  Max(S) \in S /\ \A v \in S : v =< Max(S)
<1> DEFINE T == {n - v : v \in S}
<1>1. T \in SUBSET Nat /\ T # {}
  OBVIOUS
<1> HIDE DEF T
<1>2. PICK t \in T : \A u \in T : t =< u
  BY <1>1, LeastIn
<1>3. PICK w \in S : t = n - w
  BY DEF T
<1>4. \A v \in S : n - v \in T
  BY DEF T
<1>5. \A v \in S : w >= v
  BY <1>2, <1>3, <1>4
<1>6. Max(S) \in S /\ \A v \in S : Max(S) >= v
  BY <1>5 DEF Max
<1> QED BY <1>6

\* The sum of n codes is within n times the codes there are.
LEMMA SumIs ==
    ASSUME NEW codes \in Seq(Codes)
    PROVE  /\ Sum(codes) \in Int
           /\ -(HalfCodes * Len(codes)) =< Sum(codes) /\ Sum(codes) =< (HalfCodes - 1) * Len(codes)
           /\ Len(codes) = 1 => Sum(codes) = codes[1]
<1> DEFINE n == Len(codes)
           Adds(k, g) == g = [i \in 0..k |-> IF i = 0 THEN 0 ELSE g[i - 1] + codes[i]]
           Added(k) == \E g : Adds(k, g)
           Stuck == {k \in 0..n : ~Added(k)}
           s == CHOOSE g : Adds(n, g)
<1>1. n \in Nat /\ \A i \in 1..n : codes[i] \in Codes
  OBVIOUS
<1>2. HalfCodes \in Nat /\ HalfCodes >= 1
  BY MathParametersAre DEF MathParameters
<1>3. \A i \in 1..n : codes[i] \in Int /\ -HalfCodes =< codes[i] /\ codes[i] =< HalfCodes - 1
  BY <1>1, <1>2 DEF Codes
<1>4. Sum(codes) = s[n]
  BY DEF Sum
<1> HIDE DEF n, s
<1>5. Added(0)
  <2> DEFINE g == [i \in 0..0 |-> 0]
  <2>1. Adds(0, g)
    OBVIOUS
  <2> QED BY <2>1
<1>6. ASSUME NEW k \in Nat, Added(k) PROVE Added(k + 1)
  <2>1. PICK g : Adds(k, g)
    BY <1>6
  <2> DEFINE h == [i \in 0..(k + 1) |-> IF i = k + 1 THEN g[k] + codes[k + 1] ELSE g[i]]
  <2>2. \A i \in 0..k : g[i] = IF i = 0 THEN 0 ELSE g[i - 1] + codes[i]
    BY <2>1
  <2>3. ASSUME NEW i \in 0..(k + 1)
        PROVE  h[i] = IF i = 0 THEN 0 ELSE h[i - 1] + codes[i]
    <3>1. CASE i = k + 1
      BY <1>6, <3>1
    <3>2. CASE i # k + 1
      <4>1. i \in 0..k /\ h[i] = g[i] /\ (i # 0 => i - 1 \in 0..(k + 1) /\ i - 1 # k + 1 /\ h[i - 1] = g[i - 1])
        BY <1>6, <3>2
      <4> QED BY <2>2, <4>1
    <3> QED BY <3>1, <3>2
  <2>4. Adds(k + 1, h)
    <3>1. h = [i \in 0..(k + 1) |-> h[i]]
      OBVIOUS
    <3> HIDE DEF h
    <3> QED BY <2>3, <3>1
  <2> QED BY <2>4
<1> HIDE DEF Added
<1>7. Stuck = {}
  <2> SUFFICES ASSUME Stuck # {} PROVE FALSE
    OBVIOUS
  <2>1. Stuck \in SUBSET Nat
    OBVIOUS
  <2> HIDE DEF Stuck
  <2>2. PICK w \in Stuck : \A v \in Stuck : w =< v
    BY <2>1, LeastIn
  <2> USE DEF Stuck
  <2>3. w \in 0..n /\ ~Added(w) /\ w # 0
    BY <1>5
  <2>4. w - 1 \in Nat /\ w - 1 \in 0..n /\ w - 1 < w /\ (w - 1) + 1 = w
    BY <1>1, <2>3
  <2>5. Added(w - 1)
    BY <2>2, <2>4
  <2>6. Added((w - 1) + 1)
    BY <1>6, <2>4, <2>5
  <2> QED BY <2>3, <2>4, <2>6
<1>8. n \in 0..n /\ Added(n)
  BY <1>1, <1>7
<1>9. Adds(n, s)
  <2> HIDE DEF Adds
  <2> QED BY <1>8 DEF Added, s
<1>10. \A i \in 0..n : s[i] = IF i = 0 THEN 0 ELSE s[i - 1] + codes[i]
  BY <1>9
<1> DEFINE Off == {i \in 0..n : ~(s[i] \in Int /\ -(HalfCodes * i) =< s[i] /\ s[i] =< (HalfCodes - 1) * i)}
<1>11. Off = {}
  <2> SUFFICES ASSUME Off # {} PROVE FALSE
    OBVIOUS
  <2>1. Off \in SUBSET Nat
    OBVIOUS
  <2> HIDE DEF Off
  <2>2. PICK w \in Off : \A v \in Off : w =< v
    BY <2>1, LeastIn
  <2> USE DEF Off
  <2>3. w \in 0..n /\ w # 0
    BY <1>1, <1>2, <1>10
  <2>4. w \in 1..n /\ w - 1 \in 0..n /\ w - 1 < w
    BY <1>1, <2>3
  <2>5. w - 1 \notin Off
    BY <2>2, <2>4
  <2>6. /\ s[w - 1] \in Int /\ -(HalfCodes * (w - 1)) =< s[w - 1] /\ s[w - 1] =< (HalfCodes - 1) * (w - 1)
        /\ s[w] = s[w - 1] + codes[w]
    BY <1>10, <2>4, <2>5
  <2>7. codes[w] \in Int /\ -HalfCodes =< codes[w] /\ codes[w] =< HalfCodes - 1
    BY <1>3, <2>4
  <2>8. HalfCodes * (w - 1) = HalfCodes * w - HalfCodes /\ (HalfCodes - 1) * (w - 1) = (HalfCodes - 1) * w - (HalfCodes - 1)
        /\ HalfCodes * w \in Int /\ (HalfCodes - 1) * w \in Int
    BY <1>2, <2>4
  <2> DEFINE a == HalfCodes * w
             b == (HalfCodes - 1) * w
             x == s[w - 1]
             y == s[w]
             z == codes[w]
  <2>9. /\ x \in Int /\ -(a - HalfCodes) =< x /\ x =< b - (HalfCodes - 1)
        /\ y = x + z /\ z \in Int /\ -HalfCodes =< z /\ z =< HalfCodes - 1 /\ a \in Int /\ b \in Int
    BY <2>6, <2>7, <2>8
  <2>10. ~(y \in Int /\ -a =< y /\ y =< b)
    OBVIOUS
  <2> HIDE DEF a, b, x, y, z
  <2> QED BY <1>2, <2>9, <2>10
<1>12. n = 1 => s[n] = codes[1]
  <2> SUFFICES ASSUME n = 1 PROVE s[n] = codes[1]
    OBVIOUS
  <2>1. s[0] = 0 /\ s[1] = s[0] + codes[1]
    BY <1>10
  <2>2. codes[1] \in Int
    BY <1>3
  <2> QED BY <2>1, <2>2
<1>13. s[n] \in Int /\ -(HalfCodes * n) =< s[n] /\ s[n] =< (HalfCodes - 1) * n
  BY <1>8, <1>11
<1> QED BY <1>4, <1>12, <1>13 DEF n

LEMMA Quotient ==
    ASSUME NEW a \in Nat, NEW n \in Nat \ {0}
    PROVE  a \div n \in Nat /\ n * (a \div n) =< a /\ a < n * (a \div n) + n
<1> DEFINE q == a \div n
           r == a % n
<1>1. q \in Int /\ r \in 0..(n - 1) /\ a = n * q + r
  OBVIOUS
<1> HIDE DEF q, r
<1>2. n * q \in Int
  BY <1>1
<1>3. q >= 0
  <2>1. q =< -1 => n * q =< -n
    BY <1>1
  <2> DEFINE p == n * q
  <2>2. p \in Int /\ a = p + r /\ (q =< -1 => p =< -n)
    BY <1>1, <1>2, <2>1
  <2> HIDE DEF p
  <2> QED BY <1>1, <2>2
<1> DEFINE p == n * q
<1>4. p \in Int /\ a = p + r
  BY <1>1, <1>2
<1> HIDE DEF p
<1>5. p =< a /\ a < p + n
  BY <1>1, <1>4
<1> QED BY <1>1, <1>3, <1>5 DEF p, q

\* The conversion to int32_t keeps what fits.
LEMMA Int32Is ==
    ASSUME NEW m \in Int
    PROVE  /\ Int32(m) \in Int
           /\ -(Q16 * HalfCodes) =< m /\ m < Q16 * HalfCodes => Int32(m) = m
<1> DEFINE P == Q16 * HalfCodes
<1>1. P \in Nat \ {0} /\ 2 * Q16 * HalfCodes = 2 * P
  <2>1. Q16 \in Nat \ {0} /\ HalfCodes \in Nat \ {0}
    BY MathParametersAre DEF MathParameters
  <2> QED BY <2>1
<1>2. Int32(m) = ((m + P) % (2 * P)) - P
  BY <1>1 DEF Int32
<1> HIDE DEF P
<1>3. (m + P) % (2 * P) \in Int
  BY <1>1
<1>4. ASSUME -P =< m, m < P PROVE (m + P) % (2 * P) = m + P
  <2>1. m + P \in 0..(2 * P - 1) /\ 2 * P \in Nat \ {0}
    BY <1>1, <1>4
  <2> DEFINE a == m + P
             b == 2 * P
  <2>2. a \in 0..(b - 1) /\ b \in Nat \ {0}
    BY <2>1
  <2> HIDE DEF a, b
  <2>3. a % b = a
    BY <2>2
  <2> QED BY <2>3 DEF a, b
<1> QED BY <1>1, <1>2, <1>3, <1>4 DEF P

LEMMA MeanIsInt == \A codes \in CodeWindows : mean_q16(codes) \in Int
<1> SUFFICES ASSUME NEW codes \in CodeWindows PROVE mean_q16(codes) \in Int
  OBVIOUS
<1> DEFINE n == Len(codes)
           num == Q16 * Sum(codes)
           half == (n + 1) \div 2
           m == IF num >= 0 THEN (num + half) \div n ELSE -((half - num) \div n)
<1>1. codes \in Seq(Codes) /\ codes # <<>> /\ Q16 \in Nat
  BY MathParametersAre DEF MathParameters
<1>2. n \in Nat \ {0} /\ Sum(codes) \in Int
  BY <1>1, SumIs
<1>3. half \in Int /\ num \in Int
  BY <1>1, <1>2
<1>4. mean_q16(codes) = Int32(m)
  BY DEF mean_q16
<1> HIDE DEF n, num, half
<1>5. m \in Int
  BY <1>2, <1>3
<1> HIDE DEF m
<1> QED BY <1>4, <1>5, Int32Is

\* A mean before it is made an int32_t, of n codes with the sum s, for codes up to h.
LEMMA MeanIs ==
    ASSUME NEW q \in Nat, q >= 2, NEW h \in Nat, h >= 1, NEW n \in Nat \ {0}, NEW s \in Int,
           -(h * n) =< s, s =< (h - 1) * n, n = 1 => s # -h,
           NEW m, m = IF q * s >= 0 THEN (q * s + ((n + 1) \div 2)) \div n ELSE -((((n + 1) \div 2) - q * s) \div n)
    PROVE  /\ m \in Int /\ -(q * h) =< m /\ m < q * h
           /\ 2 * (n * m - q * s) \in -(n + 1)..(n + 1)
<1> DEFINE half == (n + 1) \div 2
           num == q * s
           P == q * h
           Pn == P * n
           Qn == q * n
<1>1. half \in Nat /\ n =< 2 * half /\ 2 * half =< n + 1 /\ half =< n /\ (n >= 2 => half < n)
  OBVIOUS
<1>2. num \in Int /\ P \in Int /\ Pn \in Int /\ Qn \in Int /\ P >= q /\ Qn >= 2 * n
  OBVIOUS
<1>3. -Pn =< num /\ num =< Pn - Qn
  <2> DEFINE hn == h * n
             kn == (h - 1) * n
  <2>1. hn \in Int /\ kn \in Int /\ kn = hn - n /\ -hn =< s /\ s =< kn
    OBVIOUS
  <2>2. q * hn = Pn /\ q * kn = Pn - Qn
    OBVIOUS
  <2> HIDE DEF hn, kn
  <2>3. q * (-hn) =< q * s /\ q * s =< q * kn /\ q * (-hn) = -(q * hn)
    BY <2>1
  <2> HIDE DEF Pn, Qn
  <2> QED BY <2>2, <2>3
<1>4. n = 1 => Pn = P /\ Qn = q /\ -Pn + Qn =< num
  <2> SUFFICES ASSUME n = 1 PROVE Pn = P /\ Qn = q /\ -Pn + Qn =< num
    OBVIOUS
  <2>1. Pn = P /\ Qn = q
    OBVIOUS
  <2>2. s >= 1 - h
    OBVIOUS
  <2>3. q * (1 - h) =< q * s /\ q * (1 - h) = q - q * h
    BY <2>2
  <2> QED BY <2>1, <2>3
<1>5. m = IF num >= 0 THEN (num + half) \div n ELSE -((half - num) \div n)
  OBVIOUS
<1>6. Pn = n * P /\ Qn = n * q
  OBVIOUS
<1> HIDE DEF half, num, Pn, Qn, P
<1>7. CASE num >= 0
  <2> DEFINE a == num + half
             k == a \div n
             nk == n * k
  <2>1. a \in Nat
    BY <1>1, <1>2, <1>7
  <2> HIDE DEF a
  <2>2. k \in Nat /\ nk =< a /\ a < nk + n
    BY <2>1, Quotient
  <2>3. nk \in Int
    BY <2>2
  <2>4. m = k
    BY <1>5, <1>7 DEF a
  <2>5. 2 * (n * m - num) \in -(n + 1)..(n + 1)
    <3>1. n * m = nk
      BY <2>4
    <3> HIDE DEF nk, k
    <3> QED BY <1>1, <1>2, <2>2, <2>3, <3>1 DEF a
  <2>6. nk < n * P
    <3> HIDE DEF nk, k
    <3>1. nk =< Pn - Qn + n
      BY <1>1, <1>2, <1>3, <2>2, <2>3 DEF a
    <3> QED BY <1>2, <1>6, <2>3, <3>1
  <2>7. k < P
    <3> HIDE DEF k
    <3>1. k >= P => n * k >= n * P
      BY <1>2, <2>2
    <3> DEFINE np == n * P
    <3>2. np \in Int
      BY <1>2
    <3>3. (k >= P => nk >= np) /\ nk < np
      BY <2>6, <3>1
    <3> HIDE DEF np, nk
    <3> QED BY <1>2, <2>2, <2>3, <3>2, <3>3
  <2>8. -P =< k
    BY <1>2, <2>2
  <2> QED BY <2>2, <2>4, <2>5, <2>7, <2>8 DEF num, P
<1>8. CASE ~(num >= 0)
  <2> DEFINE a == half - num
             k == a \div n
             nk == n * k
  <2>1. a \in Nat
    BY <1>1, <1>2, <1>8
  <2> HIDE DEF a
  <2>2. k \in Nat /\ nk =< a /\ a < nk + n
    BY <2>1, Quotient
  <2>3. nk \in Int
    BY <2>2
  <2>4. m = -k
    BY <1>5, <1>8 DEF a
  <2>5. 2 * (n * m - num) \in -(n + 1)..(n + 1)
    <3>1. n * m = -nk
      BY <2>2, <2>4
    <3> HIDE DEF nk, k
    <3> QED BY <1>1, <1>2, <2>2, <2>3, <3>1 DEF a
  <2>6. nk < n * P + n
    <3> HIDE DEF nk, k
    <3>1. CASE n >= 2
      <4>1. nk < Pn + n
        BY <1>1, <1>2, <1>3, <2>2, <2>3, <3>1 DEF a
      <4> QED BY <1>6, <4>1
    <3>2. CASE n = 1
      <4>1. nk =< half + Pn - Qn
        BY <1>1, <1>2, <1>4, <2>2, <2>3, <3>2 DEF a
      <4>2. nk < Pn + n
        BY <1>1, <1>2, <2>3, <3>2, <4>1
      <4> QED BY <1>6, <4>2
    <3> QED BY <3>1, <3>2
  <2>7. k =< P
    <3> HIDE DEF k
    <3>1. k >= P + 1 => n * k >= n * P + n
      <4>1. k >= P + 1 => n * k >= n * (P + 1)
        BY <1>2, <2>2
      <4>2. n * (P + 1) = n * P + n
        BY <1>2
      <4> QED BY <4>1, <4>2
    <3> DEFINE np == n * P
    <3>2. np \in Int
      BY <1>2
    <3>3. (k >= P + 1 => nk >= np + n) /\ nk < np + n
      BY <2>6, <3>1
    <3> HIDE DEF np, nk
    <3> QED BY <1>2, <2>2, <2>3, <3>2, <3>3
  <2>8. k > 0 \/ k = 0
    BY <2>2
  <2>9. m \in Int /\ -P =< m /\ m < P
    BY <1>2, <2>2, <2>4, <2>7
  <2> QED BY <2>5, <2>9 DEF num, P
<1> QED BY <1>7, <1>8

LEMMA MeansAre == MeansAreClose
<1> SUFFICES ASSUME NEW codes \in CodeWindows \ {<<-HalfCodes>>}
             PROVE  2 * (Len(codes) * mean_q16(codes) - Q16 * Sum(codes)) \in -(Len(codes) + 1)..(Len(codes) + 1)
  BY DEF MeansAreClose
<1> DEFINE n == Len(codes)
           s == Sum(codes)
           m == IF Q16 * s >= 0 THEN (Q16 * s + ((n + 1) \div 2)) \div n ELSE -((((n + 1) \div 2) - Q16 * s) \div n)
<1>1. codes \in Seq(Codes) /\ codes # <<>> /\ Q16 \in Nat /\ Q16 >= 2 /\ HalfCodes \in Nat /\ HalfCodes >= 1
  BY MathParametersAre DEF MathParameters
<1>2. n \in Nat \ {0} /\ s \in Int /\ -(HalfCodes * n) =< s /\ s =< (HalfCodes - 1) * n
  BY <1>1, SumIs
<1>3. n = 1 => s # -HalfCodes
  <2> SUFFICES ASSUME n = 1, s = -HalfCodes PROVE FALSE
    OBVIOUS
  <2>1. codes[1] = -HalfCodes
    BY <1>1, SumIs
  <2>2. codes = <<-HalfCodes>>
    BY <1>1, <2>1
  <2> QED BY <2>2
<1>4. mean_q16(codes) = Int32(m)
  BY DEF mean_q16
<1> HIDE DEF n, s
<1>5. /\ m \in Int /\ -(Q16 * HalfCodes) =< m /\ m < Q16 * HalfCodes
      /\ 2 * (n * m - Q16 * s) \in -(n + 1)..(n + 1)
  <2> DEFINE k == m
  <2>1. k = IF Q16 * s >= 0 THEN (Q16 * s + ((n + 1) \div 2)) \div n ELSE -((((n + 1) \div 2) - Q16 * s) \div n)
    OBVIOUS
  <2> HIDE DEF k
  <2>2. /\ k \in Int /\ -(Q16 * HalfCodes) =< k /\ k < Q16 * HalfCodes
        /\ 2 * (n * k - Q16 * s) \in -(n + 1)..(n + 1)
    BY <1>1, <1>2, <1>3, <2>1, MeanIs
  <2> QED BY <2>2 DEF k
<1> HIDE DEF m
<1>6. mean_q16(codes) = m
  BY <1>4, <1>5, Int32Is
<1> QED BY <1>5, <1>6 DEF n, s

-----------------------------------------------------------------------------
(* The segments of a range *)

LEMMA PreviousIs ==
    ASSUME NEW n \in Nat, NEW in \in SUBSET (1..n), NEW j \in Ends(in)
    PROVE  /\ j \in in /\ Previous(in, j) \in in /\ Previous(in, j) < j
           /\ \A k \in in : k =< Previous(in, j) \/ k >= j
<1> DEFINE S == {i \in in : i < j}
<1>1. j \in in /\ S # {} /\ S \in SUBSET (1..n)
  BY DEF Ends
<1>2. Max(S) \in S /\ \A v \in S : v =< Max(S)
  <2> HIDE DEF S
  <2> QED BY <1>1, MaxIs
<1>3. Previous(in, j) = Max(S)
  BY DEF Previous
<1> QED BY <1>1, <1>2, <1>3

LEMMA SegmentIs ==
    ASSUME NEW n \in Nat, NEW in \in SUBSET (1..n), Ends(in) # {}, NEW pts, NEW c,
           NEW e, e = Segment(pts, in, c)
    PROVE  /\ e \in Ends(in)
           /\ c * Q16 =< pts[e].raw \/ \A k \in in : k =< e
           /\ \A k \in Ends(in) : k < e => ~(c * Q16 =< pts[k].raw)
<1> DEFINE S == {j \in Ends(in) : c * Q16 =< pts[j].raw}
<1>0. \A i \in in : i \in Nat
  OBVIOUS
<1>1. Ends(in) \subseteq in /\ S \in SUBSET Nat /\ S \subseteq Ends(in) /\ in # {}
  <2>1. Ends(in) \subseteq in
    BY DEF Ends
  <2> QED BY <1>0, <2>1
<1>2. e = IF S # {} THEN Min(S) ELSE Max(in)
  BY Zenon DEF Segment
<1>3. CASE S # {}
  <2>1. Min(S) \in S /\ \A v \in S : Min(S) =< v
    <3> HIDE DEF S
    <3> QED BY <1>1, <1>3, MinIs
  <2>2. e = Min(S)
    BY <1>2, <1>3
  <2>3. e \in S /\ \A v \in S : e =< v
    BY <2>1, <2>2
  <2>4. ASSUME NEW k \in Ends(in), k < e PROVE ~(c * Q16 =< pts[k].raw)
    <3>1. k \in Nat /\ e \in Nat
      BY <1>0, <1>1, <2>3
    <3> QED BY <2>3, <2>4, <3>1
  <2> QED BY <2>3, <2>4
<1>4. CASE S = {}
  <2>1. e \in in /\ \A v \in in : v =< e
    BY <1>1, <1>2, <1>4, MaxIs
  <2>2. PICK j \in in, i \in in : i < j
    BY DEF Ends
  <2>3. i < e
    BY <2>1, <2>2
  <2>4. e \in Ends(in)
    BY <2>1, <2>2, <2>3 DEF Ends
  <2> QED BY <1>4, <2>1, <2>4
<1> QED BY <1>3, <1>4

\* The points there are, and what a table that can be committed has in a range.
Points == [raw : Int, actual : Actuals, pga : TablePgas]
Rises(pts, in) ==
    \A j \in Ends(in) : LET i == Previous(in, j) IN pts[i].raw < pts[j].raw /\ pts[i].actual < pts[j].actual

\* The points of a range rise, and not only from one to the next.
LEMMA RisesAll ==
    ASSUME NEW n \in Nat, NEW in \in SUBSET (1..n), NEW pts, Rises(pts, in),
           \A i \in in : pts[i].raw \in Int /\ pts[i].actual \in Int
    PROVE  \A i \in in, j \in in : i < j => pts[i].raw < pts[j].raw /\ pts[i].actual < pts[j].actual
<1> SUFFICES ASSUME NEW i \in in PROVE \A j \in in : i < j => pts[i].raw < pts[j].raw /\ pts[i].actual < pts[j].actual
  OBVIOUS
<1> DEFINE Below(k) == pts[i].raw < pts[k].raw /\ pts[i].actual < pts[k].actual
           Not == {k \in in : i < k /\ ~Below(k)}
<1>1. Not = {}
  <2> SUFFICES ASSUME Not # {} PROVE FALSE
    OBVIOUS
  <2>0. \A k \in in : k \in Nat
    OBVIOUS
  <2>1. Not \in SUBSET Nat
    BY <2>0
  <2> HIDE DEF Not
  <2>2. PICK w \in Not : \A v \in Not : w =< v
    BY <2>1, LeastIn
  <2>3. w \in in /\ i < w /\ ~Below(w) /\ i \in Nat /\ w \in Nat
    BY DEF Not
  <2>4. w \in Ends(in)
    BY <2>3 DEF Ends
  <2> DEFINE p == Previous(in, w)
  <2>5. p \in in /\ p < w /\ (i =< p \/ i >= w)
    BY <2>4, PreviousIs
  <2>6. pts[p].raw < pts[w].raw /\ pts[p].actual < pts[w].actual
    BY <2>4 DEF Rises
  <2> HIDE DEF p
  <2>7. p \in Nat /\ i =< p
    BY <2>3, <2>5
  <2>8. CASE i = p
    BY <2>3, <2>6, <2>8
  <2>9. CASE i # p
    <3>1. i < p /\ p \notin Not
      BY <2>2, <2>3, <2>5, <2>7, <2>9
    <3>2. Below(p)
      BY <2>5, <3>1 DEF Not
    <3>3. Below(w)
      BY <2>3, <2>5, <2>6, <3>2
    <3> QED BY <2>3, <3>3
  <2> QED BY <2>8, <2>9
<1> QED BY <1>1

\* Where a line through two points lies.
LEMMA LineIs ==
    ASSUME NEW a \in Int, NEW b \in Int, NEW r \in Int, NEW s \in Int, a < b, r < s, NEW x \in Int,
           NEW v, v = a * (s - r) + (x - r) * (b - a)
    PROVE  /\ v \in Int
           /\ x < r => v < a * (s - r)
           /\ x = r => v = a * (s - r)
           /\ x > r => v > a * (s - r)
           /\ x < s => v < b * (s - r)
           /\ x = s => v = b * (s - r)
           /\ x > s => v > b * (s - r)
<1> DEFINE d == s - r
           e == b - a
           y == x - r
           z == x - s
           ad == a * d
           bd == b * d
           ye == y * e
           ze == z * e
<1>1. d \in Nat \ {0} /\ e \in Nat \ {0} /\ y \in Int /\ z \in Int /\ y = z + d /\ b = a + e
  OBVIOUS
<1>2. v = ad + ye /\ ad \in Int /\ bd \in Int /\ ye \in Int /\ ze \in Int
  OBVIOUS
<1>3. (x < r <=> y < 0) /\ (x = r <=> y = 0) /\ (x > r <=> y > 0) /\ (x < s <=> z < 0) /\ (x = s <=> z = 0) /\ (x > s <=> z > 0)
  OBVIOUS
<1> HIDE DEF d, e, y, z
<1>4. (y < 0 => ye < 0) /\ (y = 0 => ye = 0) /\ (y > 0 => ye > 0)
  BY <1>1
<1>5. (z < 0 => ze < 0) /\ (z = 0 => ze = 0) /\ (z > 0 => ze > 0)
  BY <1>1
<1>6. v = bd + ze
  <2>1. ye = ze + d * e
    BY <1>1
  <2>2. bd = ad + e * d
    BY <1>1
  <2>3. d * e = e * d /\ d * e \in Int
    BY <1>1
  <2> HIDE DEF ad, bd, ye, ze
  <2> QED BY <1>2, <2>1, <2>2, <2>3
<1>7. a * (s - r) = ad /\ b * (s - r) = bd
  BY DEF d
<1> HIDE DEF ad, bd, ye, ze
<1> QED BY <1>2, <1>3, <1>4, <1>5, <1>6, <1>7

\* Products keep an order.
LEMMA TimesKeeps ==
    ASSUME NEW a \in Int, NEW b \in Int, NEW d \in Nat \ {0}
    PROVE  a * d \in Int /\ (a < b => a * d < b * d) /\ (a =< b => a * d =< b * d)
OBVIOUS

\* The correction of a code is to the value of a point as the code is to that of the point.
Follows(pts, in, c, v) ==
    /\ v[1] \in Int /\ v[2] \in Nat \ {0}
    /\ \A i \in in :
           /\ c * Q16 < pts[i].raw => v[1] < pts[i].actual * v[2]
           /\ c * Q16 = pts[i].raw => v[1] = pts[i].actual * v[2]
           /\ c * Q16 > pts[i].raw => v[1] > pts[i].actual * v[2]

LEMMA PreciseIs ==
    ASSUME NEW n \in Nat, NEW in \in SUBSET (1..n), Ends(in) # {}, NEW pts, Rises(pts, in),
           \A i \in in : pts[i].raw \in Int /\ pts[i].actual \in Int,
           NEW c \in Int, NEW v, v = Precise(pts, in, c)
    PROVE  Follows(pts, in, c, v)
<1> DEFINE e == Segment(pts, in, c)
           f == Previous(in, e)
           x == c * Q16
           r == pts[f].raw
           s == pts[e].raw
           a == pts[f].actual
           b == pts[e].actual
<1>1. /\ e \in Ends(in) /\ (x =< s \/ \A k \in in : k =< e)
      /\ \A k \in Ends(in) : k < e => ~(x =< pts[k].raw)
  BY SegmentIs
<1>2. v = <<a * (s - r) + (x - r) * (b - a), s - r>>
  BY DEF Precise
<1> HIDE DEF e
<1>3. e \in in /\ f \in in /\ f < e /\ (\A k \in in : k =< f \/ k >= e) /\ e \in Nat /\ f \in Nat
  <2>1. e \in in /\ f \in in /\ f < e /\ \A k \in in : k =< f \/ k >= e
    BY <1>1, PreviousIs
  <2>2. \A k \in in : k \in Nat
    OBVIOUS
  <2> HIDE DEF f
  <2> QED BY <2>1, <2>2
<1>4. r < s /\ a < b
  BY <1>1 DEF Rises
<1> HIDE DEF f
<1>5. r \in Int /\ s \in Int /\ a \in Int /\ b \in Int
  BY <1>3
<1>6. x \in Int
  BY MathParametersAre DEF MathParameters
<1> DEFINE w == v[1]
           d == v[2]
<1>7. w = a * (s - r) + (x - r) * (b - a) /\ d = s - r
  BY <1>2
<1> HIDE DEF w, d, x
<1>8. d \in Nat \ {0}
  BY <1>4, <1>5, <1>7
<1>9. /\ w \in Int
      /\ x < r => w < a * d
      /\ x = r => w = a * d
      /\ x > r => w > a * d
      /\ x < s => w < b * d
      /\ x = s => w = b * d
      /\ x > s => w > b * d
  <2> HIDE DEF a, b, r, s
  <2> QED BY <1>4, <1>5, <1>6, <1>7, LineIs
<1>10. ASSUME NEW i \in in
       PROVE  /\ x < pts[i].raw => w < pts[i].actual * d
              /\ x = pts[i].raw => w = pts[i].actual * d
              /\ x > pts[i].raw => w > pts[i].actual * d
  <2> DEFINE y == pts[i].raw
             z == pts[i].actual
  <2>1. y \in Int /\ z \in Int /\ i \in Nat
    <3>1. \A k \in in : k \in Nat
      OBVIOUS
    <3>2. y \in Int /\ z \in Int
      OBVIOUS
    <3> HIDE DEF y, z
    <3> QED BY <3>1, <3>2
  <2>2. \A k \in in, l \in in : k < l => pts[k].raw < pts[l].raw /\ pts[k].actual < pts[l].actual
    BY RisesAll
  <2>3. CASE i = e
    <3>1. y = s /\ z = b
      BY <2>3
    <3> QED BY <1>9, <3>1
  <2>4. CASE i = f
    <3>1. y = r /\ z = a
      BY <2>4
    <3> QED BY <1>9, <3>1
  <2>5. CASE i > e
    <3>1. s < y /\ b < z
      BY <1>3, <2>2, <2>5
    <3>2. x =< s
      BY <1>1, <1>3, <2>1, <2>5
    <3>3. b * d < z * d /\ b * d \in Int /\ z * d \in Int
      <4> HIDE DEF b, z
      <4> QED BY <1>5, <1>8, <2>1, <3>1, TimesKeeps
    <3> DEFINE bd == b * d
               zd == z * d
    <3>4. bd < zd /\ bd \in Int /\ zd \in Int /\ w \in Int /\ (x < s => w < bd) /\ (x = s => w = bd)
      BY <1>9, <3>3
    <3> HIDE DEF s, y, bd, zd
    <3>5. w < zd /\ x < y
      BY <1>5, <1>6, <2>1, <3>1, <3>2, <3>4
    <3> QED BY <1>6, <2>1, <3>5 DEF y, zd
  <2>6. CASE i < f
    <3>1. y < r /\ z < a
      BY <1>3, <2>2, <2>6
    <3>2. x > r
      <4>1. f \in Ends(in)
        BY <1>3, <2>6 DEF Ends
      <4>2. ~(x =< r)
        BY <1>1, <1>3, <4>1
      <4> HIDE DEF r
      <4> QED BY <1>5, <1>6, <4>2
    <3>3. z * d < a * d /\ a * d \in Int /\ z * d \in Int
      <4> HIDE DEF a, z
      <4> QED BY <1>5, <1>8, <2>1, <3>1, TimesKeeps
    <3> DEFINE ad == a * d
               zd == z * d
    <3>4. zd < ad /\ ad \in Int /\ zd \in Int /\ w \in Int /\ w > ad
      BY <1>9, <3>2, <3>3
    <3> HIDE DEF r, y, ad, zd
    <3>5. w > zd /\ x > y
      BY <1>5, <1>6, <2>1, <3>1, <3>2, <3>4
    <3> QED BY <1>6, <2>1, <3>5 DEF y, zd
  <2>7. i =< f \/ i >= e
    BY <1>3
  <2> QED BY <1>3, <2>1, <2>3, <2>4, <2>5, <2>6, <2>7
<1> QED BY <1>8, <1>9, <1>10 DEF w, d, x, Follows

\* Between two codes with different segments there is a point.
LEMMA SegmentsMeet ==
    ASSUME NEW n \in Nat, NEW in \in SUBSET (1..n), NEW pts, NEW c \in Int,
           \A i \in in : pts[i].raw \in Int,
           Segment(pts, in, c) # Segment(pts, in, c + 1)
    PROVE  \E i \in in : c * Q16 =< pts[i].raw /\ (c + 1) * Q16 > pts[i].raw
<1> SUFFICES ASSUME ~ \E i \in in : c * Q16 =< pts[i].raw /\ (c + 1) * Q16 > pts[i].raw PROVE FALSE
  OBVIOUS
<1> DEFINE x == c * Q16
           y == (c + 1) * Q16
           S == {j \in Ends(in) : x =< pts[j].raw}
           T == {j \in Ends(in) : y =< pts[j].raw}
<1>1. x \in Int /\ y \in Int /\ x < y
  <2>1. Q16 \in Nat \ {0}
    BY MathParametersAre DEF MathParameters
  <2>2. (c + 1) * Q16 = c * Q16 + Q16 /\ c * Q16 \in Int
    BY <2>1
  <2> QED BY <2>1, <2>2
<1>2. Segment(pts, in, c) = (IF S # {} THEN Min(S) ELSE Max(in))
  BY Zenon DEF Segment
<1>3. Segment(pts, in, c + 1) = (IF T # {} THEN Min(T) ELSE Max(in))
  BY Zenon DEF Segment
<1>4. \A i \in in : ~(x =< pts[i].raw /\ y > pts[i].raw)
  OBVIOUS
<1> HIDE DEF x, y
<1>5. ASSUME NEW i \in in PROVE x =< pts[i].raw <=> y =< pts[i].raw
  <2> DEFINE r == pts[i].raw
  <2>1. r \in Int /\ ~(x =< r /\ y > r)
    BY <1>4
  <2> HIDE DEF r
  <2>2. x =< r <=> y =< r
    BY <1>1, <2>1
  <2> QED BY <2>2 DEF r
<1>6. Ends(in) \subseteq in
  BY DEF Ends
<1>7. S = T
  BY <1>5, <1>6
<1> HIDE DEF S, T
<1> QED BY <1>2, <1>3, <1>7

\* The correction rises with the code.
LEMMA PreciseRises ==
    ASSUME NEW n \in Nat, NEW in \in SUBSET (1..n), Ends(in) # {}, NEW pts, Rises(pts, in),
           \A i \in in : pts[i].raw \in Int /\ pts[i].actual \in Int,
           NEW c \in Int, NEW v, v = Precise(pts, in, c), NEW w, w = Precise(pts, in, c + 1)
    PROVE  v[1] * w[2] < w[1] * v[2]
<1> DEFINE e == Segment(pts, in, c)
           g == Segment(pts, in, c + 1)
           x == c * Q16
           y == (c + 1) * Q16
<1>0. Q16 \in Nat \ {0}
  BY MathParametersAre DEF MathParameters
<1>1. x \in Int /\ y \in Int /\ x < y
  <2>1. (c + 1) * Q16 = c * Q16 + Q16 /\ c * Q16 \in Int
    BY <1>0
  <2> QED BY <1>0, <2>1
<1>2. CASE e = g
  <2> DEFINE f == Previous(in, e)
             r == pts[f].raw
             s == pts[e].raw
             a == pts[f].actual
             b == pts[e].actual
  <2>1. e \in Ends(in)
    BY SegmentIs
  <2>2. v = <<a * (s - r) + (x - r) * (b - a), s - r>>
    BY DEF Precise
  <2>3. w = <<a * (s - r) + (y - r) * (b - a), s - r>>
    BY <1>2 DEF Precise
  <2> HIDE DEF e
  <2>4. e \in in /\ f \in in
    BY <2>1, PreviousIs
  <2>5. r < s /\ a < b
    BY <2>1 DEF Rises
  <2> HIDE DEF f
  <2>6. r \in Int /\ s \in Int /\ a \in Int /\ b \in Int
    BY <2>4
  <2>7. v[1] = a * (s - r) + (x - r) * (b - a) /\ v[2] = s - r
    BY <2>2
  <2>8. w[1] = a * (s - r) + (y - r) * (b - a) /\ w[2] = s - r
    BY <2>3
  <2> DEFINE d == s - r
             u == b - a
             t == a * d
             v1 == v[1]
             w1 == w[1]
  <2> HIDE DEF a, b, r, s, x, y
  <2>9. d \in Nat \ {0} /\ u \in Nat \ {0}
    BY <2>5, <2>6
  <2>10. x - r \in Int /\ y - r \in Int /\ x - r < y - r
    BY <1>1, <2>6
  <2>11. (x - r) * u < (y - r) * u /\ (x - r) * u \in Int /\ (y - r) * u \in Int
    <3> DEFINE k == x - r
               l == y - r
    <3> HIDE DEF k, l, u
    <3>1. k \in Int /\ l \in Int /\ k < l /\ u \in Nat \ {0}
      BY <2>9, <2>10 DEF k, l
    <3>2. k * u < l * u /\ k * u \in Int /\ l * u \in Int
      BY <3>1, TimesKeeps
    <3> QED BY <3>2 DEF k, l
  <2>12. t \in Int
    BY <2>6, <2>9
  <2>13. v1 = t + (x - r) * u /\ w1 = t + (y - r) * u
    BY <2>7, <2>8
  <2> DEFINE k == (x - r) * u
             l == (y - r) * u
  <2>14. v1 = t + k /\ w1 = t + l /\ k < l /\ k \in Int /\ l \in Int
    BY <2>11, <2>13
  <2> HIDE DEF k, l, t, v1, w1
  <2>15. v1 \in Int /\ w1 \in Int /\ v1 < w1
    BY <2>12, <2>14
  <2> HIDE DEF d
  <2>16. v1 * d < w1 * d
    BY <2>9, <2>15, TimesKeeps
  <2> QED BY <2>7, <2>8, <2>16 DEF v1, w1, d
<1>3. CASE e # g
  <2>1. PICK i \in in : x =< pts[i].raw /\ y > pts[i].raw
    BY <1>3, SegmentsMeet
  <2> DEFINE z == pts[i].raw
             a == pts[i].actual
             v1 == v[1]
             v2 == v[2]
             w1 == w[1]
             w2 == w[2]
  <2>2. z \in Int /\ a \in Int /\ (x < z \/ x = z) /\ y > z
    <3>1. z \in Int /\ a \in Int /\ x =< z /\ y > z
      BY <2>1
    <3> HIDE DEF x, y, z
    <3> QED BY <1>1, <3>1
  <2>3. /\ v1 \in Int /\ v2 \in Nat \ {0} /\ (x < z => v1 < a * v2) /\ (x = z => v1 = a * v2)
    <3>1. Follows(pts, in, c, v)
      BY PreciseIs
    <3> QED BY <3>1, Zenon DEF Follows
  <2>4. w1 \in Int /\ w2 \in Nat \ {0} /\ (y > z => w1 > a * w2)
    <3> DEFINE h == c + 1
    <3>1. h \in Int /\ w = Precise(pts, in, h)
      OBVIOUS
    <3> HIDE DEF h
    <3>2. Follows(pts, in, h, w)
      BY <3>1, PreciseIs
    <3> QED BY <3>2, Zenon DEF h, Follows
  <2> HIDE DEF z, a, v1, v2, w1, w2
  <2>5. a * v2 \in Int /\ a * w2 \in Int /\ v1 =< a * v2 /\ a * w2 < w1
    <3>1. a * v2 \in Int /\ a * w2 \in Int
      BY <2>2, <2>3, <2>4
    <3> QED BY <2>2, <2>3, <2>4, <3>1
  <2>6. v1 * w2 =< (a * v2) * w2
    <3> DEFINE k == a * v2
    <3>1. k \in Int /\ v1 =< k
      BY <2>5
    <3> HIDE DEF k
    <3>2. v1 * w2 =< k * w2
      BY <2>3, <2>4, <3>1, TimesKeeps
    <3> QED BY <3>2 DEF k
  <2>7. (a * w2) * v2 < w1 * v2
    <3> DEFINE k == a * w2
    <3>1. k \in Int /\ k < w1
      BY <2>5
    <3> HIDE DEF k
    <3>2. k * v2 < w1 * v2
      BY <2>3, <2>4, <3>1, TimesKeeps
    <3> QED BY <3>2 DEF k
  <2>8. (a * v2) * w2 = (a * w2) * v2 /\ (a * w2) * v2 \in Int /\ v1 * w2 \in Int /\ w1 * v2 \in Int
    BY <2>2, <2>3, <2>4
  <2>9. v1 * w2 < w1 * v2
    <3> DEFINE k == v1 * w2
               l == (a * v2) * w2
               m == w1 * v2
    <3>1. k \in Int /\ l \in Int /\ m \in Int /\ k =< l /\ l < m
      BY <2>6, <2>7, <2>8
    <3> HIDE DEF k, l, m
    <3>2. k < m
      BY <3>1
    <3> QED BY <3>2 DEF k, m
  <2> QED BY <2>9 DEF v1, v2, w1, w2
<1> QED BY <1>2, <1>3

\* A value that is a natural number is not rounded to another.
LEMMA to_u4Is ==
    ASSUME NEW v, NEW a \in Nat, v[2] \in Nat \ {0}, v[1] = a * v[2]
    PROVE  to_u4(v) = a
<1> DEFINE d == v[2]
           k == v[1]
<1>1. d \in Nat \ {0} /\ k = a * d
  OBVIOUS
<1>2. to_u4(v) = IF k <= 0 THEN 0 ELSE (2 * k + d) \div (2 * d)
  BY DEF to_u4
<1> HIDE DEF k, d
<1>3. CASE a = 0
  <2>1. k = 0
    BY <1>1, <1>3
  <2> QED BY <1>2, <1>3, <2>1
<1>4. CASE a # 0
  <2>1. k > 0
    BY <1>1, <1>4
  <2> DEFINE b == 2 * d
  <2>2. b \in Nat \ {0} /\ d \in 0..(b - 1) /\ 2 * k + d = a * b + d
    BY <1>1
  <2>3. (2 * k + d) \div (2 * d) = (a * b + d) \div b
    BY <2>2
  <2> HIDE DEF b
  <2>4. (a * b + d) \div b = a
    BY <2>2
  <2> QED BY <1>1, <1>2, <2>1, <2>3, <2>4
<1> QED BY <1>3, <1>4

\* Over a table of points everything the property says holds.
LEMMA CorrectionIs ==
    ASSUME table \in Seq(Points), table_validate(table), NEW pga \in TablePgas
    PROVE  LET in == InRange(table, pga)
               v[c \in Codes] == Precise(table, in, c)
           IN IF Ends(in) = {} THEN \A c \in Codes : Apply(table, c, pga) = Uncorrected(c)
              ELSE
              /\ \A c \in Codes \ {HalfCodes - 1} : v[c][1] * v[c + 1][2] < v[c + 1][1] * v[c][2]
              /\ \A c \in Codes, i \in in :
                     /\ c * Q16 <= table[i].raw => v[c][1] <= table[i].actual * v[c][2]
                     /\ c * Q16 >= table[i].raw => v[c][1] >= table[i].actual * v[c][2]
                     /\ c * Q16 = table[i].raw => Apply(table, c, pga) = table[i].actual
<1> DEFINE in == InRange(table, pga)
           n == Len(table)
           P(c) == Precise(table, in, c)
           v == [c \in Codes |-> P(c)]
<1>1. n \in Nat /\ in \in SUBSET (1..n)
  BY DEF InRange
<1>2. Actuals \subseteq Nat /\ HalfCodes \in Nat /\ Q16 \in Nat
  BY MathParametersAre DEF MathParameters
<1>3. ASSUME NEW i \in in PROVE table[i].raw \in Int /\ table[i].actual \in Nat
  <2>1. table[i] \in Points
    BY <1>1
  <2> QED BY <1>2, <2>1 DEF Points
<1>4. Rises(table, in)
  BY DEF Rises, table_validate
<1>5. Codes \subseteq Int /\ \A c \in Codes \ {HalfCodes - 1} : c + 1 \in Codes
  BY <1>2 DEF Codes
<1>6. \A c \in Codes : Apply(table, c, pga) = IF Ends(in) # {} THEN to_u4(P(c)) ELSE Uncorrected(c)
  BY DEF Apply
<1> HIDE DEF in, n
<1>9. \A i \in in : table[i].raw \in Int /\ table[i].actual \in Int
  BY <1>3
<1>7. CASE Ends(in) = {}
  BY <1>6, <1>7 DEF in
<1>8. CASE Ends(in) # {}
  <2>1. ASSUME NEW c \in Codes \ {HalfCodes - 1} PROVE v[c][1] * v[c + 1][2] < v[c + 1][1] * v[c][2]
    <3>1. v[c] = P(c) /\ v[c + 1] = P(c + 1) /\ c \in Int
      BY <1>5
    <3>2. P(c)[1] * P(c + 1)[2] < P(c + 1)[1] * P(c)[2]
      BY <1>1, <1>4, <1>8, <1>9, <3>1, PreciseRises
    <3> HIDE DEF v, P
    <3> QED BY <3>1, <3>2
  <2>2. ASSUME NEW c \in Codes, NEW i \in in
        PROVE  /\ c * Q16 <= table[i].raw => v[c][1] <= table[i].actual * v[c][2]
               /\ c * Q16 >= table[i].raw => v[c][1] >= table[i].actual * v[c][2]
               /\ c * Q16 = table[i].raw => Apply(table, c, pga) = table[i].actual
    <3> DEFINE x == c * Q16
               r == table[i].raw
               a == table[i].actual
               w == P(c)[1]
               d == P(c)[2]
    <3>1. v[c] = P(c) /\ c \in Int
      BY <1>5
    <3>2. /\ w \in Int /\ d \in Nat \ {0}
          /\ (x < r => w < a * d) /\ (x = r => w = a * d) /\ (x > r => w > a * d)
      <4> DEFINE p == P(c)
      <4>1. p = Precise(table, in, c)
        OBVIOUS
      <4> HIDE DEF p
      <4>2. Follows(table, in, c, p)
        BY <1>1, <1>4, <1>8, <1>9, <3>1, <4>1, PreciseIs
      <4> QED BY <4>2, Zenon DEF p, Follows
    <3>3. r \in Int /\ a \in Nat /\ x \in Int
      BY <1>2, <1>3, <3>1
    <3>4. x = r => to_u4(P(c)) = a
      <4> DEFINE p == P(c)
      <4>1. w = p[1] /\ d = p[2]
        OBVIOUS
      <4> HIDE DEF p
      <4>2. x = r => p[2] \in Nat \ {0} /\ p[1] = a * p[2]
        BY <3>2, <4>1
      <4>3. x = r => to_u4(p) = a
        BY <3>3, <4>2, to_u4Is
      <4> QED BY <4>3 DEF p
    <3>5. x = r => Apply(table, c, pga) = a
      BY <1>6, <1>8, <3>4
    <3> DEFINE ad == a * d
    <3>6. ad \in Int
      BY <3>2, <3>3
    <3>7. (x =< r => w =< ad) /\ (x >= r => w >= ad)
      <4>1. w \in Int /\ (x < r => w < ad) /\ (x = r => w = ad) /\ (x > r => w > ad)
        BY <3>2
      <4> HIDE DEF w, ad, x, r
      <4> QED BY <3>3, <3>6, <4>1
    <3> HIDE DEF v
    <3> QED BY <3>1, <3>5, <3>7
  <2> QED BY <1>8, <2>1, <2>2 DEF in
<1> QED BY <1>7, <1>8

\* Means are close to what was measured; and over every table that can be committed the
\* correction rises strictly with the code, keeps what is between two points between their
\* values, and gives back the value of a point.
THEOREM CorrectionCorrect == MathSpec => []CorrectionIsSound
<1> DEFINE Typed == table \in Seq(Points)
<1>1. MathInit => Typed
  BY DEF MathInit
<1>2. Typed /\ [StorePoint]_table => Typed'
  <2> SUFFICES ASSUME Typed, [StorePoint]_table PROVE Typed'
    OBVIOUS
  <2>1. CASE StorePoint
    <3>1. PICK codes \in CodeWindows, actual \in Actuals, pga \in TablePgas, i \in 1..MaxTable :
              LET point == [raw |-> mean_q16(codes), actual |-> actual, pga |-> pga] IN
              /\ i <= Len(table) + 1
              /\ table' = IF i = Len(table) + 1 THEN Append(table, point) ELSE [table EXCEPT ![i] = point]
      BY <2>1 DEF StorePoint
    <3> DEFINE point == [raw |-> mean_q16(codes), actual |-> actual, pga |-> pga]
    <3>2. point \in Points
      BY MeanIsInt DEF Points
    <3>3. table' = Append(table, point) \/ table' = [table EXCEPT ![i] = point]
      BY <3>1
    <3> HIDE DEF point
    <3> QED BY <3>2, <3>3
  <2>2. CASE UNCHANGED table
    BY <2>2
  <2> QED BY <2>1, <2>2
<1>3. Typed => CorrectionIsSound
  BY MeansAre, CorrectionIs DEF CorrectionIsSound
<1> HIDE DEF Typed
<1> QED BY <1>1, <1>2, <1>3, PTL DEF MathSpec
=============================================================================
