--------------------------- MODULE SampleHistory ---------------------------
(***************************************************************************)
(* One ring of measure_svc_history.c: the sampler's task publishes into it *)
(* through history_listener, and clients on other tasks copy pages, take   *)
(* the newest samples and average them.  s_history_lock makes each access  *)
(* one step; copy_latest_samples takes the lock twice and is two steps.    *)
(*                                                                         *)
(* A sample is its publication number, so an answer shows exactly which    *)
(* samples it is made of.  A slot of the power ring stands for the sample  *)
(* and the voltage and current it was computed from, written and read      *)
(* together; an average is the run of samples it is taken over.            *)
(***************************************************************************)
EXTENDS Integers, Sequences

CONSTANTS
    Capacity,      \* MEASURE_SVC_MAX_SAMPLE_CAPACITY
    Clients,       \* tasks that read the history
    MaxPublished   \* bound on the samples published

ASSUME CapacityAssumption == Capacity \in Nat \ {0}
ASSUME MaxPublishedAssumption == MaxPublished \in Nat

VARIABLES
    samples,       \* ring->samples; 0 is the zeroed memory of heap_caps_calloc
    write_index,   \* ring->write_index
    count,         \* ring->count
    latest,        \* the clients between the two critical sections of copy_latest
    available,     \* what such a client read in the first one
    max_count,     \* and its argument
    answer,        \* the samples a client's last call returned, or averaged
    published,     \* history: the samples published so far
    since          \* history: published when the client's copy_latest began

ring == <<samples, write_index, count>>
calls == <<latest, available, max_count, since>>
historyVars == <<ring, calls, answer, published>>

Slots == 0..(Capacity - 1)
Smaller(m, n) == IF m < n THEN m ELSE n

HistoryTypeOK ==
    /\ samples \in [Slots -> Nat]
    /\ write_index \in Slots
    /\ count \in 0..Capacity
    /\ latest \subseteq Clients
    /\ available \in [Clients -> 0..Capacity]
    /\ max_count \in [Clients -> 0..Capacity]
    /\ answer \in [Clients -> Seq(Nat)]
    /\ published \in Nat
    /\ since \in [Clients -> Nat]

HistoryInit ==
    /\ samples = [s \in Slots |-> 0]
    /\ write_index = 0
    /\ count = 0
    /\ latest = {}
    /\ available = [c \in Clients |-> 0]
    /\ max_count = [c \in Clients |-> 0]
    /\ answer = [c \in Clients |-> <<>>]
    /\ published = 0
    /\ since = [c \in Clients |-> 0]

\* Mutant: the index does not wrap.
PublishForgetsWrap ==
    /\ published < MaxPublished
    /\ published' = published + 1
    /\ samples' = [samples EXCEPT ![write_index] = published + 1]
    /\ write_index' = Smaller(write_index + 1, Capacity - 1)
    /\ count' = Smaller(count + 1, Capacity)
    /\ UNCHANGED <<calls, answer>>

Publish ==
    /\ published < MaxPublished
    /\ published' = published + 1
    /\ samples' = [samples EXCEPT ![write_index] = published + 1]
    /\ write_index' = (write_index + 1) % Capacity
    /\ count' = Smaller(count + 1, Capacity)
    /\ UNCHANGED <<calls, answer>>

\* The slot that lies i after the one where the n newest samples begin.
SlotOfNewest(n, i) == (((write_index + Capacity - n) % Capacity) + i) % Capacity

\* The samples a page holds: empty when it starts past the newest one.
PageOf(start_offset, n) ==
    [i \in 1..(IF start_offset < count THEN Smaller(count - start_offset, n) ELSE 0) |->
        samples[SlotOfNewest(count, start_offset + i - 1)]]

CopyPage(c, start_offset, n) ==
    /\ c \notin latest
    /\ answer' = [answer EXCEPT ![c] = PageOf(start_offset, n)]
    /\ UNCHANGED <<ring, calls, published>>

\* ESP_ERR_INVALID_STATE on an empty ring leaves the caller's value alone.
AverageLatest(c, n) ==
    /\ c \notin latest
    /\ count > 0
    /\ answer' = [answer EXCEPT ![c] =
           [i \in 1..Smaller(count, n) |-> samples[SlotOfNewest(Smaller(count, n), i - 1)]]]
    /\ UNCHANGED <<ring, calls, published>>

CountAvailable(c, n) ==
    /\ c \notin latest
    /\ latest' = latest \cup {c}
    /\ available' = [available EXCEPT ![c] = count]
    /\ max_count' = [max_count EXCEPT ![c] = n]
    /\ since' = [since EXCEPT ![c] = published]
    /\ UNCHANGED <<ring, answer, published>>

Wanted(c) == Smaller(available[c], max_count[c])

\* Mutant: the copy starts at the oldest sample.
CopyOldest(c) ==
    /\ c \in latest
    /\ latest' = latest \ {c}
    /\ answer' = [answer EXCEPT ![c] = PageOf(0, Wanted(c))]
    /\ UNCHANGED <<ring, available, max_count, since, published>>

CopyLatest(c) ==
    /\ c \in latest
    /\ latest' = latest \ {c}
    /\ answer' = [answer EXCEPT ![c] = PageOf(available[c] - Wanted(c), Wanted(c))]
    /\ UNCHANGED <<ring, available, max_count, since, published>>

HistoryNext ==
    \/ Publish
    \/ \E c \in Clients :
           \/ \E start_offset, n \in 0..Capacity : CopyPage(c, start_offset, n)
           \/ \E n \in 1..Capacity : AverageLatest(c, n)
           \/ \E n \in 0..Capacity : CountAvailable(c, n)
           \/ CopyLatest(c)

HistorySpec == HistoryInit /\ [][HistoryNext]_historyVars
-----------------------------------------------------------------------------
(* Properties *)

\* Reading the ring from its oldest slot gives the last samples published, in
\* order and without a gap: the wrap of write_index, the stop of count at the
\* capacity and the reader's "oldest" agree.
RingHoldsNewest ==
    /\ count = Smaller(published, Capacity)
    /\ \A i \in 0..(count - 1) :
           samples[SlotOfNewest(count, i)] = published - count + 1 + i

\* No answer, whatever was published during the call, holds an unwritten slot
\* or a sample out of order: it is a gapless run of what was published.
AnswersAreRuns ==
    \A c \in Clients : LET a == answer[c] IN
        /\ \A i \in DOMAIN a : a[i] \in 1..published
        /\ \A i \in DOMAIN a \ {1} : a[i] = a[i - 1] + 1

\* What a client finds in the history, at any fill level and during any call.
HistoryIsSound == RingHoldsNewest /\ AnswersAreRuns

\* The ring with its page, average and two-step copy implements the log.
Log == INSTANCE SampleLog WITH
    open <- latest,
    size <- [c \in Clients |-> Wanted(c)]
ImplementsLog == Log!LogSpec

\* measure_svc_history_copy_latest_samples, "Copy up to max_count newest samples":
\* what it returns were the max_count newest samples at some moment of the call.
LatestWereNewest ==
    [][\A c \in latest \ latest' :
           \E now \in since[c]..published :
               LET n == Smaller(Smaller(now, Capacity), max_count[c]) IN
               answer'[c] = [i \in 1..n |-> now - n + i]]_historyVars
=============================================================================
