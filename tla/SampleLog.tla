----------------------------- MODULE SampleLog -----------------------------
(***************************************************************************)
(* What a measurement history promises its readers: samples are published  *)
(* one after another, the last Capacity of them are kept, and every answer *)
(* is a gapless run of them in the order of publication.  A sample is its  *)
(* publication number; how the samples are stored is not said here.        *)
(***************************************************************************)
EXTENDS Naturals, Sequences

CONSTANTS Capacity, Clients, MaxPublished

VARIABLES
    published,  \* the number of samples published so far
    open,       \* the clients whose copy of the newest samples is under way
    size,       \* how many samples such a copy will return
    since,      \* how many samples were published when it began
    answer      \* the run of samples a client got last

logVars == <<published, open, size, since, answer>>

Smaller(m, n) == IF m < n THEN m ELSE n
Kept == Smaller(published, Capacity)
Run(first, n) == [i \in 1..n |-> first + i - 1]

LogInit ==
    /\ published = 0
    /\ open = {}
    /\ size = [c \in Clients |-> 0]
    /\ since = [c \in Clients |-> 0]
    /\ answer = [c \in Clients |-> <<>>]

Add ==
    /\ published < MaxPublished
    /\ published' = published + 1
    /\ UNCHANGED <<open, size, since, answer>>

\* A page of at most max samples, skipping the start oldest ones.
Page(c, start, max) ==
    /\ answer' = [answer EXCEPT ![c] =
           IF start < Kept THEN Run(published - Kept + start + 1, Smaller(Kept - start, max))
           ELSE <<>>]
    /\ UNCHANGED <<published, open, size, since>>

\* The newest samples at one instant.
Newest(c, max) ==
    /\ published > 0
    /\ answer' = [answer EXCEPT ![c] =
           Run(published - Smaller(Kept, max) + 1, Smaller(Kept, max))]
    /\ UNCHANGED <<published, open, size, since>>

Ask(c, max) ==
    /\ c \notin open
    /\ open' = open \cup {c}
    /\ size' = [size EXCEPT ![c] = Smaller(Kept, max)]
    /\ since' = [since EXCEPT ![c] = published]
    /\ UNCHANGED <<published, answer>>

\* The run ends with a sample that was the newest while the call was under way.
Get(c) ==
    /\ c \in open
    /\ open' = open \ {c}
    /\ \E last \in since[c]..published :
           answer' = [answer EXCEPT ![c] = Run(last - size[c] + 1, size[c])]
    /\ UNCHANGED <<published, size, since>>

LogNext ==
    \/ Add
    \/ \E c \in Clients :
           \/ \E start, max \in 0..Capacity : Page(c, start, max)
           \/ \E max \in 1..Capacity : Newest(c, max)
           \/ \E max \in 0..Capacity : Ask(c, max)
           \/ Get(c)

LogSpec == LogInit /\ [][LogNext]_logVars
=============================================================================
