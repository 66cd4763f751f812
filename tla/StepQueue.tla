------------------------------ MODULE StepQueue ------------------------------
(***************************************************************************)
(* What timer_svc promises those who queue timed relay steps and those who *)
(* switch the relay meanwhile: steps are applied in the order they were    *)
(* added, each at most once and only by a countdown; a clear leaves none   *)
(* but one that had already been taken; and a countdown that runs when it  *)
(* is told of another's change of the relay is paused by it.               *)
(***************************************************************************)
EXTENDS Sequences, Naturals

CONSTANTS
    Steps,          \* the steps that may be queued: records with an id and a level on
    MaxSteps,       \* TIMER_SVC_MAX_STEPS
    Callers         \* who clears the queue and switches the relay

VARIABLES
    queue,          \* the steps that wait
    state,          \* of the countdown of the first of them
    taken,          \* the level of a step that was taken and not yet applied
    opening,        \* callers that have cleared the queue and not yet opened the relay
    untold,         \* how a caller's change, of which the timer was not yet told, pauses it
    relay

vars == <<queue, state, taken, opening, untold, relay>>

Trips == {"OVP", "OCP"}
Kinds == Trips \union {"OVR"}
Told == "told"

Init ==
    /\ queue = <<>>
    /\ state = "IDLE"
    /\ taken = {}
    /\ opening = {}
    /\ untold = [c \in Callers |-> Told]
    /\ relay = FALSE

Add ==
    /\ Len(queue) < MaxSteps
    /\ \E step \in Steps :
          /\ \A i \in DOMAIN queue : queue[i].id # step.id
          /\ queue' = Append(queue, step)
    /\ UNCHANGED <<state, taken, opening, untold, relay>>

Ready(c) == c \notin opening /\ untold[c] = Told

Clear(c) ==
    /\ Ready(c)
    /\ queue' = <<>>
    /\ state' = "IDLE"
    /\ opening' = opening \union {c}
    /\ UNCHANGED <<taken, untold, relay>>

Open(c) ==
    /\ c \in opening
    /\ opening' = opening \ {c}
    /\ relay' = FALSE
    /\ UNCHANGED <<queue, state, taken, untold>>

\* The countdown of the next step follows at once.
Take ==
    /\ state = "RUNNING"
    /\ taken = {}
    /\ taken' = {Head(queue).on}
    /\ queue' = Tail(queue)
    /\ state' = IF queue' = <<>> THEN "IDLE" ELSE "RUNNING"
    /\ UNCHANGED <<opening, untold, relay>>

Apply ==
    /\ relay' \in taken
    /\ taken' = {}
    /\ UNCHANGED <<queue, state, opening, untold>>

Pause ==
    /\ state = "RUNNING"
    /\ state' = "PAUSED"
    /\ UNCHANGED <<queue, taken, opening, untold, relay>>

Run ==
    /\ state # "RUNNING" /\ queue # <<>>
    /\ state' = "RUNNING"
    /\ UNCHANGED <<queue, taken, opening, untold, relay>>

\* The timer is told of a change that is not its own.
Heard(kind) == state' = IF state = "RUNNING" THEN kind ELSE state

\* A caller switches the relay and tells the timer at once or later; no trip closes it.
Switch(c) ==
    /\ Ready(c)
    /\ \E kind \in Kinds :
          /\ relay' \in BOOLEAN /\ (relay' => kind \notin Trips)
          /\ \/ Heard(kind) /\ UNCHANGED untold
             \/ untold' = [untold EXCEPT ![c] = kind] /\ UNCHANGED state
    /\ UNCHANGED <<queue, taken, opening>>

Tell(c) ==
    /\ untold[c] # Told
    /\ untold' = [untold EXCEPT ![c] = Told]
    /\ Heard(untold[c])
    /\ UNCHANGED <<queue, taken, opening, relay>>

Next ==
    \/ Add \/ Take \/ Apply \/ Pause \/ Run
    \/ \E c \in Callers : Clear(c) \/ Open(c) \/ Switch(c) \/ Tell(c)

Spec == Init /\ [][Next]_vars
-----------------------------------------------------------------------------
\* A queue that is counted down has a step to count, it is never longer than
\* the array of the service, and an id names one step of it.
QueueIsSound ==
    /\ state # "IDLE" => queue # <<>>
    /\ queue \in Seq(Steps) /\ Len(queue) <= MaxSteps
    /\ \A i, j \in DOMAIN queue : queue[i].id = queue[j].id => i = j
=============================================================================
