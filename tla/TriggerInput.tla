---------------------------- MODULE TriggerInput ----------------------------
(***************************************************************************)
(* The trigger inputs of trigger_svc.c.  An edge raises a GPIO interrupt;  *)
(* its handler queues the pin unless the pin is already pending.  The      *)
(* worker takes a pin from the queue, waits for the contact to settle,     *)
(* reads the level, takes the pin off pending, and dispatches the level if *)
(* it differs from the last one it dispatched.  trigger_svc_init installs  *)
(* the handlers while the interrupts are live and the worker is running.   *)
(***************************************************************************)
EXTENDS Naturals, Sequences, FiniteSets

CONSTANTS
    Pins,          \* trigger inputs
    NoPin,          \* no pin
    QueueLength,   \* TRIGGER_SVC_EVENT_QUEUE_LENGTH
    MaxEdges       \* bound: edges per pin

ASSUME InputAssumption ==
    /\ IsFiniteSet(Pins) /\ NoPin \notin Pins
    /\ QueueLength \in Nat /\ MaxEdges \in Nat

VARIABLES
    level,     \* a pin's voltage: TRUE is HIGH
    edges,     \* edges of a pin so far
    irq,       \* an edge the handler has not run for
    setup,     \* how far trigger_svc_init is with a pin
    pending,   \* debounce_pending
    queue,     \* event_queue
    worker,    \* the pin the worker is busy with and where it is
    stable,    \* stable_state
    missed     \* history: the handler left an edge to a worker that had read the level

inputVars == <<level, edges, irq, setup, pending, queue, worker, stable, missed>>

WorkerAt == {"idle", "debounce", "read", "dispatch"}

InputTypeOK ==
    /\ level \in [Pins -> BOOLEAN] /\ edges \in [Pins -> 0..MaxEdges]
    /\ irq \in [Pins -> BOOLEAN]
    /\ setup \in [Pins -> {"none", "handler", "read", "done"}]
    /\ pending \in [Pins -> BOOLEAN]
    /\ queue \in Seq(Pins) /\ Len(queue) <= QueueLength
    /\ worker \in [at : WorkerAt, pin : Pins \cup {NoPin}, state : BOOLEAN]
    /\ worker.at = "idle" <=> worker.pin = NoPin
    /\ stable \in [Pins -> BOOLEAN] /\ missed \in [Pins -> BOOLEAN]

WorkerIdle == [at |-> "idle", pin |-> NoPin, state |-> FALSE]

\* Static storage is zero, and a zero state is LOW.
InputInit ==
    /\ level \in [Pins -> BOOLEAN]
    /\ edges = [p \in Pins |-> 0]
    /\ irq = [p \in Pins |-> FALSE]
    /\ setup = [p \in Pins |-> "none"]
    /\ pending = [p \in Pins |-> FALSE]
    /\ queue = <<>>
    /\ worker = WorkerIdle
    /\ stable = [p \in Pins |-> FALSE]
    /\ missed = [p \in Pins |-> FALSE]

\* The level changes.  Edges nobody has handled yet are one interrupt.
Edge(p) ==
    /\ edges[p] < MaxEdges
    /\ level' = [level EXCEPT ![p] = ~@]
    /\ edges' = [edges EXCEPT ![p] = @ + 1]
    /\ irq' = [irq EXCEPT ![p] = setup[p] # "none"]
    /\ UNCHANGED <<setup, pending, queue, worker, stable, missed>>

-----------------------------------------------------------------------------
(* trigger_svc_gpio_isr_handler *)

HasRead(p) == worker.at = "read" /\ worker.pin = p

\* The pin is pending: whoever made it so will read the level, or has just done it.
IgnoreEdge(p) ==
    /\ irq[p] /\ pending[p]
    /\ irq' = [irq EXCEPT ![p] = FALSE]
    /\ missed' = [missed EXCEPT ![p] = @ \/ HasRead(p)]
    /\ UNCHANGED <<level, edges, setup, pending, queue, worker, stable>>

\* Mutant: a pending pin is queued again.
QueueEdgeAlways(p) ==
    /\ irq[p]
    /\ irq' = [irq EXCEPT ![p] = FALSE]
    /\ pending' = [pending EXCEPT ![p] = Len(queue) < QueueLength]
    /\ queue' = IF Len(queue) < QueueLength THEN Append(queue, p) ELSE queue
    /\ UNCHANGED <<level, edges, setup, worker, stable, missed>>

\* The pin becomes pending; when the queue is full it is taken back and the edge is lost.
QueueEdge(p) ==
    /\ irq[p] /\ ~pending[p]
    /\ irq' = [irq EXCEPT ![p] = FALSE]
    /\ pending' = [pending EXCEPT ![p] = Len(queue) < QueueLength]
    /\ queue' = IF Len(queue) < QueueLength THEN Append(queue, p) ELSE queue
    /\ UNCHANGED <<level, edges, setup, worker, stable, missed>>

-----------------------------------------------------------------------------
(* trigger_svc_worker_task *)

TakeEvent ==
    /\ worker.at = "idle" /\ queue # <<>>
    /\ worker' = [WorkerIdle EXCEPT !.at = "debounce", !.pin = Head(queue)]
    /\ queue' = Tail(queue)
    /\ UNCHANGED <<level, edges, irq, setup, pending, stable, missed>>

\* The wait is over and the level is read.
ReadLevel ==
    /\ worker.at = "debounce"
    /\ worker' = [worker EXCEPT !.at = "read", !.state = level[worker.pin]]
    /\ missed' = [missed EXCEPT ![worker.pin] = FALSE]
    /\ UNCHANGED <<level, edges, irq, setup, pending, queue, stable>>

\* Mutant: the pin stays pending.
EndDebounceStillPending ==
    /\ worker.at = "read"
    /\ worker' = IF worker.state = stable[worker.pin] THEN WorkerIdle ELSE [worker EXCEPT !.at = "dispatch"]
    /\ stable' = [stable EXCEPT ![worker.pin] = worker.state]
    /\ UNCHANGED <<level, edges, irq, setup, pending, queue, missed>>

\* The pin is no longer pending.  A level that has not changed was a bounce.
EndDebounce ==
    /\ worker.at = "read"
    /\ pending' = [pending EXCEPT ![worker.pin] = FALSE]
    /\ worker' = IF worker.state = stable[worker.pin] THEN WorkerIdle ELSE [worker EXCEPT !.at = "dispatch"]
    /\ stable' = [stable EXCEPT ![worker.pin] = worker.state]
    /\ UNCHANGED <<level, edges, irq, setup, queue, missed>>

\* The action of the pin and state runs to its end in the worker.
Dispatch ==
    /\ worker.at = "dispatch"
    /\ worker' = WorkerIdle
    /\ UNCHANGED <<level, edges, irq, setup, pending, queue, stable, missed>>

-----------------------------------------------------------------------------
(* trigger_svc_init, one pin after the other *)

IsNext(p) == \A q \in Pins : setup[q] \in {"none", "done"} \/ q = p

InstallHandler(p) ==
    /\ setup[p] = "none" /\ IsNext(p)
    /\ setup' = [setup EXCEPT ![p] = "handler"]
    /\ UNCHANGED <<level, edges, irq, pending, queue, worker, stable, missed>>

ReadInitialLevel(p) ==
    /\ setup[p] = "handler"
    /\ stable' = [stable EXCEPT ![p] = level[p]]
    /\ setup' = [setup EXCEPT ![p] = "read"]
    /\ UNCHANGED <<level, edges, irq, pending, queue, worker, missed>>

\* debounce_pending is reset although the handler may have set it since.
ClearPending(p) ==
    /\ setup[p] = "read"
    /\ pending' = [pending EXCEPT ![p] = FALSE]
    /\ setup' = [setup EXCEPT ![p] = "done"]
    /\ UNCHANGED <<level, edges, irq, queue, worker, stable, missed>>

-----------------------------------------------------------------------------
Handler(p) == IgnoreEdge(p) \/ QueueEdge(p)
Worker == TakeEvent \/ ReadLevel \/ EndDebounce \/ Dispatch
Setup(p) == InstallHandler(p) \/ ReadInitialLevel(p) \/ ClearPending(p)

InputNext == (\E p \in Pins : Edge(p) \/ Handler(p) \/ Setup(p)) \/ Worker

\* An interrupt is served, and the worker is the task of highest priority but for the
\* acquisition, which sleeps between its conversions.
InputFairness == WF_inputVars(Worker) /\ \A p \in Pins : WF_inputVars(Handler(p)) /\ WF_inputVars(Setup(p))

InputSpec == InputInit /\ [][InputNext]_inputVars

InputFairSpec == InputSpec /\ InputFairness
-----------------------------------------------------------------------------
(* Properties *)

\* The events of a pin that are queued or that the worker has not yet taken off
\* pending.
InFlight(p) ==
    Cardinality({i \in 1..Len(queue) : queue[i] = p})
    + IF worker.pin = p /\ worker.at \in {"debounce", "read"} THEN 1 ELSE 0

\* A pin has one event in flight, or two for ever when an edge came in while
\* trigger_svc_init was setting it up: so the queue of eight never overflows and no
\* edge is lost in it.  A pin that is pending has one, so that it does not stay deaf.
FlightIsBounded ==
    \A p \in Pins : InFlight(p) <= 2 /\ (pending[p] => InFlight(p) > 0)

\* Once a pin stops changing, its level is dispatched, unless the last edge fell between
\* the worker's read and its reset of debounce_pending.
LevelIsServed ==
    \A p \in Pins : <>[](stable[p] = level[p] \/ missed[p])
=============================================================================
