------------------------------ MODULE MCTrigger ------------------------------
(***************************************************************************)
(* TriggerConfig and TriggerInput for TLC.  They share no state: the       *)
(* worker only reads the action of a slot when it dispatches.  So each     *)
(* behaviour moves one of them, and the fairness is that of the inputs.    *)
(***************************************************************************)
EXTENDS TriggerConfig, TriggerInput

VARIABLE part

\* One function with an action of its own and two that share one.
Names == {"OUT_ON", "TIM_START", "TIM_PAUSE"}
Actions == [f \in Names \cup {None} |-> IF f \in {"TIM_START", "TIM_PAUSE"} THEN "TIM_TOGGLE" ELSE f]
SlotDefaults == {"OUT_ON", None}

\* The part that does not move is in one of its initial states.
InputsAtRest == InputInit /\ \A p \in Pins : ~level[p]
SlotAtRest == Init /\ default = None /\ function = None /\ ~arguments

AllInit ==
    \/ part = "slot" /\ Init /\ InputsAtRest
    \/ part = "inputs" /\ InputInit /\ SlotAtRest

AllNext ==
    \/ part = "slot" /\ Next /\ UNCHANGED <<part, inputVars>>
    \/ part = "inputs" /\ InputNext /\ UNCHANGED <<part, vars>>

Moves(A) == part = "inputs" /\ A

AllFairness ==
    /\ WF_inputVars(Moves(Worker))
    /\ \A p \in Pins : WF_inputVars(Moves(Handler(p))) /\ WF_inputVars(Moves(Setup(p)))

AllSpec == AllInit /\ [][AllNext]_<<part, vars, inputVars>> /\ AllFairness
=============================================================================
