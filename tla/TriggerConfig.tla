--------------------------- MODULE TriggerConfig ---------------------------
(***************************************************************************)
(* One slot of trigger_config.c: the function that runs when a trigger     *)
(* input reaches a state.  A bind resolves the function, makes its action  *)
(* the slot's, stores the function and then its arguments in NVS, and      *)
(* puts the old action back when a store fails.  Binds run in the tasks of *)
(* the USB and the TCP session and take no lock; nvs_set_str and           *)
(* nvs_erase_key reach the flash at once, so power can fail between them.  *)
(*                                                                         *)
(* Slots share nothing, so a behaviour is that of one slot, with the       *)
(* default of trigger_config_set_default_mapping: OUT_ON, OUT_OFF or none. *)
(* The only arguments a function can have are "CH1".                       *)
(***************************************************************************)
EXTENDS Naturals, FiniteSets

CONSTANTS
    Clients,      \* sessions that bind
    Idle,         \* no bind in progress
    Functions,    \* function names that resolve
    ActionOf,     \* the action of a function: the three TIM_ functions share one
    Unknown,      \* a name that an older firmware stored and that does not resolve
    None,         \* no function, no action
    Defaults      \* what a slot can have for a default

ASSUME FunctionsAssumption ==
    /\ None \notin Functions /\ Unknown \notin Functions /\ Unknown # None
    /\ Defaults \subseteq Functions \cup {None}
    /\ DOMAIN ActionOf = Functions \cup {None} /\ ActionOf[None] = None

Mappings == Functions \cup {None}

VARIABLES
    default,      \* the slot's default mapping
    function,     \* the function key in NVS, None when it is missing
    arguments,    \* the arguments key is in NVS
    action,       \* the slot's action in trigger_svc
    current,      \* the slot's mapping in trigger_config
    call,         \* a client's bind
    raced,        \* history: the last change was by binds that overlapped
    torn          \* history: a failed bind has left NVS changed

vars == <<default, function, arguments, action, current, call, raced, torn>>

Binds == [at : {"resolved", "bound", "half", "stored"}, new : Mappings, old : {ActionOf[f] : f \in Mappings},
          alone : BOOLEAN]

ASSUME IdleAssumption == Idle \notin Binds

TypeOK ==
    /\ default \in Defaults /\ current \in Mappings
    /\ function \in Mappings \cup {Unknown} /\ arguments \in BOOLEAN
    /\ action \in {ActionOf[f] : f \in Mappings}
    /\ call \in [Clients -> Binds \cup {Idle}]
    /\ raced \in BOOLEAN /\ torn \in BOOLEAN

Binding == {c \in Clients : call[c] # Idle}

\* What a boot makes of the two keys: the default when there is no function, or when
\* the function does not resolve with the arguments there are.
Loaded == IF function \in Functions /\ arguments THEN function ELSE default

Init ==
    /\ default \in Defaults
    /\ function \in Mappings \cup {Unknown} /\ arguments \in BOOLEAN
    /\ current = Loaded
    /\ action = ActionOf[Loaded]
    /\ call = [c \in Clients |-> Idle]
    /\ raced = FALSE /\ torn = FALSE

\* The function resolves and the slot's action is read, to be put back on a failure.
Resolve(c, f) ==
    /\ call[c] = Idle
    /\ call' = [d \in Clients |->
           IF d = c THEN [at |-> "resolved", new |-> f, old |-> action, alone |-> Binding = {}]
           ELSE IF d \in Binding THEN [call[d] EXCEPT !.alone = FALSE]
           ELSE Idle]
    /\ raced' = (raced \/ Binding # {})
    /\ UNCHANGED <<default, function, arguments, action, current, torn>>

\* trigger_svc_set_action
Bind(c) ==
    /\ call[c] # Idle /\ call[c].at = "resolved"
    /\ action' = ActionOf[call[c].new]
    /\ call' = [call EXCEPT ![c].at = "bound"]
    /\ UNCHANGED <<default, function, arguments, current, raced, torn>>

\* The function key is set, or erased when the slot is cleared.
StoreFunction(c) ==
    /\ call[c] # Idle /\ call[c].at = "bound"
    /\ function' = call[c].new
    /\ call' = [call EXCEPT ![c].at = "half"]
    /\ UNCHANGED <<default, arguments, action, current, raced, torn>>

\* The arguments key is set or erased.
StoreArguments(c) ==
    /\ call[c] # Idle /\ call[c].at = "half"
    /\ arguments' = (call[c].new # None)
    /\ call' = [call EXCEPT ![c].at = "stored"]
    /\ UNCHANGED <<default, function, action, current, raced, torn>>

\* Mutant: a failed store does not put the old action back.
StoreFailsKeepingAction(c) ==
    /\ call[c] # Idle /\ call[c].at # "resolved"
    /\ call' = [call EXCEPT ![c] = Idle]
    /\ torn' = (torn \/ call[c].at # "bound")
    /\ UNCHANGED <<default, function, arguments, action, current, raced>>

\* nvs_open, either key or nvs_commit fails: the old action is put back and the bind
\* returns the error.  What reached NVS stays there.
StoreFails(c) ==
    /\ call[c] # Idle /\ call[c].at # "resolved"
    /\ action' = call[c].old
    /\ call' = [call EXCEPT ![c] = Idle]
    /\ torn' = (torn \/ call[c].at # "bound")
    /\ UNCHANGED <<default, function, arguments, current, raced>>

\* The mapping becomes the one TRIG:CONF? answers, and the bind returns.
Finish(c) ==
    /\ call[c] # Idle /\ call[c].at = "stored"
    /\ current' = call[c].new
    /\ call' = [call EXCEPT ![c] = Idle]
    /\ raced' = ~call[c].alone
    /\ torn' = (torn /\ ~call[c].alone)
    /\ UNCHANGED <<default, function, arguments, action>>

\* A power loss, and trigger_config_init of the next boot.
Restart ==
    /\ current' = Loaded
    /\ action' = ActionOf[Loaded]
    /\ call' = [c \in Clients |-> Idle]
    /\ raced' = FALSE /\ torn' = FALSE
    /\ UNCHANGED <<default, function, arguments>>

Next ==
    \/ \E c \in Clients :
           \/ \E f \in Mappings : Resolve(c, f)
           \/ Bind(c)
           \/ StoreFunction(c)
           \/ StoreArguments(c)
           \/ StoreFails(c)
           \/ Finish(c)
    \/ Restart

Spec == Init /\ [][Next]_vars
-----------------------------------------------------------------------------
(* Properties *)

\* The mapping a boot gives to a slot that was set to f: a cleared slot gets its
\* default back.
Booted(f) == IF f = None THEN default ELSE f

\* As long as binds do not overlap, the action that runs is that of the mapping
\* TRIG:CONF? answers, also after a bind that failed at any of its stores.
ActionIsOfMapping == Binding = {} /\ ~raced => action = ActionOf[current]

\* A power loss between any two steps of a bind leaves the mapping from before it or
\* the new one, never one made of both, nor one that does not resolve.
RestartKeepsOrCompletes ==
    ~raced /\ ~torn =>
        Loaded \in {Booted(current)} \cup {Booted(call[c].new) : c \in Binding}

\* In both, a slot has one whole mapping, at work and after the next boot.
MappingIsWhole == ActionIsOfMapping /\ RestartKeepsOrCompletes

\* trigger_config.h: "Any NVS error if persistence fails; runtime mapping is rolled
\* back in this case".  When every bind has returned, the action is that of the mapping.
FailureIsRolledBack == Binding = {} => action = ActionOf[current]

\* .doc/scpi-ref.md: "Trigger configuration is persisted in NVS."  When the last bind
\* has succeeded and met no other, a boot gives the slot the mapping it has.
MappingIsPersisted == Binding = {} /\ ~raced /\ ~torn => Loaded = current
=============================================================================
