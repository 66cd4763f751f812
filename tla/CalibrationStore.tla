--------------------------- MODULE CalibrationStore ---------------------------
(***************************************************************************)
(* What calibration promises its clients: one editing session at a time,   *)
(* tables that change all at once when a session is published, and a       *)
(* restart that loses the session but no published table.                  *)
(***************************************************************************)
EXTENDS Sequences, Naturals

CONSTANTS
    Targets,        \* the measurements that have a table
    Tables,         \* the tables that may be published
    Points,         \* the points an edit may store
    DefaultTable,   \* the table of a target that was never calibrated
    NoSession

VARIABLES
    active,         \* the table each measurement is corrected with
    session,        \* the table being edited, if any
    survivors       \* the tables a restart may bring up for each target

vars == <<active, session, survivors>>

Init ==
    /\ active \in [Targets -> Tables \union {DefaultTable}]
    /\ session = NoSession
    /\ survivors = [k \in Targets |-> {active[k]}]

Open ==
    /\ session = NoSession
    /\ \E k \in Targets : session' = [target |-> k, table |-> <<>>]
    /\ UNCHANGED <<active, survivors>>

\* A point replaces one of the table or extends it by one.
Edit ==
    /\ session # NoSession
    /\ \E p \in Points, i \in 1 .. Len(session.table) + 1 :
          session' = [session EXCEPT !.table =
              IF i > Len(@) THEN Append(@, p) ELSE [@ EXCEPT ![i] = p]]
    /\ UNCHANGED <<active, survivors>>

Clear ==
    /\ session # NoSession
    /\ session' = [session EXCEPT !.table = <<>>]
    /\ UNCHANGED <<active, survivors>>

\* A table that may be published is on its way to the store.
Try ==
    /\ session # NoSession
    /\ session.table \in Tables
    /\ survivors' = [survivors EXCEPT ![session.target] = @ \union {session.table}]
    /\ UNCHANGED <<active, session>>

Publish ==
    /\ session # NoSession
    /\ session.table \in Tables
    /\ active' = [active EXCEPT ![session.target] = session.table]
    /\ survivors' = [survivors EXCEPT ![session.target] = {session.table}]
    /\ session' = NoSession

Abort ==
    /\ session # NoSession
    /\ session' = NoSession
    /\ UNCHANGED <<active, survivors>>

Restart ==
    /\ session' = NoSession
    /\ active' \in [Targets -> UNION {survivors[k] : k \in Targets}]
    /\ \A k \in Targets : active'[k] \in survivors[k]
    /\ survivors' = [k \in Targets |-> {active'[k]}]

Next == Open \/ Edit \/ Clear \/ Try \/ Publish \/ Abort \/ Restart

Spec == Init /\ [][Next]_vars
=============================================================================
