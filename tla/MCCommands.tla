----------------------------- MODULE MCCommands -----------------------------
(***************************************************************************)
(* The way of a command for TLC: LineInput, CommandPatterns, ScpiRegistry  *)
(* and DataQuery.  They share no state, so each behaviour moves one.       *)
(***************************************************************************)
EXTENDS ScpiRegistry, DataQuery, LineInput

CONSTANTS
    Letters, MaxDepth, MaxExpansions, Beginnings, MaxWritten \* of CommandPatterns

VARIABLES
    part,
    pattern, written                                         \* of CommandPatterns

patternVars == <<pattern, written>>

Patterns == INSTANCE CommandPatterns

\* Patterns that come to nested groups early.
MCBeginnings ==
    {<<>>, <<"(", "A", "|", "(", "A">>, <<"A", "[", "[", "[">>, <<"[", "A", "]", "(", "A", "|">>,
     <<"[", "(", "?", "|", "A", ")">>}

\* Literals, aliases that overlap, and tables that overlap themselves, each other or the limit.
MCWords == [a |-> {"k1"}, b |-> {"k1", "k2"}, c |-> {"k2", "k3"}, d |-> {"k3"}]
MCTables == {<<"a">>, <<"b">>, <<"a", "c">>, <<"d">>, <<"c", "d">>, <<"b", "d", "a">>}

PatternAtRest == pattern = <<>> /\ written = 0
LineAtRest == LineInit /\ transport = "usb"

AllInit ==
    /\ RegistryInit /\ QueryInit
    /\ \/ part \in {"registry", "query"} /\ LineAtRest /\ PatternAtRest
       \/ part = "line" /\ LineInit /\ PatternAtRest
       \/ part = "pattern" /\ Patterns!PatternInit /\ LineAtRest

AllNext ==
    \/ part = "registry" /\ RegistryNext /\ UNCHANGED <<part, lineVars, patternVars, queryVars>>
    \/ part = "line" /\ LineNext /\ UNCHANGED <<part, registryVars, patternVars, queryVars>>
    \/ part = "pattern" /\ Patterns!Write /\ UNCHANGED <<part, registryVars, lineVars, queryVars>>
    \/ part = "query" /\ QueryNext /\ UNCHANGED <<part, registryVars, lineVars, patternVars>>

\* The fairness of ScpiRegistry and of DataQuery.
AllFairness ==
    /\ \A r \in Registrars : WF_registryVars(part = "registry" /\ Call(r))
    /\ \A c \in Transports :
           /\ WF_queryVars(part = "query" /\ Proceed(c))
           /\ WF_queryVars(part = "query" /\ TakeLock(c))

AllSpec ==
    /\ AllInit /\ [][AllNext]_<<part, registryVars, lineVars, patternVars, queryVars>>
    /\ AllFairness

\* See CommandPatterns: what is accepted is of the grammar and within the limits, and what
\* is matched and visited is what the grammar says.
PatternsAreExact ==
    part = "pattern" => Patterns!AcceptedIsWellFormed /\ Patterns!MatchedIsExpanded

\* See ScpiRegistry and DataQuery: a registration ends, and only a client that does not
\* read its answer keeps a query from its end.
CommandsReturn == RegistrationReturns /\ QueryReturns
=============================================================================
