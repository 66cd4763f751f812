---------------------------- MODULE ScpiRegistry ----------------------------
(***************************************************************************)
(* The run-time registry of SCPI commands: scpi_handler_registry.c and the *)
(* dispatch of scpi_handler.c.  Startup tasks register whole tables while  *)
(* transport tasks dispatch.  Overlaps are looked for in a snapshot taken  *)
(* under the spinlock, outside of it; a changed count makes it stale.      *)
(* An entry stands for a literal or a pattern, Words[e] for the keywords   *)
(* it matches (CommandPatterns says which those are).                      *)
(***************************************************************************)
EXTENDS Integers, Sequences

CONSTANTS
    Registrars,      \* tasks that register tables
    Dispatchers,     \* transport tasks
    Keywords,
    Entries,
    Words,           \* [Entries -> SUBSET Keywords]
    BuiltIn,         \* the keywords of the built-in modules
    Tables,          \* what is registered: sequences of entries
    Capacity         \* SCPI_HANDLER_MAX_REGISTERED_COMMANDS

ASSUME RegistryAssumption ==
    /\ Words \in [Entries -> SUBSET Keywords]
    /\ Tables \subseteq Seq(Entries)
    /\ Capacity \in Nat

VARIABLES
    commands,        \* s_commands, as many as s_command_count
    registration,    \* [Registrars -> the call of register_table under way]
    lookup           \* [Dispatchers -> the lookup under way]

registryVars == <<commands, registration, lookup>>

NoCall == [at |-> "idle", table |-> <<>>, snapshot |-> <<>>]
NoLookup == [at |-> "idle", keyword |-> "none", count |-> 0, i |-> 0, known |-> <<>>]

Registrations == [at : {"idle", "snapshot", "compare", "commit"}, table : Seq(Entries), snapshot : Seq(Entries)]
Lookups == [at : {"idle", "count", "look", "found", "unknown"}, keyword : Keywords \cup {"none"},
            count : Nat, i : Nat, known : Seq(Entries)]

RegistryTypeOK ==
    /\ commands \in Seq(Entries)
    /\ registration \in [Registrars -> Registrations]
    /\ lookup \in [Dispatchers -> Lookups]

RegistryInit ==
    /\ commands = <<>>
    /\ registration = [r \in Registrars |-> NoCall]
    /\ lookup = [d \in Dispatchers |-> NoLookup]

overlaps(e, f) == Words[e] \cap Words[f] # {}

\* Some entry of s matches a keyword that one of t matches.
SomeOverlap(s, t) == \E i \in DOMAIN s, j \in DOMAIN t : overlaps(s[i], t[j])

Disjoint(s) == \A i, j \in DOMAIN s : overlaps(s[i], s[j]) => i = j

\* register_table: an empty table, one that exceeds the registry or overlaps itself is
\* refused at once.
Register(r) ==
    /\ registration[r].at = "idle"
    /\ \E table \in Tables :
           /\ table # <<>> /\ Len(table) <= Capacity /\ Disjoint(table)
           /\ registration' = [registration EXCEPT ![r] =
                  [at |-> "snapshot", table |-> table, snapshot |-> <<>>]]
    /\ UNCHANGED <<commands, lookup>>

\* The first critical section.
TakeSnapshot(r) ==
    /\ registration[r].at = "snapshot"
    /\ registration' = [registration EXCEPT ![r].at = "compare", ![r].snapshot = commands]
    /\ UNCHANGED <<commands, lookup>>

Fits(r) ==
    /\ ~SomeOverlap(registration[r].table, registration[r].snapshot)
    /\ Len(registration[r].table) <= Capacity - Len(registration[r].snapshot)

\* ESP_ERR_INVALID_STATE or ESP_ERR_NO_MEM.
Refuse(r) ==
    /\ registration[r].at = "compare" /\ ~Fits(r)
    /\ registration' = [registration EXCEPT ![r] = NoCall]
    /\ UNCHANGED <<commands, lookup>>

Accept(r) ==
    /\ registration[r].at = "compare" /\ Fits(r)
    /\ registration' = [registration EXCEPT ![r].at = "commit"]
    /\ UNCHANGED <<commands, lookup>>

\* Mutant: what was registered since the snapshot is not looked for.
CommitStale(r) ==
    /\ registration[r].at = "commit"
    /\ commands' = commands \o registration[r].table
    /\ registration' = [registration EXCEPT ![r] = NoCall]
    /\ UNCHANGED lookup

\* The second critical section.
Commit(r) ==
    /\ registration[r].at = "commit"
    /\ Len(commands) = Len(registration[r].snapshot)
    /\ commands' = commands \o registration[r].table
    /\ registration' = [registration EXCEPT ![r] = NoCall]
    /\ UNCHANGED lookup

\* Another task has registered since: begin again.
Retry(r) ==
    /\ registration[r].at = "commit"
    /\ Len(commands) # Len(registration[r].snapshot)
    /\ registration' = [registration EXCEPT ![r].at = "snapshot"]
    /\ UNCHANGED <<commands, lookup>>

\* scpi_handler_handle_command: the built-in modules come first.
Receive(d) ==
    /\ lookup[d].at \in {"idle", "found", "unknown"}
    /\ \E keyword \in Keywords \ BuiltIn :
           lookup' = [lookup EXCEPT ![d] = [at |-> "count", keyword |-> keyword,
                          count |-> 0, i |-> 0, known |-> commands]]
    /\ UNCHANGED <<commands, registration>>

ReadCount(d) ==
    /\ lookup[d].at = "count"
    /\ lookup' = [lookup EXCEPT ![d].at = "look", ![d].count = Len(commands), ![d].i = 1]
    /\ UNCHANGED <<commands, registration>>

\* One turn of the loop: the entry is copied in a critical section of its own.
LookAt(d) ==
    /\ lookup[d].at = "look"
    /\ lookup' = [lookup EXCEPT
           ![d].at = IF lookup[d].i > lookup[d].count THEN "unknown"
                     ELSE IF lookup[d].keyword \in Words[commands[lookup[d].i]] THEN "found"
                     ELSE "look",
           ![d].i = IF @ <= lookup[d].count /\ lookup[d].keyword \notin Words[commands[@]] THEN @ + 1 ELSE @]
    /\ UNCHANGED <<commands, registration>>

Call(r) == TakeSnapshot(r) \/ Refuse(r) \/ Accept(r) \/ Commit(r) \/ Retry(r)

RegistryNext ==
    \/ \E r \in Registrars : Register(r) \/ Call(r)
    \/ \E d \in Dispatchers : Receive(d) \/ ReadCount(d) \/ LookAt(d)

\* A call under way is executed; nobody has to register or to send a command.
RegistrySpec ==
    /\ RegistryInit /\ [][RegistryNext]_registryVars
    /\ \A r \in Registrars : WF_registryVars(Call(r))
-----------------------------------------------------------------------------
\* scpi_handler.h, one half of it: no keyword has two handlers, however registrations overlap in time, and
\* there are never more entries than there is room for.
OneHandlerEach == Disjoint(commands) /\ Len(commands) <= Capacity

\* The other half: registration is safe alongside dispatch; a lookup finds only an entry that
\* matches, and any that had been registered when the command came.
LookupIsRight ==
    \A d \in Dispatchers :
        LET l == lookup[d] IN
        /\ l.at = "found" => l.i <= Len(commands) /\ l.keyword \in Words[commands[l.i]]
        /\ l.at = "unknown" => \A i \in DOMAIN l.known : l.keyword \notin Words[l.known[i]]

\* What a client and a module that registers rely on, at any moment of either.
RegistryIsSound == OneHandlerEach /\ LookupIsRight

\* A registration that keeps finding its snapshot stale comes to an end all the same: each
\* retry is another's success, and the registry is finite.
RegistrationReturns ==
    \A r \in Registrars : registration[r].at # "idle" ~> registration[r].at = "idle"
=============================================================================
