--------------------------- MODULE CommandsProofs ---------------------------
(***************************************************************************)
(* What clients and inputs ask of the instrument: the command registry and *)
(* the query of data, for any tasks, tables, capacities and transports,    *)
(* the line of a command, for any size of its buffer, and the trigger      *)
(* mappings and inputs, for any sessions, pins, functions and lengths of   *)
(* the queues.                                                             *)
(***************************************************************************)
EXTENDS ScpiRegistry, DataQuery, LineInput, TriggerConfig, TriggerInput, FiniteSetTheorems,
        SequenceTheorems, WellFoundedInduction, TLAPS

-----------------------------------------------------------------------------
(***************************************************************************)
(* ScpiRegistry.                                                           *)
(***************************************************************************)

\* The registry only grows, so what a task has copied of it stays its beginning.
Begins(s, t) == Len(s) <= Len(t) /\ \A i \in 1..Len(s) : s[i] = t[i]

\* A call has a table of its own that does not overlap itself; its snapshot is a beginning
\* of the registry, and before the commit the table was found to fit behind it.
CallInv ==
    \A r \in Registrars :
        LET c == registration[r] IN
        /\ c.at # "idle" => Disjoint(c.table)
        /\ c.at \in {"compare", "commit"} => Begins(c.snapshot, commands)
        /\ c.at = "commit" => Fits(r)

\* What was registered when the command came is among the entries counted, and those
\* before the one that is looked at do not match.
DispatchInv ==
    \A d \in Dispatchers :
        LET l == lookup[d] IN
        /\ l.at # "idle" => Begins(l.known, commands)
        /\ l.at = "look" =>
               /\ Len(l.known) <= l.count /\ l.count <= Len(commands)
               /\ l.i \in 1..(l.count + 1)
               /\ \A j \in 1..(l.i - 1) : l.keyword \notin Words[commands[j]]
        /\ l.at = "found" => l.i \in 1..Len(commands)

RegistryInv == RegistryTypeOK /\ OneHandlerEach /\ CallInv /\ DispatchInv /\ LookupIsRight
-----------------------------------------------------------------------------
LEMMA RegistryInitInv == RegistryInit => RegistryInv
<1> SUFFICES ASSUME RegistryInit PROVE RegistryInv
  OBVIOUS
<1> USE DEF RegistryInit, NoCall, NoLookup
<1>1. RegistryTypeOK
  BY DEF RegistryTypeOK, Registrations, Lookups
<1>2. OneHandlerEach
  BY RegistryAssumption DEF OneHandlerEach, Disjoint
<1>3. CallInv
  BY DEF CallInv
<1>4. DispatchInv /\ LookupIsRight
  BY DEF DispatchInv, LookupIsRight
<1> QED BY <1>1, <1>2, <1>3, <1>4 DEF RegistryInv

LEMMA BeginsItself == \A s \in Seq(Entries) : Begins(s, s)
BY DEF Begins

\* The end of a sequence put behind another.
LEMMA Behind ==
    ASSUME NEW s \in Seq(Entries), NEW t \in Seq(Entries)
    PROVE  /\ s \o t \in Seq(Entries)
           /\ Len(s \o t) = Len(s) + Len(t)
           /\ \A i \in 1..Len(s) : (s \o t)[i] = s[i]
           /\ \A i \in (Len(s) + 1)..(Len(s) + Len(t)) :
                  (s \o t)[i] = t[i - Len(s)] /\ i - Len(s) \in 1..Len(t)
OBVIOUS

LEMMA BeginsLonger ==
    ASSUME NEW s \in Seq(Entries), NEW t \in Seq(Entries), NEW u \in Seq(Entries), Begins(s, t)
    PROVE  Begins(s, t \o u)
BY Behind DEF Begins

\* A table that overlaps neither itself nor what stands before it keeps all entries apart.
LEMMA StaysDisjoint ==
    ASSUME NEW s \in Seq(Entries), NEW t \in Seq(Entries),
           Disjoint(s), Disjoint(t), ~SomeOverlap(t, s)
    PROVE  Disjoint(s \o t)
<1> SUFFICES ASSUME NEW i \in 1..(Len(s) + Len(t)), NEW j \in 1..(Len(s) + Len(t)),
                    overlaps((s \o t)[i], (s \o t)[j])
             PROVE  i = j
  BY Behind DEF Disjoint
<1>1. \A e, f \in Entries : overlaps(e, f) <=> overlaps(f, e)
  BY DEF overlaps
<1>2. CASE i <= Len(s) /\ j <= Len(s)
  BY <1>2, Behind DEF Disjoint
<1>3. CASE i > Len(s) /\ j > Len(s)
  <2>1. i - Len(s) \in DOMAIN t /\ j - Len(s) \in DOMAIN t
    BY <1>3
  <2>2. overlaps(t[i - Len(s)], t[j - Len(s)])
    BY <1>3, Behind
  <2>3. i - Len(s) = j - Len(s)
    BY <2>1, <2>2 DEF Disjoint
  <2> QED BY <2>3
<1>4. CASE i > Len(s) /\ j <= Len(s)
  <2>1. i - Len(s) \in DOMAIN t /\ j \in DOMAIN s
    BY <1>4
  <2>2. overlaps(t[i - Len(s)], s[j])
    BY <1>4, Behind
  <2> QED BY <2>1, <2>2 DEF SomeOverlap
<1>5. CASE i <= Len(s) /\ j > Len(s)
  <2>1. j - Len(s) \in DOMAIN t /\ i \in DOMAIN s
    BY <1>5
  <2>2. overlaps(s[i], t[j - Len(s)])
    BY <1>5, Behind
  <2>3. overlaps(t[j - Len(s)], s[i])
    BY <2>1, <2>2 DEF overlaps
  <2> QED BY <2>1, <2>3 DEF SomeOverlap
<1> QED BY <1>2, <1>3, <1>4, <1>5
-----------------------------------------------------------------------------
(* Steps *)

\* What a step that leaves the registry and the lookups alone has to show.
LEMMA QuietRegistrar ==
    ASSUME RegistryInv, NEW r \in Registrars, NEW entry \in Registrations,
           registration' = [registration EXCEPT ![r] = entry],
           UNCHANGED <<commands, lookup>>,
           entry.at # "idle" => Disjoint(entry.table),
           entry.at \in {"compare", "commit"} => Begins(entry.snapshot, commands),
           entry.at = "commit" =>
               /\ ~SomeOverlap(entry.table, entry.snapshot)
               /\ Len(entry.table) <= Capacity - Len(entry.snapshot)
    PROVE  RegistryInv'
<1>1. RegistryTypeOK'
  BY DEF RegistryInv, RegistryTypeOK
<1>2. CallInv'
  <2> SUFFICES ASSUME NEW q \in Registrars
               PROVE  LET c == registration'[q] IN
                      /\ c.at # "idle" => Disjoint(c.table)
                      /\ c.at \in {"compare", "commit"} => Begins(c.snapshot, commands')
                      /\ c.at = "commit" => Fits(q)'
    BY DEF CallInv
  <2>1. CASE q = r
    <3>1. registration'[q] = entry
      BY <2>1 DEF RegistryInv, RegistryTypeOK
    <3> QED BY <3>1 DEF Fits
  <2>2. CASE q # r
    <3>1. registration'[q] = registration[q]
      BY <2>2 DEF RegistryInv, RegistryTypeOK
    <3> QED BY <3>1 DEF Fits, RegistryInv, CallInv
  <2> QED BY <2>1, <2>2
<1>3. OneHandlerEach' /\ DispatchInv' /\ LookupIsRight'
  BY DEF RegistryInv, OneHandlerEach, DispatchInv, LookupIsRight
<1> QED BY <1>1, <1>2, <1>3 DEF RegistryInv

LEMMA RegisterInv ==
    ASSUME RegistryInv, NEW r \in Registrars, Register(r) PROVE RegistryInv'
<1>1. PICK table \in Tables :
          /\ Disjoint(table)
          /\ registration' = [registration EXCEPT ![r] =
                 [at |-> "snapshot", table |-> table, snapshot |-> <<>>]]
  BY DEF Register
<1>2. [at |-> "snapshot", table |-> table, snapshot |-> <<>>] \in Registrations
  BY RegistryAssumption DEF Registrations
<1> QED BY <1>1, <1>2, QuietRegistrar DEF Register

\* The call under way, as the invariant knows it.
LEMMA OfCall ==
    ASSUME RegistryInv, NEW r \in Registrars
    PROVE  /\ registration[r] \in Registrations
           /\ registration[r].table \in Seq(Entries) /\ registration[r].snapshot \in Seq(Entries)
           /\ registration[r].at # "idle" => Disjoint(registration[r].table)
           /\ registration[r].at \in {"compare", "commit"} => Begins(registration[r].snapshot, commands)
           /\ commands \in Seq(Entries)
BY DEF RegistryInv, RegistryTypeOK, Registrations, CallInv

LEMMA TakeSnapshotInv ==
    ASSUME RegistryInv, NEW r \in Registrars, TakeSnapshot(r) PROVE RegistryInv'
<1> DEFINE compared == [registration[r] EXCEPT !.at = "compare"]
           entry == [compared EXCEPT !.snapshot = commands]
<1>0. compared = [at |-> "compare", table |-> registration[r].table,
                  snapshot |-> registration[r].snapshot]
  BY OfCall DEF Registrations
<1>1. entry = [at |-> "compare", table |-> registration[r].table, snapshot |-> commands]
  <2> HIDE DEF compared
  <2> QED BY <1>0
<1>2. entry \in Registrations
  BY <1>1, OfCall DEF Registrations
<1>3. registration' = [registration EXCEPT ![r] = entry]
  BY DEF TakeSnapshot, RegistryInv, RegistryTypeOK
<1>4. Disjoint(entry.table) /\ Begins(entry.snapshot, commands)
  BY <1>1, OfCall, BeginsItself DEF TakeSnapshot
<1> HIDE DEF entry
<1> QED BY <1>1, <1>2, <1>3, <1>4, QuietRegistrar DEF TakeSnapshot

LEMMA RefuseInv ==
    ASSUME RegistryInv, NEW r \in Registrars, Refuse(r) PROVE RegistryInv'
<1>1. NoCall \in Registrations /\ NoCall.at = "idle"
  BY DEF NoCall, Registrations
<1> QED BY <1>1, QuietRegistrar DEF Refuse

LEMMA AcceptInv ==
    ASSUME RegistryInv, NEW r \in Registrars, Accept(r) PROVE RegistryInv'
<1> DEFINE entry == [registration[r] EXCEPT !.at = "commit"]
<1>1. entry = [at |-> "commit", table |-> registration[r].table, snapshot |-> registration[r].snapshot]
  BY OfCall DEF Registrations
<1>2. entry \in Registrations
  BY <1>1, OfCall DEF Registrations
<1>3. registration' = [registration EXCEPT ![r] = entry]
  BY DEF Accept, RegistryInv, RegistryTypeOK
<1>4. /\ Disjoint(entry.table) /\ Begins(entry.snapshot, commands)
      /\ ~SomeOverlap(entry.table, entry.snapshot)
      /\ Len(entry.table) <= Capacity - Len(entry.snapshot)
  BY <1>1, OfCall DEF Accept, Fits
<1> HIDE DEF entry
<1> QED BY <1>2, <1>3, <1>4, QuietRegistrar DEF Accept

LEMMA RetryInv ==
    ASSUME RegistryInv, NEW r \in Registrars, Retry(r) PROVE RegistryInv'
<1> DEFINE entry == [registration[r] EXCEPT !.at = "snapshot"]
<1>1. entry = [at |-> "snapshot", table |-> registration[r].table, snapshot |-> registration[r].snapshot]
  BY OfCall DEF Registrations
<1>2. entry \in Registrations
  BY <1>1, OfCall DEF Registrations
<1>3. registration' = [registration EXCEPT ![r] = entry]
  BY DEF Retry, RegistryInv, RegistryTypeOK
<1>4. Disjoint(entry.table) /\ entry.at = "snapshot"
  BY <1>1, OfCall DEF Retry
<1> HIDE DEF entry
<1> QED BY <1>2, <1>3, <1>4, QuietRegistrar DEF Retry

\* A count that is as it was means that the snapshot is the registry.
LEMMA CommitInv ==
    ASSUME RegistryInv, NEW r \in Registrars, Commit(r) PROVE RegistryInv'
<1> DEFINE table == registration[r].table
<1>1. /\ registration[r].at = "commit" /\ commands' = commands \o table
      /\ registration' = [registration EXCEPT ![r] = NoCall] /\ lookup' = lookup
  BY DEF Commit
<1>2. registration[r].snapshot = commands
  <2> DEFINE snapshot == registration[r].snapshot
  <2>1. snapshot \in Seq(Entries) /\ commands \in Seq(Entries)
    BY OfCall
  <2>2. Len(snapshot) = Len(commands) /\ \A i \in 1..Len(snapshot) : snapshot[i] = commands[i]
    BY <1>1, OfCall DEF Commit, Begins
  <2> HIDE DEF snapshot
  <2>3. snapshot = commands
    BY <2>1, <2>2, SeqEqual
  <2> QED BY <2>3 DEF snapshot
<1>3. commands \in Seq(Entries) /\ table \in Seq(Entries) /\ commands' \in Seq(Entries)
  BY <1>1, OfCall, Behind
<1>4. RegistryTypeOK'
  <2>1. NoCall \in Registrations
    BY DEF NoCall, Registrations
  <2> QED BY <2>1, <1>1, <1>3 DEF RegistryInv, RegistryTypeOK
<1>5. OneHandlerEach'
  <2>1. Disjoint(commands) /\ Disjoint(table) /\ ~SomeOverlap(table, commands)
        /\ Len(table) <= Capacity - Len(commands)
    BY <1>1, <1>2, OfCall DEF RegistryInv, OneHandlerEach, CallInv, Fits
  <2>2. Disjoint(commands \o table)
    BY <2>1, <1>3, StaysDisjoint
  <2>3. Len(commands \o table) <= Capacity
    BY <2>1, <1>3, Behind, RegistryAssumption
  <2> QED BY <2>2, <2>3, <1>1 DEF OneHandlerEach
<1>6. \A s \in Seq(Entries) : Begins(s, commands) => Begins(s, commands')
  BY <1>1, <1>3, BeginsLonger
<1>7. CallInv'
  <2> SUFFICES ASSUME NEW q \in Registrars
               PROVE  LET c == registration'[q] IN
                      /\ c.at # "idle" => Disjoint(c.table)
                      /\ c.at \in {"compare", "commit"} => Begins(c.snapshot, commands')
                      /\ c.at = "commit" => Fits(q)'
    BY DEF CallInv
  <2>1. CASE q = r
    BY <2>1, <1>1 DEF RegistryInv, RegistryTypeOK, NoCall
  <2>2. CASE q # r
    <3>1. registration'[q] = registration[q]
      BY <2>2, <1>1 DEF RegistryInv, RegistryTypeOK
    <3> QED BY <3>1, <1>6, OfCall DEF Fits, RegistryInv, CallInv
  <2> QED BY <2>1, <2>2
<1>8. Len(commands) <= Len(commands') /\ \A i \in 1..Len(commands) : commands'[i] = commands[i]
  BY <1>1, <1>3, Behind
<1>9. DispatchInv' /\ LookupIsRight'
  <2> SUFFICES ASSUME NEW d \in Dispatchers
               PROVE  LET l == lookup[d] IN
        /\ l.at # "idle" => Begins(l.known, commands')
        /\ l.at = "look" =>
               /\ Len(l.known) <= l.count /\ l.count <= Len(commands')
               /\ l.i \in 1..(l.count + 1)
               /\ \A j \in 1..(l.i - 1) : l.keyword \notin Words[commands'[j]]
        /\ l.at = "found" => l.i \in 1..Len(commands')
        /\ l.at = "found" => l.i <= Len(commands') /\ l.keyword \in Words[commands'[l.i]]
        /\ l.at = "unknown" => \A i \in DOMAIN l.known : l.keyword \notin Words[l.known[i]]
    BY <1>1 DEF DispatchInv, LookupIsRight
  <2>1. lookup[d] \in Lookups
    BY DEF RegistryInv, RegistryTypeOK
  <2>2. lookup[d].known \in Seq(Entries) /\ lookup[d].count \in Nat /\ lookup[d].i \in Nat
    BY <2>1 DEF Lookups
  <2>3. Len(commands) \in Nat /\ Len(commands') \in Nat
    BY <1>3
  <2> QED BY <2>2, <2>3, <1>6, <1>8 DEF RegistryInv, DispatchInv, LookupIsRight
<1> QED BY <1>4, <1>5, <1>7, <1>9 DEF RegistryInv
-----------------------------------------------------------------------------
\* What a step of a lookup has to show.
LEMMA QuietDispatcher ==
    ASSUME RegistryInv, NEW d \in Dispatchers, NEW l \in Lookups,
           lookup' = [lookup EXCEPT ![d] = l],
           UNCHANGED <<commands, registration>>,
           l.at # "idle" => Begins(l.known, commands),
           l.at = "look" =>
               /\ Len(l.known) <= l.count /\ l.count <= Len(commands)
               /\ l.i \in 1..(l.count + 1)
               /\ \A j \in 1..(l.i - 1) : l.keyword \notin Words[commands[j]],
           l.at = "found" => l.i \in 1..Len(commands) /\ l.keyword \in Words[commands[l.i]],
           l.at = "unknown" => \A i \in DOMAIN l.known : l.keyword \notin Words[l.known[i]]
    PROVE  RegistryInv'
<1>1. RegistryTypeOK'
  BY DEF RegistryInv, RegistryTypeOK
<1>2. OneHandlerEach' /\ CallInv'
  BY DEF RegistryInv, OneHandlerEach, CallInv, Fits
<1>3. \A e \in Dispatchers : lookup'[e] = IF e = d THEN l ELSE lookup[e]
  BY DEF RegistryInv, RegistryTypeOK
<1>4. DispatchInv'
  BY <1>3 DEF RegistryInv, DispatchInv
<1>5. LookupIsRight'
  <2>1. Len(commands) \in Nat
    BY DEF RegistryInv, RegistryTypeOK
  <2> QED BY <1>3, <2>1 DEF RegistryInv, LookupIsRight
<1> QED BY <1>1, <1>2, <1>4, <1>5 DEF RegistryInv

\* The lookup under way, as the invariant knows it.
LEMMA OfLookup ==
    ASSUME RegistryInv, NEW d \in Dispatchers
    PROVE  /\ lookup[d] \in Lookups /\ commands \in Seq(Entries)
           /\ lookup[d].known \in Seq(Entries)
           /\ lookup[d].count \in Nat /\ lookup[d].i \in Nat
           /\ lookup[d].keyword \in Keywords \cup {"none"}
           /\ lookup[d].at # "idle" => Begins(lookup[d].known, commands)
BY DEF RegistryInv, RegistryTypeOK, Lookups, DispatchInv

LEMMA ReceiveInv ==
    ASSUME RegistryInv, NEW d \in Dispatchers, Receive(d) PROVE RegistryInv'
<1>1. PICK keyword \in Keywords \ BuiltIn :
          lookup' = [lookup EXCEPT ![d] = [at |-> "count", keyword |-> keyword,
                         count |-> 0, i |-> 0, known |-> commands]]
  BY DEF Receive
<1>2. [at |-> "count", keyword |-> keyword, count |-> 0, i |-> 0, known |-> commands] \in Lookups
  BY OfLookup DEF Lookups
<1>3. Begins(commands, commands)
  BY OfLookup, BeginsItself
<1> QED BY <1>1, <1>2, <1>3, QuietDispatcher DEF Receive

LEMMA ReadCountInv ==
    ASSUME RegistryInv, NEW d \in Dispatchers, ReadCount(d) PROVE RegistryInv'
<1> DEFINE l == [at |-> "look", keyword |-> lookup[d].keyword, count |-> Len(commands), i |-> 1,
                 known |-> lookup[d].known]
           looking == [lookup[d] EXCEPT !.at = "look"]
           counted == [looking EXCEPT !.count = Len(commands)]
<1>1. looking = [at |-> "look", keyword |-> lookup[d].keyword, count |-> lookup[d].count,
                 i |-> lookup[d].i, known |-> lookup[d].known]
  BY OfLookup DEF Lookups
<1>2. counted = [at |-> "look", keyword |-> lookup[d].keyword, count |-> Len(commands),
                 i |-> lookup[d].i, known |-> lookup[d].known]
  <2> HIDE DEF looking
  <2> QED BY <1>1
<1>3. [counted EXCEPT !.i = 1] = l
  <2> HIDE DEF counted
  <2> QED BY <1>2
<1>4. lookup' = [lookup EXCEPT ![d] = [counted EXCEPT !.i = 1]]
  BY DEF ReadCount, RegistryInv, RegistryTypeOK
<1>5. l \in Lookups
  BY OfLookup DEF Lookups
<1>6. Begins(l.known, commands) /\ Len(l.known) <= Len(commands) /\ Len(commands) \in Nat
  BY OfLookup DEF ReadCount, Begins
<1> HIDE DEF l, counted
<1>7. lookup' = [lookup EXCEPT ![d] = l]
  BY <1>3, <1>4
<1>8. l.at = "look" /\ l.count = Len(commands) /\ l.i = 1
  BY DEF l
<1>9. /\ Len(l.known) <= l.count /\ l.count <= Len(commands)
      /\ l.i \in 1..(l.count + 1)
      /\ \A j \in 1..(l.i - 1) : l.keyword \notin Words[commands[j]]
  BY <1>6, <1>8
<1>10. UNCHANGED <<commands, registration>>
  BY DEF ReadCount
<1>11. Begins(l.known, commands)
  BY <1>6
<1>12. l.at # "found" /\ l.at # "unknown"
  BY <1>8
<1> QED BY <1>5, <1>7, <1>9, <1>10, <1>11, <1>12, QuietDispatcher

LEMMA LookAtInv ==
    ASSUME RegistryInv, NEW d \in Dispatchers, LookAt(d) PROVE RegistryInv'
<1> DEFINE m == lookup[d]
           next == IF m.i > m.count THEN "unknown"
                 ELSE IF m.keyword \in Words[commands[m.i]] THEN "found" ELSE "look"
           i == IF m.i <= m.count /\ m.keyword \notin Words[commands[m.i]] THEN m.i + 1 ELSE m.i
           l == [at |-> next, keyword |-> m.keyword, count |-> m.count, i |-> i, known |-> m.known]
           seen == [lookup[d] EXCEPT !.at = next]
<1>1. seen = [at |-> next, keyword |-> m.keyword, count |-> m.count, i |-> m.i, known |-> m.known]
  <2> HIDE DEF next
  <2> QED BY OfLookup DEF Lookups
<1>2. [seen EXCEPT !.i = i] = l
  <2> HIDE DEF seen, next, i
  <2> QED BY <1>1
<1>3. lookup' = [lookup EXCEPT ![d] = [seen EXCEPT !.i = i]]
  BY DEF LookAt, RegistryInv, RegistryTypeOK
<1>4. /\ m.known \in Seq(Entries) /\ commands \in Seq(Entries)
      /\ m.count \in Nat /\ m.i \in Nat /\ m.keyword \in Keywords \cup {"none"}
      /\ Begins(m.known, commands)
      /\ Len(m.known) <= m.count /\ m.count <= Len(commands)
      /\ m.i \in 1..(m.count + 1)
      /\ \A j \in 1..(m.i - 1) : m.keyword \notin Words[commands[j]]
  BY OfLookup DEF LookAt, RegistryInv, DispatchInv
<1>5. next \in {"found", "look", "unknown"} /\ i \in Nat
  BY <1>4
<1>6. next = "look" => i \in 1..(m.count + 1) /\ \A j \in 1..(i - 1) : m.keyword \notin Words[commands[j]]
  BY <1>4
<1>7. next = "found" => i \in 1..Len(commands) /\ m.keyword \in Words[commands[i]]
  BY <1>4
<1>8. next = "unknown" => \A k \in DOMAIN m.known : m.keyword \notin Words[m.known[k]]
  <2> SUFFICES ASSUME next = "unknown", NEW k \in DOMAIN m.known
               PROVE  m.keyword \notin Words[m.known[k]]
    OBVIOUS
  <2>1. m.i > m.count
    OBVIOUS
  <2> HIDE DEF m, next, i
  <2>2. k \in 1..Len(m.known) /\ m.known[k] = commands[k]
    <3>1. DOMAIN m.known = 1..Len(m.known)
      BY <1>4
    <3>2. \A n \in 1..Len(m.known) : m.known[n] = commands[n]
      BY <1>4 DEF Begins
    <3> QED BY <3>1, <3>2
  <2>3. k \in 1..(m.i - 1)
    BY <1>4, <2>1, <2>2
  <2> QED BY <1>4, <2>2, <2>3
<1> HIDE DEF m, next, i, seen
<1>9. l \in Lookups
  BY <1>4, <1>5 DEF Lookups
<1>10. lookup' = [lookup EXCEPT ![d] = l]
  BY <1>2, <1>3
<1>11. /\ l.at = next /\ l.keyword = m.keyword /\ l.count = m.count
       /\ l.i = i /\ l.known = m.known
  OBVIOUS
<1> HIDE DEF l
<1>12. Begins(l.known, commands)
  BY <1>4, <1>11
<1>13. l.at = "look" =>
           /\ Len(l.known) <= l.count /\ l.count <= Len(commands)
           /\ l.i \in 1..(l.count + 1)
           /\ \A j \in 1..(l.i - 1) : l.keyword \notin Words[commands[j]]
  BY <1>4, <1>6, <1>11
<1>14. l.at = "found" => l.i \in 1..Len(commands) /\ l.keyword \in Words[commands[l.i]]
  BY <1>7, <1>11
<1>15. l.at = "unknown" => \A k \in DOMAIN l.known : l.keyword \notin Words[l.known[k]]
  BY <1>8, <1>11
<1>16. UNCHANGED <<commands, registration>>
  BY DEF LookAt
<1> QED BY <1>9, <1>10, <1>12, <1>13, <1>14, <1>15, <1>16, QuietDispatcher

LEMMA RegistryNextInv == RegistryInv /\ [RegistryNext]_registryVars => RegistryInv'
<1> SUFFICES ASSUME RegistryInv, [RegistryNext]_registryVars PROVE RegistryInv'
  OBVIOUS
<1>1. ASSUME NEW r \in Registrars, Register(r) \/ Call(r) PROVE RegistryInv'
  BY <1>1, RegisterInv, TakeSnapshotInv, RefuseInv, AcceptInv, CommitInv, RetryInv DEF Call
<1>2. ASSUME NEW d \in Dispatchers, Receive(d) \/ ReadCount(d) \/ LookAt(d) PROVE RegistryInv'
  BY <1>2, ReceiveInv, ReadCountInv, LookAtInv
<1>3. CASE UNCHANGED registryVars
  BY <1>3 DEF registryVars, RegistryInv, RegistryTypeOK, OneHandlerEach, CallInv, Fits, DispatchInv,
      LookupIsRight
<1> QED BY <1>1, <1>2, <1>3 DEF RegistryNext
-----------------------------------------------------------------------------
\* register_table and scpi_handler_handle_command: whatever modules register while commands
\* are dispatched, no keyword has two handlers and a lookup finds its own.
THEOREM RegistryCorrect == RegistrySpec => []RegistryIsSound
<1>1. RegistryInv => RegistryIsSound
  BY DEF RegistryInv, RegistryIsSound
<1> QED BY <1>1, RegistryInitInv, RegistryNextInv, PTL DEF RegistrySpec

\* Every variable keeps its type.
THEOREM RegistryTypeCorrect == RegistrySpec => []RegistryTypeOK
<1>1. RegistryInv => RegistryTypeOK
  BY DEF RegistryInv
<1> QED BY <1>1, RegistryInitInv, RegistryNextInv, PTL DEF RegistrySpec

-----------------------------------------------------------------------------
(***************************************************************************)
(* DataQuery.  Every query that has come past the making of the mutex goes *)
(* by the one there is, so one at a time touches the buffers.              *)
(***************************************************************************)

Holding(c) == at[c] \in {"allocate", "copy", "encode", "send"}

\* A query that has come past the making of the mutex goes by the one there is, and what
\* touches the buffers owns it.
MutexInv ==
    \A c \in Transports :
        /\ at[c] = "take" \/ Holding(c) => local[c] # "null" /\ local[c] = handle
        /\ Holding(c) => owner[local[c]] = c

\* From the copy on the array is the query's, and from the encoding on the buffer.
BufferInv ==
    \A c \in Transports :
        /\ at[c] = "encode" => data_samples = Own(c)
        /\ at[c] = "send" => response = Own(c)

QueryInv == QueryTypeOK /\ MutexInv /\ BufferInv /\ AnswerIsOwn
-----------------------------------------------------------------------------
LEMMA QueryInitInv == QueryInit => QueryInv
BY QueryAssumption DEF QueryInit, QueryInv, QueryTypeOK, MutexInv, BufferInv, AnswerIsOwn, Holding

LEMMA QueryTypeInv == QueryTypeOK /\ [QueryNext]_queryVars => QueryTypeOK'
<1> SUFFICES ASSUME QueryTypeOK, [QueryNext]_queryVars PROVE QueryTypeOK'
  OBVIOUS
<1> USE QueryAssumption DEF QueryTypeOK, sharedVars, Goto, Give
<1>1. ASSUME NEW c \in Transports, Query(c) PROVE QueryTypeOK'
  BY <1>1 DEF Query
<1>2. ASSUME NEW c \in Transports, MakeLock(c) PROVE QueryTypeOK'
  BY <1>2 DEF MakeLock
<1>3. ASSUME NEW c \in Transports, NoMutex(c) PROVE QueryTypeOK'
  BY <1>3 DEF NoMutex
<1>4. ASSUME NEW c \in Transports, TakeLock(c) PROVE QueryTypeOK'
  BY <1>4 DEF TakeLock
<1>5. ASSUME NEW c \in Transports, Allocate(c) PROVE QueryTypeOK'
  BY <1>5 DEF Allocate
<1>6. ASSUME NEW c \in Transports, NoMemory(c) PROVE QueryTypeOK'
  BY <1>6 DEF NoMemory
<1>7. ASSUME NEW c \in Transports, Copy(c) PROVE QueryTypeOK'
  BY <1>7 DEF Copy, Own
<1>8. ASSUME NEW c \in Transports, CopyFails(c) PROVE QueryTypeOK'
  BY <1>8 DEF CopyFails
<1>9. ASSUME NEW c \in Transports, Encode(c) PROVE QueryTypeOK'
  BY <1>9 DEF Encode
<1>10. ASSUME NEW c \in Transports, Send(c) PROVE QueryTypeOK'
  BY <1>10 DEF Send
<1>11. ASSUME NEW c \in Transports, GiveUpSending(c) PROVE QueryTypeOK'
  BY <1>11 DEF GiveUpSending
<1>12. ASSUME NEW c \in Transports, Sent(c) PROVE QueryTypeOK'
  BY <1>12 DEF Sent
<1>13. ASSUME NEW c \in Transports, Client(c) PROVE QueryTypeOK'
  BY <1>13 DEF Client
<1>14. CASE UNCHANGED queryVars
  BY <1>14 DEF queryVars
<1> QED BY <1>1, <1>2, <1>3, <1>4, <1>5, <1>6, <1>7, <1>8, <1>9, <1>10, <1>11, <1>12, <1>13, <1>14
        DEF QueryNext, Proceed

\* Two queries do not hold the mutex at once.
LEMMA OneHolder ==
    ASSUME MutexInv, NEW c \in Transports, NEW d \in Transports, Holding(c), Holding(d)
    PROVE  c = d
BY DEF MutexInv

LEMMA QueryMutexInv == QueryTypeOK /\ MutexInv /\ [QueryNext]_queryVars => MutexInv'
<1> SUFFICES ASSUME QueryTypeOK, MutexInv, [QueryNext]_queryVars PROVE MutexInv'
  OBVIOUS
<1> USE QueryAssumption DEF QueryTypeOK, MutexInv, Holding, sharedVars, Goto, Give
<1>1. ASSUME NEW c \in Transports, Query(c) PROVE MutexInv'
  BY <1>1 DEF Query
<1>2. ASSUME NEW c \in Transports, MakeLock(c) PROVE MutexInv'
  BY <1>2 DEF MakeLock
<1>3. ASSUME NEW c \in Transports, NoMutex(c) PROVE MutexInv'
  BY <1>3 DEF NoMutex
<1>4. ASSUME NEW c \in Transports, TakeLock(c) PROVE MutexInv'
  BY <1>4 DEF TakeLock
<1>5. ASSUME NEW c \in Transports, Allocate(c) PROVE MutexInv'
  BY <1>5 DEF Allocate
<1>6. ASSUME NEW c \in Transports, NoMemory(c) PROVE MutexInv'
  BY <1>6 DEF NoMemory
<1>7. ASSUME NEW c \in Transports, Copy(c) PROVE MutexInv'
  BY <1>7 DEF Copy
<1>8. ASSUME NEW c \in Transports, CopyFails(c) PROVE MutexInv'
  BY <1>8 DEF CopyFails
<1>9. ASSUME NEW c \in Transports, Encode(c) PROVE MutexInv'
  BY <1>9 DEF Encode
<1>10. ASSUME NEW c \in Transports, Send(c) PROVE MutexInv'
  BY <1>10 DEF Send
<1>11. ASSUME NEW c \in Transports, GiveUpSending(c) PROVE MutexInv'
  BY <1>11 DEF GiveUpSending
<1>12. ASSUME NEW c \in Transports, Sent(c) PROVE MutexInv'
  BY <1>12 DEF Sent
<1>13. ASSUME NEW c \in Transports, Client(c) PROVE MutexInv'
  BY <1>13 DEF Client
<1>14. CASE UNCHANGED queryVars
  BY <1>14 DEF queryVars
<1> QED BY <1>1, <1>2, <1>3, <1>4, <1>5, <1>6, <1>7, <1>8, <1>9, <1>10, <1>11, <1>12, <1>13, <1>14
        DEF QueryNext, Proceed

LEMMA QueryBufferInv == QueryInv /\ [QueryNext]_queryVars => BufferInv'
<1> SUFFICES ASSUME QueryTypeOK, MutexInv, BufferInv, [QueryNext]_queryVars PROVE BufferInv'
  BY DEF QueryInv
<1> USE OneHolder DEF QueryTypeOK, BufferInv, Holding, Own, sharedVars, Goto, Give
<1>1. ASSUME NEW c \in Transports, Query(c) PROVE BufferInv'
  BY <1>1 DEF Query
<1>2. ASSUME NEW c \in Transports, MakeLock(c) PROVE BufferInv'
  BY <1>2 DEF MakeLock
<1>3. ASSUME NEW c \in Transports, NoMutex(c) PROVE BufferInv'
  BY <1>3 DEF NoMutex
<1>4. ASSUME NEW c \in Transports, TakeLock(c) PROVE BufferInv'
  BY <1>4 DEF TakeLock
<1>5. ASSUME NEW c \in Transports, Allocate(c) PROVE BufferInv'
  BY <1>5 DEF Allocate
<1>6. ASSUME NEW c \in Transports, NoMemory(c) PROVE BufferInv'
  BY <1>6 DEF NoMemory
<1>7. ASSUME NEW c \in Transports, Copy(c) PROVE BufferInv'
  BY <1>7 DEF Copy
<1>8. ASSUME NEW c \in Transports, CopyFails(c) PROVE BufferInv'
  BY <1>8 DEF CopyFails
<1>9. ASSUME NEW c \in Transports, Encode(c) PROVE BufferInv'
  BY <1>9 DEF Encode
<1>10. ASSUME NEW c \in Transports, Send(c) PROVE BufferInv'
  BY <1>10 DEF Send
<1>11. ASSUME NEW c \in Transports, GiveUpSending(c) PROVE BufferInv'
  BY <1>11 DEF GiveUpSending
<1>12. ASSUME NEW c \in Transports, Sent(c) PROVE BufferInv'
  BY <1>12 DEF Sent
<1>13. ASSUME NEW c \in Transports, Client(c) PROVE BufferInv'
  BY <1>13 DEF Client
<1>14. CASE UNCHANGED queryVars
  BY <1>14 DEF queryVars
<1> QED BY <1>1, <1>2, <1>3, <1>4, <1>5, <1>6, <1>7, <1>8, <1>9, <1>10, <1>11, <1>12, <1>13, <1>14
        DEF QueryNext, Proceed

LEMMA QueryAnswerInv == QueryInv /\ [QueryNext]_queryVars => AnswerIsOwn'
<1> SUFFICES ASSUME QueryTypeOK, BufferInv, AnswerIsOwn, [QueryNext]_queryVars PROVE AnswerIsOwn'
  BY DEF QueryInv
<1> USE DEF QueryTypeOK, BufferInv, AnswerIsOwn, Own, sharedVars, Goto, Give
<1>1. ASSUME NEW c \in Transports, Query(c) PROVE AnswerIsOwn'
  BY <1>1 DEF Query
<1>2. ASSUME NEW c \in Transports, MakeLock(c) PROVE AnswerIsOwn'
  BY <1>2 DEF MakeLock
<1>3. ASSUME NEW c \in Transports, NoMutex(c) PROVE AnswerIsOwn'
  BY <1>3 DEF NoMutex
<1>4. ASSUME NEW c \in Transports, TakeLock(c) PROVE AnswerIsOwn'
  BY <1>4 DEF TakeLock
<1>5. ASSUME NEW c \in Transports, Allocate(c) PROVE AnswerIsOwn'
  BY <1>5 DEF Allocate
<1>6. ASSUME NEW c \in Transports, NoMemory(c) PROVE AnswerIsOwn'
  BY <1>6 DEF NoMemory
<1>7. ASSUME NEW c \in Transports, Copy(c) PROVE AnswerIsOwn'
  BY <1>7 DEF Copy
<1>8. ASSUME NEW c \in Transports, CopyFails(c) PROVE AnswerIsOwn'
  BY <1>8 DEF CopyFails
<1>9. ASSUME NEW c \in Transports, Encode(c) PROVE AnswerIsOwn'
  BY <1>9 DEF Encode
<1>10. ASSUME NEW c \in Transports, Send(c) PROVE AnswerIsOwn'
  BY <1>10 DEF Send
<1>11. ASSUME NEW c \in Transports, GiveUpSending(c) PROVE AnswerIsOwn'
  BY <1>11 DEF GiveUpSending
<1>12. ASSUME NEW c \in Transports, Sent(c) PROVE AnswerIsOwn'
  BY <1>12 DEF Sent
<1>13. ASSUME NEW c \in Transports, Client(c) PROVE AnswerIsOwn'
  BY <1>13 DEF Client
<1>14. CASE UNCHANGED queryVars
  BY <1>14 DEF queryVars
<1> QED BY <1>1, <1>2, <1>3, <1>4, <1>5, <1>6, <1>7, <1>8, <1>9, <1>10, <1>11, <1>12, <1>13, <1>14
        DEF QueryNext, Proceed

\* For any number of transports, answers of any length and any clients that stop reading,
\* no client receives a byte of an answer to another's query or to an earlier one of its own.
THEOREM AnswerCorrect == QuerySpec => []AnswerIsOwn
<1>1. QueryInv /\ [QueryNext]_queryVars => QueryInv'
  BY QueryTypeInv, QueryMutexInv, QueryBufferInv, QueryAnswerInv DEF QueryInv
<1>2. QueryInv => AnswerIsOwn
  BY DEF QueryInv
<1> QED BY <1>1, <1>2, QueryInitInv, PTL DEF QuerySpec

-----------------------------------------------------------------------------
(***************************************************************************)
(* TriggerConfig.                                                          *)
(***************************************************************************)

Begun(c) == call[c] # Idle

\* A bind that met no other is the only one; any other has set raced.
AloneInv ==
    \A c \in Clients :
        Begun(c) =>
            /\ call[c].alone => \A d \in Clients \ {c} : ~Begun(d)
            /\ ~call[c].alone => raced

\* What a bind that met no other has done so far is still in place.
StageInv ==
    \A c \in Clients :
        Begun(c) /\ call[c].alone =>
            /\ call[c].at # "resolved" => action = ActionOf[call[c].new]
            /\ call[c].at \in {"half", "stored"} => function = call[c].new
            /\ call[c].at = "stored" => (arguments <=> call[c].new # None)

\* What a bind may have to go back to is what the slot had, and until the first key is
\* written a boot would go back to it, too.
SteadyInv ==
    ~raced =>
        /\ \A c \in Clients : Begun(c) =>
               /\ call[c].old = ActionOf[current]
               /\ call[c].at = "resolved" => action = ActionOf[current]
        /\ (\A c \in Clients : ~Begun(c)) => action = ActionOf[current]
        /\ ~torn =>
               /\ (\A c \in Clients : Begun(c) => call[c].at \in {"resolved", "bound"}) =>
                      Loaded = Booted(current)
               /\ \A c \in Clients : Begun(c) /\ call[c].at = "half" =>
                      Loaded \in {Booted(current), Booted(call[c].new)}

SlotInv == TypeOK /\ AloneInv /\ StageInv /\ SteadyInv
-----------------------------------------------------------------------------
\* A boot loads a mapping, and to load it again changes nothing.
LEMMA LoadedTwice ==
    ASSUME TypeOK
    PROVE  Loaded \in Mappings /\ Loaded = Booted(Loaded)
BY FunctionsAssumption DEF TypeOK, Loaded, Booted, Mappings

\* A stored mapping is the one a boot loads.
LEMMA StoredIsLoaded ==
    ASSUME TypeOK, function \in Mappings, arguments <=> function # None
    PROVE  Loaded = Booted(function)
BY FunctionsAssumption DEF TypeOK, Loaded, Booted, Mappings

LEMMA SlotInitInv == Init => SlotInv
<1> SUFFICES ASSUME Init PROVE SlotInv
  OBVIOUS
<1>1. TypeOK
  BY FunctionsAssumption DEF Init, TypeOK, Loaded, Mappings
<1>2. AloneInv /\ StageInv
  BY DEF Init, AloneInv, StageInv, Begun
<1>3. SteadyInv
  <2>1. Loaded = Booted(current)
    BY <1>1, LoadedTwice DEF Init
  <2> QED BY <2>1 DEF Init, SteadyInv, Begun
<1> QED BY <1>1, <1>2, <1>3 DEF SlotInv

\* The bind of a client, as its type knows it.
LEMMA OfBind ==
    ASSUME TypeOK, NEW c \in Clients, Begun(c)
    PROVE  /\ call[c] \in Binds
           /\ call[c].at \in {"resolved", "bound", "half", "stored"}
           /\ call[c].new \in Mappings
           /\ call[c].old \in {ActionOf[f] : f \in Mappings}
           /\ call[c].alone \in BOOLEAN
BY DEF TypeOK, Begun, Binds

\* The next stage of a bind.
Advanced(c, step) ==
    [at |-> step, new |-> call[c].new, old |-> call[c].old, alone |-> call[c].alone]

LEMMA AdvancedIs ==
    ASSUME TypeOK, NEW c \in Clients, Begun(c),
           NEW step \in {"resolved", "bound", "half", "stored"},
           call' = [call EXCEPT ![c].at = step]
    PROVE  /\ call' = [call EXCEPT ![c] = Advanced(c, step)]
           /\ Advanced(c, step) \in Binds /\ Advanced(c, step) # Idle
           /\ call' \in [Clients -> Binds \cup {Idle}]
<1>1. [call[c] EXCEPT !.at = step] = Advanced(c, step)
  BY OfBind DEF Binds, Advanced
<1>2. call' = [call EXCEPT ![c] = [call[c] EXCEPT !.at = step]]
  BY DEF TypeOK
<1>3. Advanced(c, step) \in Binds
  BY OfBind DEF Binds, Advanced
<1>4. call' = [call EXCEPT ![c] = Advanced(c, step)]
  BY <1>1, <1>2
<1>5. Advanced(c, step) # Idle
  BY <1>3, IdleAssumption
<1>6. call' \in [Clients -> Binds \cup {Idle}]
  BY <1>3, <1>4 DEF TypeOK
<1> QED BY <1>3, <1>4, <1>5, <1>6

\* An advance of one bind changes its stage and nothing else of any bind.
LEMMA Advances ==
    ASSUME TypeOK, NEW c \in Clients, Begun(c),
           NEW step \in {"resolved", "bound", "half", "stored"},
           call' = [call EXCEPT ![c].at = step]
    PROVE  \A d \in Clients :
               /\ Begun(d)' <=> Begun(d)
               /\ Begun(d) =>
                      /\ call'[d].at = IF d = c THEN step ELSE call[d].at
                      /\ call'[d].new = call[d].new
                      /\ call'[d].old = call[d].old
                      /\ call'[d].alone = call[d].alone
<1> SUFFICES ASSUME NEW d \in Clients
             PROVE  /\ Begun(d)' <=> Begun(d)
                    /\ Begun(d) =>
                           /\ call'[d].at = IF d = c THEN step ELSE call[d].at
                           /\ call'[d].new = call[d].new
                           /\ call'[d].old = call[d].old
                           /\ call'[d].alone = call[d].alone
  OBVIOUS
<1>1. CASE d = c
  <2>1. call' = [call EXCEPT ![c] = Advanced(c, step)] /\ Advanced(c, step) # Idle
    BY AdvancedIs
  <2>2. c \in DOMAIN call
    BY DEF TypeOK
  <2>3. call'[d] = Advanced(c, step)
    BY <1>1, <2>1, <2>2
  <2> QED BY <1>1, <2>1, <2>3 DEF Begun, Advanced
<1>2. CASE d # c
  <2>1. call'[d] = call[d]
    BY <1>2, AdvancedIs DEF TypeOK
  <2> QED BY <1>2, <2>1 DEF Begun
<1> QED BY <1>1, <1>2

\* While nothing is raced there is one bind at most.
LEMMA OneBind ==
    ASSUME AloneInv, NEW c \in Clients, Begun(c), ~raced \/ call[c].alone
    PROVE  \A d \in Clients : Begun(d) => d = c
BY DEF AloneInv

LEMMA AloneSame ==
    ASSUME AloneInv, raced' = raced,
           \A d \in Clients : Begun(d)' => Begun(d) /\ call'[d].alone = call[d].alone
    PROVE  AloneInv'
<1> SUFFICES ASSUME NEW c \in Clients, Begun(c)'
             PROVE  /\ call'[c].alone => \A d \in Clients \ {c} : ~Begun(d)'
                    /\ ~call'[c].alone => raced'
  BY DEF AloneInv
<1> QED BY DEF AloneInv
-----------------------------------------------------------------------------
(* Steps *)

LEMMA BindInv ==
    ASSUME SlotInv, NEW c \in Clients, Bind(c) PROVE SlotInv'
<1>1. /\ Begun(c) /\ call[c].at = "resolved"
      /\ action' = ActionOf[call[c].new] /\ call' = [call EXCEPT ![c].at = "bound"]
      /\ UNCHANGED <<default, function, arguments, current, raced, torn>>
  BY DEF Bind, Begun
<1>2. \A d \in Clients :
          /\ Begun(d)' <=> Begun(d)
          /\ Begun(d) =>
                 /\ call'[d].at = IF d = c THEN "bound" ELSE call[d].at
                 /\ call'[d].new = call[d].new
                 /\ call'[d].old = call[d].old
                 /\ call'[d].alone = call[d].alone
  BY <1>1, Advances DEF SlotInv
<1>3. TypeOK'
  <2>1. action' \in {ActionOf[f] : f \in Mappings}
    BY <1>1, OfBind DEF SlotInv
  <2>2. call' \in [Clients -> Binds \cup {Idle}]
    BY <1>1, AdvancedIs DEF SlotInv
  <2> QED BY <1>1, <2>1, <2>2 DEF SlotInv, TypeOK
<1>4. AloneInv'
  BY <1>1, <1>2, AloneSame DEF SlotInv
<1>5. StageInv'
  <2> SUFFICES ASSUME NEW d \in Clients, Begun(d), call[d].alone
               PROVE  /\ call'[d].at # "resolved" => action' = ActionOf[call'[d].new]
                      /\ call'[d].at \in {"half", "stored"} => function' = call'[d].new
                      /\ call'[d].at = "stored" => (arguments' <=> call'[d].new # None)
    BY <1>2 DEF StageInv
  <2>1. d = c
    BY <1>1, OneBind DEF SlotInv
  <2> QED BY <1>1, <1>2, <2>1
<1>6. SteadyInv'
  <2> SUFFICES ASSUME ~raced PROVE SteadyInv'
    BY <1>1 DEF SteadyInv
  <2>1. \A d \in Clients : Begun(d) => d = c
    BY <1>1, OneBind DEF SlotInv
  <2>2. call[c].old = ActionOf[current]
    BY <1>1 DEF SlotInv, SteadyInv
  <2>3. ~torn => Loaded = Booted(current)
    BY <1>1, <2>1 DEF SlotInv, SteadyInv
  <2>4. Loaded' = Loaded /\ Booted(current)' = Booted(current)
    BY <1>1 DEF Loaded, Booted
  <2> QED BY <1>1, <1>2, <2>1, <2>2, <2>3, <2>4 DEF SteadyInv
<1> QED BY <1>3, <1>4, <1>5, <1>6 DEF SlotInv

LEMMA StoreFunctionInv ==
    ASSUME SlotInv, NEW c \in Clients, StoreFunction(c) PROVE SlotInv'
<1>1. /\ Begun(c) /\ call[c].at = "bound"
      /\ function' = call[c].new /\ call' = [call EXCEPT ![c].at = "half"]
      /\ UNCHANGED <<default, arguments, action, current, raced, torn>>
  BY DEF StoreFunction, Begun
<1>2. \A d \in Clients :
          /\ Begun(d)' <=> Begun(d)
          /\ Begun(d) =>
                 /\ call'[d].at = IF d = c THEN "half" ELSE call[d].at
                 /\ call'[d].new = call[d].new
                 /\ call'[d].old = call[d].old
                 /\ call'[d].alone = call[d].alone
  BY <1>1, Advances DEF SlotInv
<1>3. TypeOK'
  <2>1. function' \in Mappings
    BY <1>1, OfBind DEF SlotInv
  <2>2. call' \in [Clients -> Binds \cup {Idle}]
    BY <1>1, AdvancedIs DEF SlotInv
  <2> QED BY <1>1, <2>1, <2>2 DEF SlotInv, TypeOK
<1>4. AloneInv'
  BY <1>1, <1>2, AloneSame DEF SlotInv
<1>5. StageInv'
  <2> SUFFICES ASSUME NEW d \in Clients, Begun(d), call[d].alone
               PROVE  /\ call'[d].at # "resolved" => action' = ActionOf[call'[d].new]
                      /\ call'[d].at \in {"half", "stored"} => function' = call'[d].new
                      /\ call'[d].at = "stored" => (arguments' <=> call'[d].new # None)
    BY <1>2 DEF StageInv
  <2>1. d = c
    BY OneBind, <1>1 DEF SlotInv
  <2>2. action = ActionOf[call[c].new]
    BY <1>1, <2>1 DEF SlotInv, StageInv
  <2> QED BY <1>1, <1>2, <2>1, <2>2
<1>6. SteadyInv'
  <2> SUFFICES ASSUME ~raced PROVE SteadyInv'
    BY <1>1 DEF SteadyInv
  <2>1. \A d \in Clients : Begun(d) => d = c
    BY <1>1, OneBind DEF SlotInv
  <2>2. call[c].old = ActionOf[current]
    BY <1>1 DEF SlotInv, SteadyInv
  <2>3. ~torn => Loaded = Booted(current)
    BY <1>1, <2>1 DEF SlotInv, SteadyInv
  <2>4. Loaded' \in {Loaded, Booted(call[c].new)}
    <3>1. call[c].new \in Mappings
      BY <1>1, OfBind DEF SlotInv
    <3>2. CASE arguments
      BY <1>1, <3>1, <3>2, FunctionsAssumption DEF Loaded, Booted, Mappings
    <3>3. CASE ~arguments
      BY <1>1, <3>3 DEF Loaded
    <3> QED BY <3>2, <3>3 DEF SlotInv, TypeOK
  <2>5. Booted(current)' = Booted(current) /\ Booted(call[c].new)' = Booted(call[c].new)
    BY <1>1, <1>2 DEF Booted
  <2> QED BY <1>1, <1>2, <2>1, <2>2, <2>3, <2>4, <2>5 DEF SteadyInv
<1> QED BY <1>3, <1>4, <1>5, <1>6 DEF SlotInv

LEMMA StoreArgumentsInv ==
    ASSUME SlotInv, NEW c \in Clients, StoreArguments(c) PROVE SlotInv'
<1>1. /\ Begun(c) /\ call[c].at = "half"
      /\ arguments' \in BOOLEAN /\ (arguments' <=> call[c].new # None)
      /\ call' = [call EXCEPT ![c].at = "stored"]
      /\ UNCHANGED <<default, function, action, current, raced, torn>>
  BY Zenon DEF StoreArguments, Begun
<1>2. \A d \in Clients :
          /\ Begun(d)' <=> Begun(d)
          /\ Begun(d) =>
                 /\ call'[d].at = IF d = c THEN "stored" ELSE call[d].at
                 /\ call'[d].new = call[d].new
                 /\ call'[d].old = call[d].old
                 /\ call'[d].alone = call[d].alone
  BY <1>1, Advances DEF SlotInv
<1>3. TypeOK'
  <2>1. call' \in [Clients -> Binds \cup {Idle}]
    BY <1>1, AdvancedIs DEF SlotInv
  <2> QED BY <1>1, <2>1 DEF SlotInv, TypeOK
<1>4. AloneInv'
  BY <1>1, <1>2, AloneSame DEF SlotInv
<1>5. StageInv'
  <2> SUFFICES ASSUME NEW d \in Clients, Begun(d), call[d].alone
               PROVE  /\ call'[d].at # "resolved" => action' = ActionOf[call'[d].new]
                      /\ call'[d].at \in {"half", "stored"} => function' = call'[d].new
                      /\ call'[d].at = "stored" => (arguments' <=> call'[d].new # None)
    BY <1>2 DEF StageInv
  <2>1. d = c
    BY OneBind, <1>1 DEF SlotInv
  <2>2. action = ActionOf[call[c].new] /\ function = call[c].new
    BY <1>1, <2>1 DEF SlotInv, StageInv
  <2> QED BY <1>1, <1>2, <2>1, <2>2
<1>6. SteadyInv'
  <2> SUFFICES ASSUME ~raced PROVE SteadyInv'
    BY <1>1 DEF SteadyInv
  <2>1. \A d \in Clients : Begun(d) => d = c
    BY <1>1, OneBind DEF SlotInv
  <2>2. call[c].old = ActionOf[current]
    BY <1>1 DEF SlotInv, SteadyInv
  <2> QED BY <1>1, <1>2, <2>1, <2>2 DEF SteadyInv
<1> QED BY <1>3, <1>4, <1>5, <1>6 DEF SlotInv

\* A bind that begins takes note of what it may go back to, and the binds it meets are
\* no longer alone.
LEMMA Resolves ==
    ASSUME TypeOK, NEW c \in Clients, NEW f \in Mappings, Resolve(c, f)
    PROVE  /\ call' \in [Clients -> Binds \cup {Idle}]
           /\ Begun(c)'
           /\ call'[c].at = "resolved" /\ call'[c].old = action
           /\ call'[c].alone <=> \A d \in Clients : ~Begun(d)
           /\ \A d \in Clients \ {c} :
                  /\ Begun(d)' <=> Begun(d)
                  /\ Begun(d) => ~call'[d].alone
<1> DEFINE New == [at |-> "resolved", new |-> f, old |-> action, alone |-> Binding = {}]
           Met(d) == [call[d] EXCEPT !.alone = FALSE]
<1>1. New \in Binds
  <2>1. (Binding = {}) \in BOOLEAN
    OBVIOUS
  <2>2. action \in {ActionOf[g] : g \in Mappings}
    BY DEF TypeOK
  <2> HIDE DEF Binding
  <2> QED BY <2>1, <2>2 DEF Binds
<1>2. ASSUME NEW d \in Clients, Begun(d)
      PROVE  Met(d) \in Binds /\ ~Met(d).alone
  <2>1. call[d] \in Binds
    BY <1>2, OfBind
  <2> QED BY <2>1 DEF Binds
<1>3. Binding = {} <=> \A d \in Clients : ~Begun(d)
  BY DEF Binding, Begun
<1>4. call' = [d \in Clients |-> IF d = c THEN New
                                 ELSE IF d \in Binding THEN [call[d] EXCEPT !.alone = FALSE]
                                 ELSE Idle]
  BY DEF Resolve
<1>5. call'[c] = New
  BY <1>4
<1>6. ASSUME NEW d \in Clients \ {c}
      PROVE  call'[d] = IF Begun(d) THEN Met(d) ELSE Idle
  BY <1>2, <1>4, <1>6 DEF Binding, Begun
<1>7. call' \in [Clients -> Binds \cup {Idle}]
  <2>1. ASSUME NEW d \in Clients PROVE call'[d] \in Binds \cup {Idle}
    BY <1>1, <1>2, <1>5, <1>6
  <2>2. call' = [d \in Clients |-> call'[d]]
    BY <1>4
  <2> HIDE DEF New, Met
  <2> QED BY <2>1, <2>2
<1>8. Begun(c)' /\ call'[c].at = "resolved" /\ call'[c].old = action
  BY <1>1, <1>5, IdleAssumption DEF Begun
<1>9. call'[c].alone <=> \A d \in Clients : ~Begun(d)
  <2>1. call'[c].alone = (Binding = {})
    BY <1>5
  <2> QED BY <1>3, <2>1, Zenon
<1>10. ASSUME NEW d \in Clients \ {c}
       PROVE  (Begun(d)' <=> Begun(d)) /\ (Begun(d) => ~call'[d].alone)
  BY <1>2, <1>6, IdleAssumption DEF Begun
<1> QED BY <1>7, <1>8, <1>9, <1>10

LEMMA ResolveInv ==
    ASSUME SlotInv, NEW c \in Clients, NEW f \in Mappings, Resolve(c, f) PROVE SlotInv'
<1>1. /\ ~Begun(c)
      /\ raced' <=> raced \/ \E d \in Clients : Begun(d)
      /\ raced' \in BOOLEAN
      /\ UNCHANGED <<default, function, arguments, action, current, torn>>
  BY DEF Resolve, Begun, Binding
<1>2. /\ call' \in [Clients -> Binds \cup {Idle}]
      /\ Begun(c)'
      /\ call'[c].at = "resolved" /\ call'[c].old = action
      /\ call'[c].alone <=> \A d \in Clients : ~Begun(d)
      /\ \A d \in Clients \ {c} :
             /\ Begun(d)' <=> Begun(d)
             /\ Begun(d) => ~call'[d].alone
  BY Resolves DEF SlotInv
<1>3. TypeOK'
  BY <1>1, <1>2 DEF SlotInv, TypeOK
<1>4. AloneInv'
  <2> SUFFICES ASSUME NEW d \in Clients, Begun(d)'
               PROVE  /\ call'[d].alone => \A e \in Clients \ {d} : ~Begun(e)'
                      /\ ~call'[d].alone => raced'
    BY DEF AloneInv
  <2>1. CASE d = c
    BY <1>1, <1>2, <2>1
  <2>2. CASE d # c
    BY <1>1, <1>2, <2>2
  <2> QED BY <2>1, <2>2
<1>5. StageInv'
  BY <1>2 DEF StageInv
<1>6. SteadyInv'
  <2> SUFFICES ASSUME ~raced, \A d \in Clients : ~Begun(d) PROVE SteadyInv'
    BY <1>1 DEF SteadyInv
  <2>1. action = ActionOf[current]
    BY DEF SlotInv, SteadyInv
  <2>2. ~torn => Loaded = Booted(current)
    BY DEF SlotInv, SteadyInv
  <2>3. Loaded' = Loaded /\ Booted(current)' = Booted(current)
    BY <1>1 DEF Loaded, Booted
  <2>4. \A d \in Clients : Begun(d)' => d = c
    BY <1>2
  <2> QED BY <1>1, <1>2, <2>1, <2>2, <2>3, <2>4 DEF SteadyInv
<1> QED BY <1>3, <1>4, <1>5, <1>6 DEF SlotInv

\* A bind that returns leaves the others as they are.
LEMMA Returns ==
    ASSUME TypeOK, NEW c \in Clients, call' = [call EXCEPT ![c] = Idle]
    PROVE  /\ call' \in [Clients -> Binds \cup {Idle}]
           /\ ~Begun(c)'
           /\ \A d \in Clients \ {c} : call'[d] = call[d] /\ (Begun(d)' <=> Begun(d))
BY DEF TypeOK, Begun

LEMMA StoreFailsInv ==
    ASSUME SlotInv, NEW c \in Clients, StoreFails(c) PROVE SlotInv'
<1>1. /\ Begun(c) /\ call[c].at # "resolved"
      /\ action' = call[c].old /\ call' = [call EXCEPT ![c] = Idle]
      /\ torn' \in BOOLEAN /\ (torn' <=> torn \/ call[c].at # "bound")
      /\ UNCHANGED <<default, function, arguments, current, raced>>
  BY Zenon DEF StoreFails, Begun
<1>2. /\ call' \in [Clients -> Binds \cup {Idle}]
      /\ ~Begun(c)'
      /\ \A d \in Clients \ {c} : call'[d] = call[d] /\ (Begun(d)' <=> Begun(d))
  BY <1>1, Returns DEF SlotInv
<1>3. TypeOK'
  <2>1. call[c].old \in {ActionOf[f] : f \in Mappings}
    BY <1>1, OfBind DEF SlotInv
  <2> QED BY <1>1, <1>2, <2>1 DEF SlotInv, TypeOK
<1>4. AloneInv'
  BY <1>1, <1>2, AloneSame DEF SlotInv
<1>5. StageInv'
  <2>1. \A d \in Clients : Begun(d)' => Begun(d) /\ d # c /\ ~call[d].alone
    BY <1>1, <1>2 DEF SlotInv, AloneInv
  <2> QED BY <1>2, <2>1 DEF StageInv
<1>6. SteadyInv'
  <2> SUFFICES ASSUME ~raced PROVE SteadyInv'
    BY <1>1 DEF SteadyInv
  <2>1. \A d \in Clients : Begun(d) => d = c
    BY <1>1, OneBind DEF SlotInv
  <2>2. \A d \in Clients : ~Begun(d)'
    BY <1>2, <2>1
  <2>3. call[c].old = ActionOf[current]
    BY <1>1 DEF SlotInv, SteadyInv
  <2>4. ~torn' => Loaded = Booted(current)
    BY <1>1, <2>1 DEF SlotInv, SteadyInv
  <2>5. Loaded' = Loaded /\ Booted(current)' = Booted(current)
    BY <1>1 DEF Loaded, Booted
  <2> QED BY <1>1, <2>2, <2>3, <2>4, <2>5 DEF SteadyInv
<1> QED BY <1>3, <1>4, <1>5, <1>6 DEF SlotInv

LEMMA FinishInv ==
    ASSUME SlotInv, NEW c \in Clients, Finish(c) PROVE SlotInv'
<1>1. /\ Begun(c) /\ call[c].at = "stored"
      /\ current' = call[c].new /\ call' = [call EXCEPT ![c] = Idle]
      /\ raced' \in BOOLEAN /\ (raced' <=> ~call[c].alone)
      /\ torn' \in BOOLEAN /\ (torn' <=> torn /\ ~call[c].alone)
      /\ UNCHANGED <<default, function, arguments, action>>
  BY Zenon DEF Finish, Begun
<1>2. /\ call' \in [Clients -> Binds \cup {Idle}]
      /\ ~Begun(c)'
      /\ \A d \in Clients \ {c} : call'[d] = call[d] /\ (Begun(d)' <=> Begun(d))
  BY <1>1, Returns DEF SlotInv
<1>3. call[c].new \in Mappings
  BY <1>1, OfBind DEF SlotInv
<1>4. TypeOK'
  BY <1>1, <1>2, <1>3 DEF SlotInv, TypeOK
<1>5. \A d \in Clients : Begun(d)' => Begun(d) /\ d # c /\ ~call[d].alone /\ ~call[c].alone
  BY <1>1, <1>2 DEF SlotInv, AloneInv
<1>6. AloneInv'
  BY <1>1, <1>2, <1>5 DEF AloneInv
<1>7. StageInv'
  BY <1>2, <1>5 DEF StageInv
<1>8. SteadyInv'
  <2> SUFFICES ASSUME call[c].alone PROVE SteadyInv'
    BY <1>1 DEF SteadyInv
  <2>1. \A d \in Clients : ~Begun(d)'
    BY <1>5
  <2>2. action = ActionOf[call[c].new] /\ function = call[c].new
        /\ (arguments <=> call[c].new # None)
    BY <1>1 DEF SlotInv, StageInv
  <2>3. Loaded = Booted(call[c].new)
    BY <1>3, <2>2, StoredIsLoaded DEF SlotInv
  <2>4. Loaded' = Loaded /\ Booted(current)' = Booted(call[c].new)
    BY <1>1 DEF Loaded, Booted
  <2> QED BY <1>1, <2>1, <2>2, <2>3, <2>4 DEF SteadyInv
<1> QED BY <1>4, <1>6, <1>7, <1>8 DEF SlotInv

LEMMA RestartInv == ASSUME SlotInv, Restart PROVE SlotInv'
<1>1. /\ current' = Loaded /\ action' = ActionOf[Loaded]
      /\ \A d \in Clients : ~Begun(d)'
      /\ UNCHANGED <<default, function, arguments>>
  BY DEF Restart, Begun
<1>2. Loaded \in Mappings /\ Loaded = Booted(Loaded)
  BY LoadedTwice DEF SlotInv
<1>3. TypeOK'
  BY <1>2 DEF SlotInv, TypeOK, Restart
<1>4. AloneInv' /\ StageInv'
  BY <1>1 DEF AloneInv, StageInv
<1>5. Loaded' = Loaded /\ Booted(current)' = Booted(Loaded)
  BY <1>1 DEF Loaded, Booted
<1>6. SteadyInv'
  BY <1>1, <1>2, <1>5 DEF SteadyInv
<1> QED BY <1>3, <1>4, <1>6 DEF SlotInv

LEMMA SlotNextInv == SlotInv /\ [Next]_vars => SlotInv'
<1> SUFFICES ASSUME SlotInv, [Next]_vars PROVE SlotInv'
  OBVIOUS
<1>1. CASE UNCHANGED vars
  BY <1>1 DEF vars, SlotInv, TypeOK, AloneInv, StageInv, SteadyInv, Begun, Loaded, Booted
<1>2. CASE Next
  BY <1>2, ResolveInv, BindInv, StoreFunctionInv, StoreArgumentsInv, StoreFailsInv, FinishInv,
     RestartInv DEF Next
<1> QED BY <1>1, <1>2

LEMMA Inductive == Spec => []SlotInv
BY SlotInitInv, SlotNextInv, PTL DEF Spec
-----------------------------------------------------------------------------
(* Theorems *)

\* Every variable keeps its type: the action of the slot, in trigger_svc, is always that
\* of some mapping of trigger_config.
THEOREM TypeCorrect == Spec => []TypeOK
<1>1. SlotInv => TypeOK
  BY DEF SlotInv
<1> QED BY <1>1, Inductive, PTL

LEMMA ActionInv == SlotInv => ActionIsOfMapping
BY DEF SlotInv, SteadyInv, ActionIsOfMapping, Binding, Begun

LEMMA RestartKept == SlotInv => RestartKeepsOrCompletes
<1> SUFFICES ASSUME SlotInv, ~raced, ~torn
             PROVE  Loaded \in {Booted(current)} \cup {Booted(call[c].new) : c \in Binding}
  BY DEF RestartKeepsOrCompletes
<1>1. CASE \A c \in Clients : Begun(c) => call[c].at \in {"resolved", "bound"}
  BY <1>1 DEF SlotInv, SteadyInv
<1>2. CASE \E c \in Clients : Begun(c) /\ call[c].at \notin {"resolved", "bound"}
  <2>1. PICK c \in Clients : Begun(c) /\ call[c].at \notin {"resolved", "bound"}
    BY <1>2
  <2>2. c \in Binding
    BY <2>1 DEF Binding, Begun
  <2>3. call[c].at \in {"half", "stored"} /\ call[c].new \in Mappings
    BY <2>1, OfBind DEF SlotInv
  <2>4. CASE call[c].at = "half"
    BY <2>1, <2>2, <2>4 DEF SlotInv, SteadyInv
  <2>5. CASE call[c].at = "stored"
    <3>1. call[c].alone
      BY <2>1 DEF SlotInv, AloneInv
    <3>2. function = call[c].new /\ (arguments <=> call[c].new # None)
      BY <2>1, <2>5, <3>1 DEF SlotInv, StageInv
    <3>3. Loaded = Booted(call[c].new)
      BY <2>3, <3>2, StoredIsLoaded DEF SlotInv
    <3> QED BY <2>2, <3>3
  <2> QED BY <2>3, <2>4, <2>5
<1> QED BY <1>1, <1>2

\* For any sessions, functions and default, a slot has one whole mapping: the action of
\* trigger_svc_set_action is that of the mapping TRIG:CONF? answers once no bind is in
\* progress, and trigger_config_init loads, after a power loss at any step of
\* trigger_config_bind, the old mapping or the new one.
THEOREM MappingCorrect == Spec => []MappingIsWhole
<1>1. SlotInv => MappingIsWhole
  BY ActionInv, RestartKept DEF MappingIsWhole
<1> QED BY <1>1, Inductive, PTL

-----------------------------------------------------------------------------
(***************************************************************************)
(* TriggerInput.  What of a pin is under way is counted over both queues,  *)
(* the interrupt and the worker; a pin puts at most two in a queue.        *)
(***************************************************************************)

\* The places of a pin in a queue.
Places(q, p) == {i \in 1..Len(q) : q[i] = p}

\* The worker is busy with a pin that it has not yet taken off pending.
Busy(p) == worker.pin = p /\ worker.at \in {"debounce", "read"}

\* Until the end of its set-up a pin that is not pending has nothing in flight.  After it
\* one event may be in flight whose pending mark the set-up has cleared.
FlightInv ==
    \A p \in Pins :
        /\ setup[p] # "done" =>
               /\ InFlight(p) <= 1
               /\ ~pending[p] => InFlight(p) = 0
        /\ setup[p] = "done" =>
               /\ InFlight(p) <= 2
               /\ ~pending[p] => InFlight(p) <= 1
        /\ pending[p] => InFlight(p) > 0
        /\ irq[p] => setup[p] # "none"

InputInv == InputTypeOK /\ FlightInv
-----------------------------------------------------------------------------
LEMMA PlacesAre ==
    ASSUME NEW q \in Seq(Pins), NEW p
    PROVE  IsFiniteSet(Places(q, p)) /\ Cardinality(Places(q, p)) \in Nat
<1>1. IsFiniteSet(1..Len(q))
  BY FS_Interval
<1>2. Places(q, p) \in SUBSET (1..Len(q))
  BY DEF Places
<1>3. IsFiniteSet(Places(q, p))
  BY <1>1, <1>2, FS_Subset
<1> QED BY <1>3, FS_CardinalityType

LEMMA NoPlaces == \A p : Cardinality(Places(<<>>, p)) = 0
<1>1. \A p : Places(<<>>, p) = {}
  BY DEF Places
<1> QED BY <1>1, FS_EmptySet

\* A pin put at the end of the queue has one place more, any other as many.
LEMMA PlacesAppend ==
    ASSUME NEW q \in Seq(Pins), NEW p \in Pins, NEW r \in Pins
    PROVE  Cardinality(Places(Append(q, r), p)) =
               Cardinality(Places(q, p)) + IF p = r THEN 1 ELSE 0
<1>1. CASE p = r
  <2>1. Places(Append(q, r), p) = Places(q, p) \cup {Len(q) + 1}
    BY <1>1 DEF Places
  <2>2. Len(q) + 1 \notin Places(q, p)
    BY DEF Places
  <2> QED BY <1>1, <2>1, <2>2, PlacesAre, FS_AddElement
<1>2. CASE p # r
  <2>1. Places(Append(q, r), p) = Places(q, p)
    BY <1>2 DEF Places
  <2> QED BY <1>2, <2>1, PlacesAre
<1> QED BY <1>1, <1>2

\* The pin at the head loses a place when the head is taken, any other none.
LEMMA PlacesTail ==
    ASSUME NEW q \in Seq(Pins), q # <<>>, NEW p \in Pins
    PROVE  Cardinality(Places(q, p)) =
               Cardinality(Places(Tail(q), p)) + IF p = Head(q) THEN 1 ELSE 0
<1> DEFINE Later == Places(q, p) \ {1}
           f == [i \in Later |-> i - 1]
<1>1. Len(q) \in Nat \ {0} /\ Tail(q) \in Seq(Pins) /\ Len(Tail(q)) = Len(q) - 1
      /\ \A i \in 1..(Len(q) - 1) : Tail(q)[i] = q[i + 1]
  OBVIOUS
<1>2. f \in Bijection(Later, Places(Tail(q), p))
  <2>1. f \in [Later -> Places(Tail(q), p)]
    BY <1>1 DEF Places
  <2>2. \A i, j \in Later : f[i] = f[j] => i = j
    BY DEF Places
  <2>3. \A j \in Places(Tail(q), p) : \E i \in Later : f[i] = j
    <3> SUFFICES ASSUME NEW j \in Places(Tail(q), p) PROVE \E i \in Later : f[i] = j
      OBVIOUS
    <3>1. j + 1 \in Later /\ f[j + 1] = j
      BY <1>1 DEF Places
    <3> QED BY <3>1
  <2> QED BY <2>1, <2>2, <2>3 DEF Bijection, Injection, Surjection, IsInjective
<1>3. IsFiniteSet(Places(q, p)) /\ Cardinality(Places(q, p)) \in Nat
  BY PlacesAre
<1>4. IsFiniteSet(Later) /\ Cardinality(Later) =
          IF 1 \in Places(q, p) THEN Cardinality(Places(q, p)) - 1 ELSE Cardinality(Places(q, p))
  BY <1>3, FS_RemoveElement
<1>5. Cardinality(Places(Tail(q), p)) = Cardinality(Later)
  <2> HIDE DEF f, Later
  <2> QED BY <1>2, <1>4, FS_Bijection DEF ExistsBijection
<1>6. 1 \in Places(q, p) <=> p = Head(q)
  BY <1>1 DEF Places
<1> QED BY <1>3, <1>4, <1>5, <1>6

LEMMA InFlightIs ==
    \A p \in Pins : InFlight(p) = Cardinality(Places(queue, p)) + IF Busy(p) THEN 1 ELSE 0
BY DEF InFlight, Places, Busy

LEMMA InputInitInv == InputInit => InputInv
<1> SUFFICES ASSUME InputInit PROVE InputInv
  OBVIOUS
<1>1. InputTypeOK
  BY InputAssumption DEF InputInit, InputTypeOK, WorkerAt, WorkerIdle
<1>2. \A p \in Pins : InFlight(p) = 0
  <2>1. \A p \in Pins : ~Busy(p)
    BY DEF InputInit, Busy, WorkerIdle
  <2>2. queue = <<>>
    BY DEF InputInit
  <2> QED BY <2>1, <2>2, NoPlaces, InFlightIs
<1>3. FlightInv
  BY <1>2 DEF InputInit, FlightInv
<1> QED BY <1>1, <1>3 DEF InputInv

\* Nothing comes into flight or leaves it.
LEMMA FlightSame ==
    ASSUME queue' = queue, worker' = worker
    PROVE  \A p \in Pins : InFlight(p)' = InFlight(p)
BY DEF InFlight

LEMMA FlightType ==
    ASSUME InputTypeOK
    PROVE  \A p \in Pins : InFlight(p) \in Nat
<1>1. \A p \in Pins : Cardinality(Places(queue, p)) \in Nat
  BY PlacesAre DEF InputTypeOK
<1> QED BY <1>1, InFlightIs

LEMMA EdgeInv == ASSUME InputInv, NEW p \in Pins, Edge(p) PROVE InputInv'
<1>1. InputTypeOK'
  BY InputAssumption DEF InputInv, InputTypeOK, Edge
<1>2. FlightInv'
  BY FlightSame DEF InputInv, InputTypeOK, FlightInv, Edge
<1> QED BY <1>1, <1>2 DEF InputInv

LEMMA IgnoreEdgeInv == ASSUME InputInv, NEW p \in Pins, IgnoreEdge(p) PROVE InputInv'
<1>1. InputTypeOK'
  BY DEF InputInv, InputTypeOK, IgnoreEdge, HasRead
<1>2. FlightInv'
  BY FlightSame DEF InputInv, InputTypeOK, FlightInv, IgnoreEdge
<1> QED BY <1>1, <1>2 DEF InputInv

LEMMA QueueEdgeInv == ASSUME InputInv, NEW p \in Pins, QueueEdge(p) PROVE InputInv'
<1>1. queue \in Seq(Pins) /\ pending \in [Pins -> BOOLEAN] /\ irq \in [Pins -> BOOLEAN]
      /\ \A q \in Pins : InFlight(q) \in Nat
  BY FlightType DEF InputInv, InputTypeOK
<1>2. CASE Len(queue) < QueueLength
  <2>1. queue' = Append(queue, p) /\ worker' = worker /\ setup' = setup
        /\ pending' = [pending EXCEPT ![p] = TRUE] /\ irq' = [irq EXCEPT ![p] = FALSE]
    BY <1>2 DEF QueueEdge
  <2>2. InputTypeOK'
    BY <1>2, <2>1, InputAssumption DEF InputInv, InputTypeOK, QueueEdge
  <2>3. \A q \in Pins : InFlight(q)' = InFlight(q) + IF q = p THEN 1 ELSE 0
    <3> SUFFICES ASSUME NEW q \in Pins PROVE InFlight(q)' = InFlight(q) + IF q = p THEN 1 ELSE 0
      OBVIOUS
    <3>1. Cardinality(Places(queue', q)) = Cardinality(Places(queue, q)) + IF q = p THEN 1 ELSE 0
      BY <1>1, <2>1, PlacesAppend
    <3>2. InFlight(q)' = Cardinality(Places(queue', q)) + IF Busy(q)' THEN 1 ELSE 0
      BY DEF InFlight, Places, Busy
    <3>3. Busy(q)' = Busy(q)
      BY <2>1 DEF Busy
    <3> QED BY <1>1, <3>1, <3>2, <3>3, InFlightIs, PlacesAre
  <2>4. ~pending[p]
    BY DEF QueueEdge
  <2>5. FlightInv'
    BY <1>1, <2>1, <2>3, <2>4 DEF InputInv, FlightInv
  <2> QED BY <2>2, <2>5 DEF InputInv
<1>3. CASE ~(Len(queue) < QueueLength)
  <2>1. queue' = queue /\ worker' = worker /\ setup' = setup
        /\ pending' = [pending EXCEPT ![p] = FALSE] /\ irq' = [irq EXCEPT ![p] = FALSE] /\ ~pending[p]
    <3>1. (Len(queue) < QueueLength) = FALSE
      BY <1>3
    <3> QED BY <1>3, <3>1, Zenon DEF QueueEdge
  <2>2. InputTypeOK'
    BY <2>1 DEF InputInv, InputTypeOK, QueueEdge
  <2>3. FlightInv'
    BY <1>1, <2>1, FlightSame DEF InputInv, FlightInv
  <2> QED BY <2>2, <2>3 DEF InputInv
<1> QED BY <1>2, <1>3

\* A pin on its way from the queue to the worker stays in flight.
LEMMA TakeEventInv == ASSUME InputInv, TakeEvent PROVE InputInv'
<1>1. queue \in Seq(Pins) /\ queue # <<>> /\ Head(queue) \in Pins /\ Tail(queue) \in Seq(Pins)
      /\ queue' = Tail(queue) /\ Len(Tail(queue)) = Len(queue) - 1
  BY DEF InputInv, InputTypeOK, TakeEvent
<1>2. worker' = [at |-> "debounce", pin |-> Head(queue), state |-> FALSE] /\ worker.at = "idle"
  BY DEF TakeEvent, WorkerIdle
<1>3. InputTypeOK'
  <2>1. worker' \in [at : WorkerAt, pin : Pins \cup {NoPin}, state : BOOLEAN]
        /\ worker'.at # "idle" /\ worker'.pin # NoPin
    BY <1>1, <1>2, InputAssumption DEF WorkerAt
  <2>2. Len(queue') <= QueueLength /\ queue' \in Seq(Pins)
    BY <1>1, InputAssumption DEF InputInv, InputTypeOK
  <2> QED BY <2>1, <2>2 DEF InputInv, InputTypeOK, TakeEvent
<1>4. \A q \in Pins : InFlight(q)' = InFlight(q)
  <2> SUFFICES ASSUME NEW q \in Pins PROVE InFlight(q)' = InFlight(q)
    OBVIOUS
  <2>1. InFlight(q)' = Cardinality(Places(queue', q)) + IF Busy(q)' THEN 1 ELSE 0
    BY DEF InFlight, Places, Busy
  <2>2. ~Busy(q) /\ (Busy(q)' <=> q = Head(queue))
    BY <1>2 DEF Busy
  <2>3. Cardinality(Places(queue, q)) = Cardinality(Places(queue', q)) + IF q = Head(queue) THEN 1 ELSE 0
    BY <1>1, PlacesTail
  <2> QED BY <1>1, <2>1, <2>2, <2>3, InFlightIs, PlacesAre
<1>5. FlightInv'
  BY <1>4 DEF InputInv, FlightInv, TakeEvent
<1> QED BY <1>3, <1>5 DEF InputInv

LEMMA ReadLevelInv == ASSUME InputInv, ReadLevel PROVE InputInv'
<1>1. worker \in [at : WorkerAt, pin : Pins \cup {NoPin}, state : BOOLEAN] /\ worker.at = "debounce"
      /\ worker.pin \in Pins
  BY DEF InputInv, InputTypeOK, ReadLevel
<1>2. worker'.at = "read" /\ worker'.pin = worker.pin /\ worker' \in [at : WorkerAt, pin : Pins \cup {NoPin}, state : BOOLEAN]
  BY <1>1 DEF ReadLevel, WorkerAt, InputInv, InputTypeOK
<1>3. InputTypeOK'
  BY <1>1, <1>2, InputAssumption DEF InputInv, InputTypeOK, ReadLevel
<1>4. \A q \in Pins : InFlight(q)' = InFlight(q)
  BY <1>1, <1>2 DEF InFlight, ReadLevel
<1>5. FlightInv'
  BY <1>4 DEF InputInv, FlightInv, ReadLevel
<1> QED BY <1>3, <1>5 DEF InputInv

LEMMA EndDebounceInv == ASSUME InputInv, EndDebounce PROVE InputInv'
<1>1. worker \in [at : WorkerAt, pin : Pins \cup {NoPin}, state : BOOLEAN] /\ worker.at = "read"
      /\ worker.pin \in Pins
  BY DEF InputInv, InputTypeOK, EndDebounce
<1>2. \/ worker' = WorkerIdle
      \/ worker'.at = "dispatch" /\ worker'.pin = worker.pin /\ worker' \in [at : WorkerAt, pin : Pins \cup {NoPin}, state : BOOLEAN]
  BY <1>1 DEF EndDebounce, WorkerAt
<1>3. InputTypeOK'
  BY <1>1, <1>2, InputAssumption DEF InputInv, InputTypeOK, EndDebounce, WorkerAt, WorkerIdle
<1>4. \A q \in Pins : InFlight(q)' = InFlight(q) - IF q = worker.pin THEN 1 ELSE 0
  <2> SUFFICES ASSUME NEW q \in Pins PROVE InFlight(q)' = InFlight(q) - IF q = worker.pin THEN 1 ELSE 0
    OBVIOUS
  <2>1. InFlight(q)' = Cardinality(Places(queue, q)) + IF Busy(q)' THEN 1 ELSE 0
    BY DEF InFlight, Places, Busy, EndDebounce
  <2>2. (Busy(q) <=> q = worker.pin) /\ ~Busy(q)'
    BY <1>1, <1>2 DEF Busy, WorkerIdle
  <2>3. Cardinality(Places(queue, q)) \in Nat
    BY PlacesAre DEF InputInv, InputTypeOK
  <2> QED BY <2>1, <2>2, <2>3, InFlightIs
<1>5. FlightInv'
  <2> SUFFICES ASSUME NEW q \in Pins
               PROVE  /\ setup[q] # "done" => InFlight(q)' <= 1 /\ (~pending'[q] => InFlight(q)' = 0)
                      /\ setup[q] = "done" => InFlight(q)' <= 2 /\ (~pending'[q] => InFlight(q)' <= 1)
                      /\ pending'[q] => InFlight(q)' > 0
                      /\ irq[q] => setup[q] # "none"
    BY DEF FlightInv, EndDebounce
  <2>1. /\ setup[q] # "done" => InFlight(q) <= 1 /\ (~pending[q] => InFlight(q) = 0)
        /\ setup[q] = "done" => InFlight(q) <= 2 /\ (~pending[q] => InFlight(q) <= 1)
        /\ pending[q] => InFlight(q) > 0
        /\ irq[q] => setup[q] # "none"
    BY DEF InputInv, FlightInv
  <2>2. InFlight(q) \in Nat
    BY FlightType DEF InputInv
  <2>3. CASE q = worker.pin
    <3>1. ~pending'[q] /\ InFlight(q)' = InFlight(q) - 1
      BY <1>1, <1>4, <2>3 DEF EndDebounce, InputInv, InputTypeOK
    <3>2. Cardinality(Places(queue, q)) \in Nat /\ Busy(q)
      BY <1>1, <2>3, PlacesAre DEF InputInv, InputTypeOK, Busy
    <3>3. InFlight(q) > 0
      BY <3>2, InFlightIs
    <3> QED BY <2>1, <2>2, <3>1, <3>3
  <2>4. CASE q # worker.pin
    <3>1. pending'[q] = pending[q] /\ InFlight(q)' = InFlight(q)
      BY <1>1, <1>4, <2>2, <2>4 DEF EndDebounce, InputInv, InputTypeOK
    <3> QED BY <2>1, <3>1
  <2> QED BY <2>3, <2>4
<1> QED BY <1>3, <1>5 DEF InputInv

LEMMA DispatchesInv == ASSUME InputInv, Dispatch PROVE InputInv'
<1>1. InputTypeOK'
  BY InputAssumption DEF InputInv, InputTypeOK, Dispatch, WorkerAt, WorkerIdle
<1>2. \A q \in Pins : InFlight(q)' = InFlight(q)
  BY DEF InFlight, Dispatch, WorkerIdle
<1>3. FlightInv'
  BY <1>2 DEF InputInv, FlightInv, Dispatch
<1> QED BY <1>1, <1>3 DEF InputInv

\* The set-up of a pin clears a mark whose event goes on, and from then on there is room
\* for a second one.
LEMMA SetupInv == ASSUME InputInv, NEW p \in Pins, Setup(p) PROVE InputInv'
<1>1. queue' = queue /\ worker' = worker /\ irq' = irq
  BY DEF Setup, InstallHandler, ReadInitialLevel, ClearPending
<1>2. InputTypeOK'
  BY DEF InputInv, InputTypeOK, Setup, InstallHandler, ReadInitialLevel, ClearPending
<1>3. FlightInv'
  BY <1>1, FlightSame, FlightType
     DEF InputInv, InputTypeOK, FlightInv, Setup, InstallHandler, ReadInitialLevel, ClearPending
<1> QED BY <1>2, <1>3 DEF InputInv

LEMMA InputNextInv == InputInv /\ [InputNext]_inputVars => InputInv'
<1> SUFFICES ASSUME InputInv, [InputNext]_inputVars PROVE InputInv'
  OBVIOUS
<1>1. CASE UNCHANGED inputVars
  <2>1. InputTypeOK'
    BY <1>1 DEF InputInv, InputTypeOK, inputVars
  <2>2. FlightInv'
    BY <1>1, FlightSame DEF InputInv, FlightInv, inputVars
  <2> QED BY <2>1, <2>2 DEF InputInv
<1> QED BY <1>1, EdgeInv, IgnoreEdgeInv, QueueEdgeInv, TakeEventInv, ReadLevelInv, EndDebounceInv,
           DispatchesInv, SetupInv DEF InputNext, Handler, Worker

\* For any pins, any number of edges and a queue of any length: a pin has at most two
\* events in flight, whatever of its edges fall into its set-up, and one while it is pending.
THEOREM FlightCorrect == InputSpec => []FlightIsBounded
<1>1. InputInv => FlightIsBounded
  BY FlightType DEF InputInv, FlightInv, FlightIsBounded
<1> QED BY <1>1, InputInitInv, InputNextInv, PTL DEF InputSpec

-----------------------------------------------------------------------------
\* The how manieth of its pin a place is.
Rank(i) == Cardinality({j \in 1..i : queue[j] = queue[i]})

\* The places of a pin have different ranks, as many as there are places.
LEMMA RankIs ==
    ASSUME InputTypeOK, NEW i \in 1..Len(queue)
    PROVE  /\ Rank(i) \in 1..Cardinality(Places(queue, queue[i]))
           /\ \A k \in 1..Len(queue) : k > i /\ queue[k] = queue[i] => Rank(k) # Rank(i)
<1> DEFINE Up(k) == {j \in 1..k : queue[j] = queue[i]}
<1>1. queue \in Seq(Pins) /\ Len(queue) \in Nat
  BY DEF InputTypeOK
<1>2. \A k \in 1..Len(queue) : IsFiniteSet(Up(k)) /\ Cardinality(Up(k)) \in Nat
  <2> SUFFICES ASSUME NEW k \in 1..Len(queue) PROVE IsFiniteSet(Up(k)) /\ Cardinality(Up(k)) \in Nat
    OBVIOUS
  <2>1. IsFiniteSet(1..k) /\ Up(k) \in SUBSET (1..k)
    BY FS_Interval
  <2>2. IsFiniteSet(Up(k))
    BY <2>1, FS_Subset
  <2> QED BY <2>2, FS_CardinalityType
<1>3. Cardinality(Up(i)) \in 1..Cardinality(Places(queue, queue[i]))
  <2>1. Up(i) \in SUBSET Places(queue, queue[i]) /\ i \in Up(i)
    BY <1>1 DEF Places
  <2>2. Cardinality(Up(i)) <= Cardinality(Places(queue, queue[i]))
    BY <1>1, <2>1, PlacesAre, FS_Subset
  <2>3. Cardinality(Up(i)) # 0
    BY <1>2, <2>1, FS_EmptySet
  <2>4. Cardinality(Places(queue, queue[i])) \in Nat /\ Cardinality(Up(i)) \in Nat
    <3>1. Cardinality(Up(i)) \in Nat
      BY <1>2
    <3> QED BY <1>1, <3>1, PlacesAre
  <2> HIDE DEF Up
  <2> QED BY <2>2, <2>3, <2>4
<1>4. ASSUME NEW k \in 1..Len(queue), k > i, queue[k] = queue[i]
      PROVE  Rank(k) # Rank(i)
  <2>1. Up(i) \in SUBSET Up(k) /\ k \in Up(k) /\ k \notin Up(i)
    BY <1>1, <1>4
  <2>2. Cardinality(Up(i)) # Cardinality(Up(k))
    <3> HIDE DEF Up
    <3> QED BY <1>2, <2>1, FS_Subset
  <2>3. Rank(i) = Cardinality(Up(i)) /\ Rank(k) = Cardinality(Up(k))
    BY <1>4 DEF Rank
  <2> QED BY <2>2, <2>3
<1>5. Rank(i) = Cardinality(Up(i))
  BY DEF Rank
<1> QED BY <1>3, <1>4, <1>5

\* The places of a queue are told apart by pin and rank, and there are at most two ranks.
LEMMA RoomIsLeft ==
    ASSUME InputInv, NEW p \in Pins, ~pending[p]
    PROVE  Len(queue) < 2 * Cardinality(Pins)
<1> DEFINE Ranks == Pins \X (1..2)
           Kept == Ranks \ {<<p, 2>>}
           f == [i \in 1..Len(queue) |-> <<queue[i], Rank(i)>>]
<1>1. queue \in Seq(Pins) /\ Len(queue) \in Nat /\ InputTypeOK
  BY DEF InputInv, InputTypeOK
<1>2. \A q \in Pins : Cardinality(Places(queue, q)) \in Nat /\ Cardinality(Places(queue, q)) <= InFlight(q)
  BY <1>1, PlacesAre, InFlightIs
<1>3. \A q \in Pins : Cardinality(Places(queue, q)) <= IF q = p THEN 1 ELSE 2
  <2>1. \A q \in Pins : InFlight(q) \in Nat /\ InFlight(q) <= IF q = p THEN 1 ELSE 2
    BY <1>1, FlightType DEF InputInv, FlightInv
  <2> QED BY <1>2, <2>1
<1>4. IsFiniteSet(Ranks) /\ Cardinality(Ranks) = 2 * Cardinality(Pins) /\ Cardinality(Pins) \in Nat
  <2>1. IsFiniteSet(1..2) /\ Cardinality(1..2) = 2 /\ IsFiniteSet(Pins) /\ Cardinality(Pins) \in Nat
    <3>1. IsFiniteSet(1..2) /\ Cardinality(1..2) = 2
      <4>1. IsFiniteSet(1..2) /\ Cardinality(1..2) = IF 1 > 2 THEN 0 ELSE 2 - 1 + 1
        BY FS_Interval, 1 \in Int, 2 \in Int, Zenon
      <4> QED BY <4>1
    <3>2. IsFiniteSet(Pins)
      BY InputAssumption
    <3> QED BY <3>1, <3>2, FS_CardinalityType
  <2>2. IsFiniteSet(Ranks) /\ Cardinality(Ranks) = Cardinality(Pins) * Cardinality(1..2)
    BY <2>1, FS_Product
  <2> QED BY <2>1, <2>2
<1>5. IsFiniteSet(Kept) /\ Cardinality(Kept) = 2 * Cardinality(Pins) - 1
  <2>1. <<p, 2>> \in Ranks
    OBVIOUS
  <2> HIDE DEF Ranks
  <2> QED BY <1>4, <2>1, FS_RemoveElement
<1>6. f \in Injection(1..Len(queue), Kept)
  <2>1. \A i \in 1..Len(queue) : f[i] \in Kept
    <3> SUFFICES ASSUME NEW i \in 1..Len(queue) PROVE <<queue[i], Rank(i)>> \in Kept
      OBVIOUS
    <3>1. queue[i] \in Pins
      BY <1>1
    <3>2. Rank(i) \in 1..Cardinality(Places(queue, queue[i]))
      BY <1>1, RankIs
    <3>3. Rank(i) \in 1..2 /\ (queue[i] = p => Rank(i) = 1)
      BY <1>2, <1>3, <3>1, <3>2
    <3> QED BY <3>1, <3>3
  <2>2. \A i, k \in 1..Len(queue) : f[i] = f[k] => i = k
    <3> SUFFICES ASSUME NEW i \in 1..Len(queue), NEW k \in 1..Len(queue), i < k, queue[i] = queue[k], Rank(i) = Rank(k)
                 PROVE  FALSE
      BY <1>1
    <3> QED BY <1>1, RankIs
  <2> QED BY <2>1, <2>2 DEF Injection, IsInjective
<1>7. Cardinality(1..Len(queue)) = Len(queue)
  <2>1. Cardinality(1..Len(queue)) = IF 1 > Len(queue) THEN 0 ELSE Len(queue) - 1 + 1
    <3>1. Len(queue) \in Int /\ 1 \in Int
      BY <1>1
    <3> QED BY <3>1, FS_Interval, Zenon
  <2> QED BY <1>1, <2>1
<1>8. Cardinality(1..Len(queue)) <= Cardinality(Kept)
  <2> HIDE DEF f, Kept
  <2> QED BY <1>5, <1>6, FS_Injection
<1> QED BY <1>1, <1>4, <1>5, <1>7, <1>8

\* The handler of a pin that is not pending finds room in the queue.
EdgesAreQueued == \A p \in Pins : irq[p] /\ ~pending[p] => Len(queue) < QueueLength

\* A queue of two events for every pin, as the eight of trigger_svc.c are for its two, is
\* never full when a handler has one to post: no edge is lost in xQueueSendFromISR.
THEOREM NoEdgeIsLost ==
    ASSUME QueueLength >= 2 * Cardinality(Pins)
    PROVE  InputSpec => []EdgesAreQueued
<1>1. InputInv => EdgesAreQueued
  <2> SUFFICES ASSUME InputInv, NEW p \in Pins, ~pending[p] PROVE Len(queue) < QueueLength
    BY DEF EdgesAreQueued
  <2>1. Len(queue) \in Nat /\ Len(queue) < 2 * Cardinality(Pins)
    BY RoomIsLeft DEF InputInv, InputTypeOK
  <2>2. Cardinality(Pins) \in Nat /\ QueueLength \in Nat
    BY InputAssumption, FS_CardinalityType
  <2> QED BY <2>1, <2>2
<1> QED BY <1>1, InputInitInv, InputNextInv, PTL DEF InputSpec

-----------------------------------------------------------------------------
(* LineInput *)

\* A set of natural numbers has a least one, and one with a bound a greatest one.
LEMMA LeastIn ==
    ASSUME NEW S \in SUBSET Nat, S # {}
    PROVE  Min(S) \in S /\ \A v \in S : Min(S) =< v
<1>1. PICK w \in S : \A v \in S : <<v, w>> \notin OpToRel(<, Nat)
  BY NatLessThanWellFounded, WFMin
<1>2. ASSUME NEW v \in S, v < w PROVE FALSE
  <2>1. <<v, w>> \in OpToRel(<, Nat)
    BY <1>2 DEF OpToRel
  <2> QED BY <1>1, <2>1
<1>3. \A v \in S : w =< v
  BY <1>2
<1> QED BY <1>3 DEF Min

LEMMA GreatestIn ==
    ASSUME NEW n \in Nat, NEW S \in SUBSET (1..n), S # {}
    PROVE  Max(S) \in S /\ \A v \in S : v =< Max(S)
<1> DEFINE T == {n - v : v \in S}
<1>1. T \in SUBSET Nat /\ T # {} /\ \A v \in S : n - v \in T
  <2>1. \A v \in S : n - v \in Nat
    OBVIOUS
  <2>2. T \in SUBSET Nat
    BY <2>1
  <2> QED BY <2>2
<1>2. Min(T) \in T /\ \A u \in T : Min(T) =< u
  BY <1>1, LeastIn
<1>3. PICK w \in S : Min(T) = n - w
  BY <1>2
<1> HIDE DEF T
<1>4. \A v \in S : v =< w
  BY <1>1, <1>2, <1>3
<1>5. \A v \in S : w >= v
  BY <1>4
<1> QED BY <1>4, <1>5 DEF Max

\* A stretch of a line, and a stretch of that.
LEMMA Stretch ==
    ASSUME NEW s \in Seq(Bytes), NEW i \in 1..(Len(s) + 1), NEW j \in (i - 1)..Len(s)
    PROVE  /\ SubSeq(s, i, j) \in Seq(Bytes) /\ Len(SubSeq(s, i, j)) = j - i + 1
           /\ \A k \in 1..(j - i + 1) : SubSeq(s, i, j)[k] = s[k + i - 1]
<1>1. \A k \in i..j : s[k] \in Bytes
  OBVIOUS
<1> HIDE DEF Bytes
<1> QED BY <1>1, SubSeqProperties

LEMMA StretchOfStretch ==
    ASSUME NEW s \in Seq(Bytes), NEW i \in 1..(Len(s) + 1), NEW j \in (i - 1)..Len(s),
           NEW m \in 1..(j - i + 2), NEW n \in (m - 1)..(j - i + 1)
    PROVE  SubSeq(SubSeq(s, i, j), m, n) = SubSeq(s, i + m - 1, i + n - 1)
<1> DEFINE t == SubSeq(s, i, j)
           u == SubSeq(t, m, n)
           v == SubSeq(s, i + m - 1, i + n - 1)
<1>1. t \in Seq(Bytes) /\ Len(t) = j - i + 1 /\ \A k \in 1..(j - i + 1) : t[k] = s[k + i - 1]
  BY Stretch
<1>2. m \in 1..(Len(t) + 1) /\ n \in (m - 1)..Len(t)
  BY <1>1
<1> HIDE DEF t
<1>3. u \in Seq(Bytes) /\ Len(u) = n - m + 1 /\ \A k \in 1..(n - m + 1) : u[k] = t[k + m - 1]
  BY <1>1, <1>2, Stretch
<1>4. i + m - 1 \in 1..(Len(s) + 1) /\ i + n - 1 \in ((i + m - 1) - 1)..Len(s)
      /\ (i + n - 1) - (i + m - 1) + 1 = n - m + 1
  OBVIOUS
<1>5. v \in Seq(Bytes) /\ Len(v) = n - m + 1 /\ \A k \in 1..(n - m + 1) : v[k] = s[k + i + m - 2]
  <2>1. /\ v \in Seq(Bytes) /\ Len(v) = n - m + 1
        /\ \A k \in 1..(n - m + 1) : v[k] = s[k + (i + m - 1) - 1]
    BY <1>4, Stretch
  <2> HIDE DEF v
  <2>2. \A k \in 1..(n - m + 1) : k + (i + m - 1) - 1 = k + i + m - 2
    OBVIOUS
  <2> QED BY <2>1, <2>2
<1> HIDE DEF u, v
<1>6. \A k \in 1..Len(u) : u[k] = v[k]
  <2> SUFFICES ASSUME NEW k \in 1..(n - m + 1) PROVE u[k] = v[k]
    BY <1>3
  <2>1. k + m - 1 \in 1..(j - i + 1)
    OBVIOUS
  <2>2. u[k] = s[(k + m - 1) + i - 1]
    BY <1>1, <1>3, <2>1
  <2>3. (k + m - 1) + i - 1 = k + i + m - 2
    OBVIOUS
  <2> QED BY <1>5, <2>2, <2>3
<1>7. u = v
  BY <1>3, <1>5, <1>6, SeqEqual
<1> QED BY <1>7 DEF t, u, v

\* What the loops over the leading and the trailing bytes leave.
LEMMA LstripIs ==
    ASSUME NEW s \in Seq(Bytes), NEW S
    PROVE  \E a \in 1..(Len(s) + 1) :
               /\ Lstrip(s, S) = SubSeq(s, a, Len(s))
               /\ \A k \in 1..(a - 1) : s[k] \in S
               /\ a <= Len(s) => s[a] \notin S
<1>1. Others(s, S) \in SUBSET (1..Len(s)) /\ Len(s) \in Nat
      /\ \A k \in 1..Len(s) : k \in Others(s, S) <=> s[k] \notin S
  BY DEF Others
<1>2. CASE Others(s, S) = {}
  <2>1. Lstrip(s, S) = SubSeq(s, Len(s) + 1, Len(s))
    BY <1>1, <1>2, SubSeqEmpty DEF Lstrip
  <2>2. Len(s) + 1 \in 1..(Len(s) + 1)
    BY <1>1
  <2> QED BY <1>1, <1>2, <2>1, <2>2
<1>3. CASE Others(s, S) # {}
  <2> DEFINE a == Min(Others(s, S))
  <2>1. a \in Others(s, S) /\ \A v \in Others(s, S) : a =< v
    BY <1>1, <1>3, LeastIn
  <2>2. Lstrip(s, S) = SubSeq(s, a, Len(s))
    BY <1>3 DEF Lstrip
  <2> HIDE DEF a
  <2>3. a \in 1..Len(s) /\ s[a] \notin S
    BY <1>1, <2>1
  <2>4. ASSUME NEW k \in 1..(a - 1) PROVE s[k] \in S
    <3>1. k \in 1..Len(s) /\ ~(a =< k)
      BY <2>3
    <3> QED BY <1>1, <2>1, <3>1
  <2> QED BY <1>1, <2>2, <2>3, <2>4
<1> QED BY <1>2, <1>3

LEMMA RstripIs ==
    ASSUME NEW s \in Seq(Bytes), NEW S
    PROVE  \E b \in 0..Len(s) :
               /\ Rstrip(s, S) = SubSeq(s, 1, b)
               /\ \A k \in (b + 1)..Len(s) : s[k] \in S
               /\ b > 0 => s[b] \notin S
<1>1. Others(s, S) \in SUBSET (1..Len(s)) /\ Len(s) \in Nat
      /\ \A k \in 1..Len(s) : k \in Others(s, S) <=> s[k] \notin S
  BY DEF Others
<1>2. CASE Others(s, S) = {}
  <2>1. Rstrip(s, S) = SubSeq(s, 1, 0)
    BY <1>1, <1>2, SubSeqEmpty DEF Rstrip
  <2> QED BY <1>1, <1>2, <2>1
<1>3. CASE Others(s, S) # {}
  <2> DEFINE b == Max(Others(s, S))
  <2>1. b \in Others(s, S) /\ \A v \in Others(s, S) : v =< b
    BY <1>1, <1>3, GreatestIn
  <2>2. Rstrip(s, S) = SubSeq(s, 1, b)
    BY <1>3 DEF Rstrip
  <2> HIDE DEF b
  <2> QED BY <1>1, <2>1, <2>2
<1> QED BY <1>2, <1>3

\* scpi_handler_trim takes the spaces at both ends, and no other byte.
LEMMA TrimIs ==
    ASSUME NEW s \in Seq(Bytes)
    PROVE  \E a \in 1..(Len(s) + 1) : \E b \in (a - 1)..Len(s) :
               /\ scpi_handler_trim(s) = SubSeq(s, a, b)
               /\ \A k \in 1..(a - 1) : s[k] \in Spaces
               /\ \A k \in (b + 1)..Len(s) : s[k] \in Spaces
               /\ a <= b => s[a] \notin Spaces /\ s[b] \notin Spaces
<1>1. PICK a \in 1..(Len(s) + 1) :
          /\ Lstrip(s, Spaces) = SubSeq(s, a, Len(s))
          /\ \A k \in 1..(a - 1) : s[k] \in Spaces
          /\ a <= Len(s) => s[a] \notin Spaces
  BY LstripIs
<1> DEFINE t == SubSeq(s, a, Len(s))
<1>2. t \in Seq(Bytes) /\ Len(t) = Len(s) - a + 1
      /\ \A k \in 1..(Len(s) - a + 1) : t[k] = s[k + a - 1]
  <2>1. Len(s) \in (a - 1)..Len(s)
    OBVIOUS
  <2> QED BY <2>1, Stretch
<1> HIDE DEF t
<1>3. PICK c \in 0..Len(t) :
          /\ Rstrip(t, Spaces) = SubSeq(t, 1, c)
          /\ \A k \in (c + 1)..Len(t) : t[k] \in Spaces
          /\ c > 0 => t[c] \notin Spaces
  BY <1>2, RstripIs
<1> DEFINE b == a + c - 1
<1>4. b \in (a - 1)..Len(s) /\ (c > 0 <=> a <= b)
  BY <1>2, <1>3
<1>5. scpi_handler_trim(s) = SubSeq(s, a, b)
  <2>1. SubSeq(t, 1, c) = SubSeq(s, a + 1 - 1, b)
    <3>1. Len(s) \in (a - 1)..Len(s) /\ 1 \in 1..(Len(s) - a + 2) /\ c \in (1 - 1)..(Len(s) - a + 1)
      BY <1>2, <1>3
    <3> QED BY <3>1, StretchOfStretch DEF t
  <2>2. a + 1 - 1 = a
    OBVIOUS
  <2> QED BY <1>1, <1>3, <2>1, <2>2 DEF scpi_handler_trim, t
<1>6. ASSUME NEW k \in (b + 1)..Len(s) PROVE s[k] \in Spaces
  <2>1. k - a + 1 \in (c + 1)..Len(t) /\ (k - a + 1) + a - 1 = k
        /\ k - a + 1 \in 1..(Len(s) - a + 1)
    BY <1>2, <1>3, <1>6
  <2>2. t[k - a + 1] = s[k]
    BY <1>2, <2>1
  <2> QED BY <1>3, <2>1, <2>2
<1>7. ASSUME a <= b PROVE s[a] \notin Spaces /\ s[b] \notin Spaces
  <2>1. c \in 1..(Len(s) - a + 1) /\ c + a - 1 = b /\ a <= Len(s)
    BY <1>2, <1>3, <1>4, <1>7
  <2>2. t[c] = s[b]
    BY <1>2, <2>1
  <2> QED BY <1>1, <1>3, <2>1, <2>2
<1> HIDE DEF b
<1> QED BY <1>1, <1>4, <1>5, <1>6, <1>7

\* The first space of a trimmed line ends its keyword, and the argument begins behind all that
\* follow it.
LEMMA ParseIs ==
    ASSUME NEW t \in Seq(Bytes), t # <<>>, t[1] \notin Spaces, t[Len(t)] \notin Spaces,
           NEW c, c = scpi_handler_parse_command(t)
    PROVE  /\ c # Nothing /\ c.keyword # <<>> /\ ToSet(c.keyword) \cap Spaces = {}
           /\ c.argument # <<>> => {Head(c.argument), Last(c.argument)} \cap Spaces = {}
           /\ \E gap \in BoundedSeq(Spaces, Len(t)) :
                  /\ t = c.keyword \o gap \o c.argument
                  /\ (gap = <<>>) <=> (c.argument = <<>>)
<1> DEFINE gaps == {i \in DOMAIN t : t[i] \in Spaces}
<1>1. /\ gaps \in SUBSET (2..(Len(t) - 1)) /\ Len(t) \in Nat \ {0}
      /\ \A k \in 1..Len(t) : k \in gaps <=> t[k] \in Spaces
  <2>1. Len(t) \in Nat \ {0} /\ DOMAIN t = 1..Len(t)
    OBVIOUS
  <2>2. \A k \in gaps : k # 1 /\ k # Len(t)
    OBVIOUS
  <2> QED BY <2>1, <2>2
<1>2. c = IF gaps = {} THEN Command(t, <<>>)
          ELSE Command(SubSeq(t, 1, Min(gaps) - 1), scpi_handler_trim(SubSeq(t, Min(gaps), Len(t))))
  BY DEF scpi_handler_parse_command
<1> HIDE DEF gaps
<1>3. c # Nothing
  <2>1. c.kind = "command"
    BY <1>2 DEF Command
  <2> QED BY <2>1 DEF Nothing
<1>4. CASE gaps = {}
  <2>1. c.keyword = t /\ c.argument = <<>>
    BY <1>2, <1>4 DEF Command
  <2>2. ToSet(t) \cap Spaces = {}
    <3>1. \A k \in 1..Len(t) : t[k] \notin Spaces
      BY <1>1, <1>4
    <3>2. DOMAIN t = 1..Len(t)
      OBVIOUS
    <3> QED BY <3>1, <3>2 DEF ToSet
  <2>3. t = t \o <<>> \o <<>>
    BY ConcatEmptySeq
  <2>4. <<>> \in BoundedSeq(Spaces, Len(t))
    <3>1. <<>> \in [1..0 -> Spaces] /\ 0 \in 0..Len(t)
      BY <1>1
    <3> QED BY <3>1 DEF BoundedSeq, SeqOf
  <2>5. \E gap \in BoundedSeq(Spaces, Len(t)) :
            t = c.keyword \o gap \o c.argument /\ ((gap = <<>>) <=> (c.argument = <<>>))
    <3> WITNESS <<>> \in BoundedSeq(Spaces, Len(t))
    <3> QED BY <2>1, <2>3
  <2> QED BY <1>3, <2>1, <2>2, <2>5
<1>5. CASE gaps # {}
  <2> DEFINE n == Len(t)
             k == Min(gaps)
             word == SubSeq(t, 1, k - 1)
             rest == SubSeq(t, k, n)
  <2>1. k \in gaps /\ \A i \in gaps : k =< i
    <3>1. gaps \in SUBSET Nat
      BY <1>1
    <3> QED BY <1>5, <3>1, LeastIn
  <2>3. c.keyword = word /\ c.argument = scpi_handler_trim(rest)
    <3>1. c = Command(word, scpi_handler_trim(rest))
      BY <1>2, <1>5
    <3> HIDE DEF word, rest
    <3> QED BY <3>1 DEF Command
  <2> HIDE DEF k
  <2>2. k \in 2..(n - 1) /\ n \in Nat /\ t[k] \in Spaces
    <3>1. k \in 2..(n - 1) /\ n \in Nat
      BY <1>1, <2>1
    <3>2. k \in 1..Len(t)
      BY <3>1
    <3> QED BY <1>1, <2>1, <3>1, <3>2
  <2>4. word \in Seq(Bytes) /\ Len(word) = k - 1 /\ \A i \in 1..(k - 1) : word[i] = t[i]
    <3>1. 1 \in 1..(Len(t) + 1) /\ k - 1 \in (1 - 1)..Len(t) /\ k - 1 - 1 + 1 = k - 1
      BY <2>2
    <3>2. \A i \in 1..(k - 1) : i + 1 - 1 = i
      BY <2>2
    <3> QED BY <3>1, <3>2, Stretch
  <2>5. rest \in Seq(Bytes) /\ Len(rest) = n - k + 1 /\ \A i \in 1..(n - k + 1) : rest[i] = t[i + k - 1]
    <3>1. k \in 1..(Len(t) + 1) /\ n \in (k - 1)..Len(t)
      BY <2>2
    <3> QED BY <3>1, Stretch
  <2>6. \E a \in 2..(n - k + 1) : /\ scpi_handler_trim(rest) = SubSeq(rest, a, n - k + 1)
                                  /\ \A i \in 1..(a - 1) : rest[i] \in Spaces
                                  /\ rest[a] \notin Spaces
    <3> HIDE DEF rest
    <3>1. PICK a \in 1..(Len(rest) + 1) : \E b \in (a - 1)..Len(rest) :
               /\ scpi_handler_trim(rest) = SubSeq(rest, a, b)
               /\ \A i \in 1..(a - 1) : rest[i] \in Spaces
               /\ \A i \in (b + 1)..Len(rest) : rest[i] \in Spaces
               /\ a <= b => rest[a] \notin Spaces /\ rest[b] \notin Spaces
      BY <2>5, TrimIs
    <3>2. PICK b \in (a - 1)..Len(rest) :
               /\ scpi_handler_trim(rest) = SubSeq(rest, a, b)
               /\ \A i \in (b + 1)..Len(rest) : rest[i] \in Spaces
               /\ a <= b => rest[a] \notin Spaces /\ rest[b] \notin Spaces
      BY <3>1
    <3>3. Len(rest) = n - k + 1 /\ n - k + 1 \in Nat /\ n - k + 1 >= 2
      BY <2>2, <2>5
    <3>4. rest[1] \in Spaces /\ rest[n - k + 1] \notin Spaces
      <4>1. 1 \in 1..(n - k + 1) /\ n - k + 1 \in 1..(n - k + 1) /\ 1 + k - 1 = k /\ (n - k + 1) + k - 1 = n
        BY <2>2
      <4>2. rest[1] = t[k] /\ rest[n - k + 1] = t[n]
        BY <2>5, <4>1
      <4> QED BY <2>2, <4>2
    <3>5. b = n - k + 1
      <4>1. ~(n - k + 1 \in (b + 1)..Len(rest))
        BY <3>2, <3>4
      <4> QED BY <3>2, <3>3, <4>1
    <3>6. a # n - k + 2
      <4>1. ~(n - k + 1 \in 1..(a - 1))
        BY <3>1, <3>4
      <4>2. ASSUME a = n - k + 2 PROVE n - k + 1 \in 1..(a - 1)
        BY <2>2, <4>2
      <4> QED BY <4>1, <4>2
    <3>7. a \in 1..(n - k + 1) /\ rest[a] \notin Spaces
      <4>1. a \in 1..(n - k + 2)
        BY <2>2, <3>1, <3>3
      <4>2. a \in 1..(n - k + 1)
        BY <2>2, <3>6, <4>1
      <4>3. a <= b
        BY <2>2, <3>5, <4>2
      <4> QED BY <3>2, <4>2, <4>3
    <3>8. a \in 2..(n - k + 1)
      BY <3>4, <3>7
    <3> QED BY <3>1, <3>2, <3>5, <3>7, <3>8
  <2>7. PICK a \in 2..(n - k + 1) : /\ scpi_handler_trim(rest) = SubSeq(rest, a, n - k + 1)
                                    /\ \A i \in 1..(a - 1) : rest[i] \in Spaces
                                    /\ rest[a] \notin Spaces
    BY <2>6
  <2> DEFINE p == k + a - 1
             gap == SubSeq(t, k, p - 1)
             argument == SubSeq(t, p, n)
  <2>8. p \in (k + 1)..n /\ (n - k + 1) + k - 1 = n /\ p = a + k - 1
    BY <2>2, <2>7
  <2>9. scpi_handler_trim(rest) = argument
    <3>1. k \in 1..(Len(t) + 1) /\ n \in (k - 1)..Len(t) /\ a \in 1..(n - k + 2)
          /\ n - k + 1 \in (a - 1)..(n - k + 1) /\ k + a - 1 = p /\ k + (n - k + 1) - 1 = n
      BY <2>2, <2>7, <2>8
    <3>2. SubSeq(rest, a, n - k + 1) = SubSeq(t, k + a - 1, k + (n - k + 1) - 1)
      BY <3>1, StretchOfStretch
    <3> QED BY <2>7, <3>1, <3>2
  <2> HIDE DEF p
  <2>10. argument \in Seq(Bytes) /\ Len(argument) = n - p + 1
         /\ \A i \in 1..(n - p + 1) : argument[i] = t[i + p - 1]
    <3>1. p \in 1..(Len(t) + 1) /\ n \in (p - 1)..Len(t)
      BY <2>2, <2>8
    <3> QED BY <3>1, Stretch
  <2>11. gap \in Seq(Bytes) /\ Len(gap) = p - k /\ \A i \in 1..(p - k) : gap[i] = t[i + k - 1]
    <3>1. k \in 1..(Len(t) + 1) /\ p - 1 \in (k - 1)..Len(t) /\ (p - 1) - k + 1 = p - k
      BY <2>2, <2>8
    <3> QED BY <3>1, Stretch
  <2>12. t = word \o gap \o argument
    <3>1. word \o gap = SubSeq(t, 1, p - 1)
      <4>1. 1 \in 1..(Len(t) + 1) /\ k - 1 \in (1 - 1)..Len(t) /\ p - 1 \in (k - 1)..Len(t)
            /\ k - 1 + 1 = k
        BY <2>2, <2>8
      <4> QED BY <4>1, ConcatAdjacentSubSeq
    <3>2. SubSeq(t, 1, p - 1) \o argument = SubSeq(t, 1, n)
      <4>1. 1 \in 1..(Len(t) + 1) /\ p - 1 \in (1 - 1)..Len(t) /\ n \in (p - 1)..Len(t)
            /\ p - 1 + 1 = p
        BY <2>2, <2>8
      <4> QED BY <4>1, ConcatAdjacentSubSeq
    <3>3. SubSeq(t, 1, n) = t
      BY SubSeqFull
    <3> QED BY <3>1, <3>2, <3>3
  <2> HIDE DEF word, rest, gap, argument
  <2>13. ToSet(word) \cap Spaces = {} /\ word # <<>>
    <3>1. \A i \in 1..(k - 1) : t[i] \notin Spaces
      <4> SUFFICES ASSUME NEW i \in 1..(k - 1), i \in gaps PROVE FALSE
        BY <1>1, <2>2
      <4> QED BY <2>1, <2>2
    <3>2. DOMAIN word = 1..(k - 1)
      BY <2>4
    <3>3. Len(word) > 0
      BY <2>2, <2>4
    <3> QED BY <2>4, <3>1, <3>2, <3>3 DEF ToSet
  <2>14. gap \in BoundedSeq(Spaces, n) /\ gap # <<>>
    <3>1. ASSUME NEW i \in 1..(p - k) PROVE gap[i] \in Spaces
      <4>1. i \in 1..(a - 1) /\ i \in 1..(n - k + 1)
        BY <2>2, <2>7, <2>8
      <4>2. rest[i] \in Spaces /\ rest[i] = t[i + k - 1]
        BY <2>5, <2>7, <4>1
      <4> QED BY <2>11, <4>2
    <3>2. gap \in [1..(p - k) -> Spaces] /\ p - k \in 0..n /\ Len(gap) > 0
      <4>1. gap \in [1..(p - k) -> Bytes]
        BY <2>11, LenProperties
      <4>2. p - k \in 0..n /\ Len(gap) > 0
        BY <2>2, <2>8, <2>11
      <4> QED BY <3>1, <4>1, <4>2
    <3> QED BY <3>2 DEF BoundedSeq, SeqOf
  <2>15. argument # <<>> /\ {Head(argument), Last(argument)} \cap Spaces = {}
    <3>1. Len(argument) > 0 /\ 1 \in 1..(n - p + 1) /\ n - p + 1 \in 1..(n - p + 1)
          /\ 1 + p - 1 = p /\ (n - p + 1) + p - 1 = n
      BY <2>2, <2>8, <2>10
    <3>2. argument[1] = t[p] /\ argument[Len(argument)] = t[n]
      BY <2>10, <3>1
    <3>3. t[p] \notin Spaces
      <4>1. a \in 1..(n - k + 1) /\ a + k - 1 = p
        BY <2>2, <2>7, <2>8
      <4> QED BY <2>5, <2>7, <4>1
    <3>4. Head(argument) = argument[1] /\ argument # <<>>
      BY <2>10, <3>1
    <3> QED BY <3>2, <3>3, <3>4 DEF Last
  <2>16. c.keyword = word /\ c.argument = argument
    BY <2>3, <2>9 DEF rest
  <2>17. \E g \in BoundedSeq(Spaces, Len(t)) :
             t = c.keyword \o g \o c.argument /\ ((g = <<>>) <=> (c.argument = <<>>))
    BY <2>12, <2>14, <2>15, <2>16
  <2> QED BY <1>3, <2>13, <2>15, <2>16, <2>17
<1> QED BY <1>4, <1>5

\* What is handed on is the command a reader of the whole line takes from it.
LEMMA HandledIs ==
    ASSUME NEW s \in Seq(Bytes)
    PROVE  IsCommandOf(Handled(s), s)
<1> DEFINE n == Len(s)
           Before == Spaces \cup (IF transport = "tcp" THEN {"'"} ELSE {})
           line == IF transport = "tcp" THEN tcp_server_sanitize_command(s) ELSE s
           t == scpi_handler_trim(line)
           c == Handled(s)
<1>1. n \in Nat /\ c = IF t = <<>> THEN Nothing ELSE scpi_handler_parse_command(t)
  BY DEF Handled
<1>2. \E a \in 1..(n + 1) : line = SubSeq(s, a, n) /\ \A k \in 1..(a - 1) : s[k] \in Before
  <2>1. CASE transport = "tcp"
    <3>1. PICK a \in 1..(n + 1) : Lstrip(s, {"'", " "}) = SubSeq(s, a, n)
                                  /\ \A k \in 1..(a - 1) : s[k] \in {"'", " "}
      BY LstripIs
    <3>2. {"'", " "} \subseteq Before
      BY <2>1 DEF Spaces
    <3>3. line = SubSeq(s, a, n)
      BY <2>1, <3>1 DEF tcp_server_sanitize_command
    <3> HIDE DEF line, Before
    <3> QED BY <3>1, <3>2, <3>3
  <2>2. CASE transport # "tcp"
    <3>1. line = SubSeq(s, 1, n) /\ 1 \in 1..(n + 1)
      BY <1>1, <2>2, SubSeqFull
    <3> HIDE DEF line, Before
    <3> QED BY <3>1
  <2> QED BY <2>1, <2>2
<1>3. Spaces \subseteq Before
  OBVIOUS
<1> HIDE DEF line, c, Before
<1>4. PICK a \in 1..(n + 1) : line = SubSeq(s, a, n) /\ \A k \in 1..(a - 1) : s[k] \in Before
  BY <1>2
<1>5. line \in Seq(Bytes) /\ Len(line) = n - a + 1 /\ \A k \in 1..(n - a + 1) : line[k] = s[k + a - 1]
  <2>1. n \in (a - 1)..n
    BY <1>1
  <2> QED BY <1>4, <2>1, Stretch
<1>6. PICK first \in 1..(Len(line) + 1) : \E last \in (first - 1)..Len(line) :
          /\ t = SubSeq(line, first, last)
          /\ \A k \in 1..(first - 1) : line[k] \in Spaces
          /\ \A k \in (last + 1)..Len(line) : line[k] \in Spaces
          /\ first <= last => line[first] \notin Spaces /\ line[last] \notin Spaces
  BY <1>5, TrimIs
<1>7. PICK last \in (first - 1)..Len(line) :
          /\ t = SubSeq(line, first, last)
          /\ \A k \in (last + 1)..Len(line) : line[k] \in Spaces
          /\ first <= last => line[first] \notin Spaces /\ line[last] \notin Spaces
  BY <1>6
<1> HIDE DEF t
<1> DEFINE i == a + first - 2
           j == a + last - 1
<1>8. /\ first \in 1..(n - a + 2) /\ last \in (first - 1)..(n - a + 1)
      /\ i \in 0..n /\ j \in i..n
      /\ a + first - 1 = i + 1
  <2>1. Len(line) = n - a + 1 /\ a \in 1..(n + 1) /\ n \in Nat
    BY <1>1, <1>5
  <2>2. first \in 1..(n - a + 2)
    BY <2>1
  <2>3. last \in (first - 1)..(n - a + 1)
    BY <2>1
  <2> HIDE DEF n
  <2> QED BY <2>1, <2>2, <2>3
<1>9. t = SubSeq(s, i + 1, j) /\ t \in Seq(Bytes) /\ Len(t) = j - i
  <2>1. n \in (a - 1)..Len(s) /\ i + 1 \in 1..(Len(s) + 1) /\ j \in ((i + 1) - 1)..Len(s)
        /\ j - (i + 1) + 1 = j - i
    BY <1>1, <1>8
  <2>2. t = SubSeq(s, a + first - 1, a + last - 1)
    BY <1>4, <1>7, <1>8, <2>1, StretchOfStretch
  <2>3. t = SubSeq(s, i + 1, j)
    BY <1>8, <2>2
  <2> HIDE DEF i, j
  <2> QED BY <2>1, <2>3, Stretch
<1>10. ToSet(SubSeq(s, 1, i)) \subseteq Before
  <2>1. ASSUME NEW k \in 1..i PROVE s[k] \in Before
    <3>1. CASE k < a
      BY <1>4, <2>1, <3>1
    <3>2. CASE k >= a
      <4>1. k - a + 1 \in 1..(first - 1) /\ k - a + 1 \in 1..(n - a + 1) /\ (k - a + 1) + a - 1 = k
        BY <1>1, <1>8, <2>1, <3>2
      <4>2. line[k - a + 1] = s[k]
        BY <1>5, <4>1
      <4> QED BY <1>3, <1>6, <4>1, <4>2
    <3> QED BY <2>1, <3>1, <3>2
  <2> DEFINE u == SubSeq(s, 1, i)
  <2>2. u \in Seq(Bytes) /\ Len(u) = i /\ \A k \in 1..i : u[k] = s[k]
    <3>1. 1 \in 1..(Len(s) + 1) /\ i \in (1 - 1)..Len(s) /\ i - 1 + 1 = i /\ \A k \in 1..i : k + 1 - 1 = k
      BY <1>1, <1>8
    <3> HIDE DEF i
    <3> QED BY <3>1, Stretch
  <2> HIDE DEF u, i
  <2>3. DOMAIN u = 1..i
    BY <2>2
  <2>4. ToSet(u) \subseteq Before
    BY <2>1, <2>2, <2>3 DEF ToSet
  <2> QED BY <2>4 DEF u
<1>11. ToSet(SubSeq(s, j + 1, n)) \subseteq Spaces
  <2>1. ASSUME NEW k \in (j + 1)..n PROVE s[k] \in Spaces
    <3>1. k - a + 1 \in (last + 1)..Len(line) /\ k - a + 1 \in 1..(n - a + 1) /\ (k - a + 1) + a - 1 = k
      BY <1>1, <1>5, <1>8, <2>1
    <3>2. line[k - a + 1] = s[k]
      BY <1>5, <3>1
    <3> QED BY <1>7, <3>1, <3>2
  <2> DEFINE u == SubSeq(s, j + 1, n)
  <2>2. u \in Seq(Bytes) /\ Len(u) = n - j /\ \A k \in 1..(n - j) : u[k] = s[k + j]
    <3>1. j + 1 \in 1..(Len(s) + 1) /\ n \in ((j + 1) - 1)..Len(s) /\ n - (j + 1) + 1 = n - j
          /\ \A k \in 1..(n - j) : k + (j + 1) - 1 = k + j
      BY <1>1, <1>8
    <3> HIDE DEF j
    <3> QED BY <3>1, Stretch
  <2>3. \A k \in 1..(n - j) : k + j \in (j + 1)..n
    BY <1>1, <1>8
  <2> HIDE DEF u, j
  <2>4. DOMAIN u = 1..(n - j)
    BY <2>2
  <2>5. ToSet(u) \subseteq Spaces
    BY <2>1, <2>2, <2>3, <2>4 DEF ToSet
  <2> QED BY <2>5 DEF u
<1>12. IF c = Nothing THEN i >= j
       ELSE \E gap \in BoundedSeq(Spaces, Len(s)) :
                /\ SubSeq(s, i + 1, j) = c.keyword \o gap \o c.argument
                /\ (gap = <<>>) <=> (c.argument = <<>>)
                /\ ToSet(c.keyword) \cap Spaces = {} /\ c.keyword # <<>>
                /\ c.argument # <<>> => {Head(c.argument), Last(c.argument)} \cap Spaces = {}
  <2>1. CASE t = <<>>
    <3>1. c = Nothing
      BY <1>1, <2>1
    <3>2. Len(t) = 0
      BY <2>1
    <3>3. i >= j
      BY <1>8, <1>9, <3>2
    <3> QED BY <3>1, <3>3
  <2>2. CASE t # <<>>
    <3>1. Len(t) > 0 /\ Len(t) = last - first + 1 /\ first <= last
      BY <1>8, <1>9, <2>2
    <3>2. t[1] \notin Spaces /\ t[Len(t)] \notin Spaces
      <4>1. first \in 1..(Len(line) + 1) /\ last \in (first - 1)..Len(line)
            /\ 1 \in 1..(last - first + 1) /\ 1 + first - 1 = first
            /\ last - first + 1 \in 1..(last - first + 1) /\ (last - first + 1) + first - 1 = last
        BY <1>1, <1>5, <1>8, <3>1
      <4>2. \A k \in 1..(last - first + 1) : t[k] = line[k + first - 1]
        BY <1>5, <1>7, <4>1, Stretch
      <4> QED BY <1>7, <3>1, <4>1, <4>2
    <3>3. c = scpi_handler_parse_command(t)
      BY <1>1, <2>2
    <3>4. /\ c # Nothing /\ c.keyword # <<>> /\ ToSet(c.keyword) \cap Spaces = {}
          /\ c.argument # <<>> => {Head(c.argument), Last(c.argument)} \cap Spaces = {}
          /\ \E gap \in BoundedSeq(Spaces, Len(t)) :
                  /\ t = c.keyword \o gap \o c.argument
                  /\ (gap = <<>>) <=> (c.argument = <<>>)
      <4>1. t \in Seq(Bytes)
        BY <1>9
      <4> QED BY <2>2, <3>2, <3>3, <4>1, ParseIs
    <3>5. BoundedSeq(Spaces, Len(t)) \subseteq BoundedSeq(Spaces, Len(s))
      <4>1. 0..Len(t) \subseteq 0..Len(s)
        BY <1>1, <1>8, <1>9
      <4> QED BY <4>1 DEF BoundedSeq, SeqOf
    <3> HIDE DEF i, j
    <3> QED BY <1>9, <3>4, <3>5
  <2> QED BY <2>1, <2>2
<1>13. i \in 0..Len(s) /\ j \in 0..Len(s)
  BY <1>1, <1>8
<1> HIDE DEF i, j
<1> QED BY <1>10, <1>11, <1>12, <1>13 DEF IsCommandOf, c, Before

\* A line nobody was told to be too long is in the buffer, and the buffer never holds more than it.
LineInv ==
    /\ LineTypeOK
    /\ ~told /\ ~foreign => buffer = meant
    /\ ~foreign => Len(buffer) <= Len(meant)

LEMMA LineSizes == Size \in Nat /\ MaxLine \in Nat
  BY LineAssumption

LEMMA NoBytes == <<>> \in Seq(Bytes) /\ Len(<<>>) = 0
OBVIOUS

\* An empty line is within all bounds.
LEMMA FreshLine ==
    /\ <<>> \in Seq(Bytes) /\ Len(<<>>) <= Size /\ Len(<<>>) <= MaxLine /\ Len(<<>>) <= Len(<<>>)
    /\ TRUE \in BOOLEAN /\ FALSE \in BOOLEAN
  BY NoBytes, LineSizes

LEMMA LineInvInit == LineInit => LineInv
  BY FreshLine DEF LineInit, LineInv, LineTypeOK

LEMMA SkippedAlike ==
    ASSUME LineInv, ~foreign, NEW b, Skipped(b, meant)
    PROVE  Skipped(b, buffer)
<1>1. meant = <<>> => buffer = <<>>
  BY DEF LineInv, LineTypeOK
<1> QED BY <1>1 DEF Skipped

LEMMA PutInv ==
    ASSUME LineInv, NEW b \in Bytes, Put(b)
    PROVE  LineInv' /\ (outcome'.kind = "too long" => Len(meant') > Size \/ foreign)
<1>1. /\ buffer \in Seq(Bytes) /\ Len(buffer) \in Nat /\ meant \in Seq(Bytes) /\ Len(meant) \in Nat
      /\ Size \in Nat /\ MaxLine \in Nat /\ Len(buffer) <= Size /\ Len(meant) < MaxLine
      /\ transport' = transport /\ foreign' = foreign
      /\ ~told /\ ~foreign => buffer = meant
      /\ ~foreign => Len(buffer) <= Len(meant)
  BY LineAssumption DEF LineInv, LineTypeOK, Put, Mean
<1>2. /\ Append(buffer, b) \in Seq(Bytes) /\ Len(Append(buffer, b)) = Len(buffer) + 1
      /\ Append(meant, b) \in Seq(Bytes) /\ Len(Append(meant, b)) = Len(meant) + 1
  BY <1>1, AppendProperties
<1>3. meant' = (IF Skipped(b, meant) THEN meant ELSE Append(meant, b))
      /\ meant' \in Seq(Bytes) /\ Len(meant') <= MaxLine /\ Len(meant) <= Len(meant')
  BY <1>1, <1>2 DEF Put, Mean
<1>4. CASE Skipped(b, buffer)
  <2>1. buffer' = buffer /\ told' = told /\ outcome' = Nothing
    BY <1>4 DEF Put
  <2>2. ~told /\ ~foreign => buffer' = meant'
    BY <1>1, <1>3, <1>4, <2>1
  <2>3. outcome'.kind # "too long"
    BY <2>1 DEF Nothing
  <2>4. buffer' \in Seq(Bytes) /\ Len(buffer') <= Size /\ (~foreign => Len(buffer') <= Len(meant'))
    BY <1>1, <1>3, <2>1
  <2>5. LineInv'
    BY <1>1, <1>3, <2>1, <2>2, <2>4 DEF LineInv, LineTypeOK
  <2> QED BY <2>3, <2>5
<1>5. CASE ~Skipped(b, buffer) /\ Len(buffer) >= Size
  <2>1. buffer' = <<>> /\ told' = TRUE /\ outcome' = TooLong
    BY <1>1, <1>5 DEF Put
  <2>2. ~foreign => ~Skipped(b, meant)
    BY <1>5, SkippedAlike
  <2>3. ~foreign => Len(meant') > Size
    BY <1>1, <1>2, <1>3, <1>5, <2>2
  <2>4. buffer' \in Seq(Bytes) /\ Len(buffer') <= Size /\ Len(buffer') <= Len(meant')
    BY <1>1, <1>3, <2>1, NoBytes
  <2>5. LineInv'
    BY <1>1, <1>3, <2>1, <2>4 DEF LineInv, LineTypeOK
  <2> QED BY <2>3, <2>5
<1>6. CASE ~Skipped(b, buffer) /\ Len(buffer) < Size
  <2>1. buffer' = Append(buffer, b) /\ told' = told /\ outcome' = Nothing
    BY <1>1, <1>6 DEF Put
  <2>2. ~foreign => meant' = Append(meant, b)
    BY <1>3, <1>6, SkippedAlike
  <2>3. outcome'.kind # "too long"
    BY <2>1 DEF Nothing
  <2>4. Len(buffer') <= Size /\ buffer' \in Seq(Bytes)
    BY <1>1, <1>2, <1>6, <2>1
  <2>5. ~foreign => Len(buffer') <= Len(meant')
    BY <1>1, <1>2, <2>1, <2>2
  <2>6. ~told /\ ~foreign => buffer' = meant'
    BY <1>1, <2>1, <2>2
  <2>7. LineInv'
    BY <1>1, <1>3, <2>1, <2>4, <2>5, <2>6 DEF LineInv, LineTypeOK
  <2> QED BY <2>3, <2>7
<1>7. Len(buffer) >= Size \/ Len(buffer) < Size
  BY <1>1
<1> QED BY <1>4, <1>5, <1>6, <1>7

\* Where a line ends, it is handed on as it was meant; no other step of a line has to do with that.
LEMMA LineStep ==
    ASSUME LineInv, [LineNext]_lineVars
    PROVE  LineInv'
<1>1. ASSUME NEW b \in Bytes, Put(b) PROVE LineInv'
  BY <1>1, PutInv
<1>2. ASSUME NEW b \in LineEnds, End(b) PROVE LineInv'
  <2>1. buffer' = <<>> /\ meant' = <<>> /\ told' = FALSE /\ foreign' = FALSE /\ transport' = transport
    BY <1>2 DEF End
  <2> QED BY <2>1, FreshLine DEF LineInv, LineTypeOK
<1>3. CASE IgnoreCR
  BY <1>3 DEF LineInv, LineTypeOK, IgnoreCR
<1>4. CASE NextClient
  <2>1. buffer' = <<>> \/ buffer' = buffer
    BY <1>4 DEF NextClient
  <2>2. meant' = <<>> /\ told' = FALSE /\ foreign' \in BOOLEAN /\ transport' = transport
        /\ (~foreign' => buffer' = <<>>)
    BY <1>4 DEF NextClient
  <2>3. buffer' \in Seq(Bytes) /\ Len(buffer') <= Size
    BY <2>1, FreshLine DEF LineInv, LineTypeOK
  <2>4. ~foreign' => buffer' = meant' /\ Len(buffer') <= Len(meant')
    BY <2>2, FreshLine
  <2> QED BY <2>2, <2>3, <2>4, FreshLine DEF LineInv, LineTypeOK
<1>5. CASE UNCHANGED lineVars
  BY <1>5 DEF LineInv, LineTypeOK, lineVars
<1> QED BY <1>1, <1>2, <1>3, <1>4, <1>5 DEF LineNext

LEMMA LineAction ==
    ASSUME LineInv, LineNext
    PROVE  /\ outcome'.kind = "too long" => Len(meant') > Size \/ foreign
           /\ (\E b \in LineEnds : End(b)) => told \/ foreign \/ IsCommandOf(outcome', meant)
<1>1. ASSUME NEW b \in LineEnds, End(b) PROVE told \/ foreign \/ IsCommandOf(outcome', meant)
  <2>1. CASE ~told /\ ~foreign
    <3>1. buffer = meant /\ meant \in Seq(Bytes) /\ outcome' = Handled(buffer)
      BY <1>1, <2>1 DEF LineInv, LineTypeOK, End
    <3> QED BY <3>1, HandledIs
  <2> QED BY <2>1 DEF LineInv, LineTypeOK
<1>2. outcome'.kind = "too long" => Len(meant') > Size \/ foreign
  <2>1. ASSUME NEW b \in Bytes, Put(b) PROVE outcome'.kind = "too long" => Len(meant') > Size \/ foreign
    BY <2>1, PutInv
  <2>2. ASSUME NEW b \in LineEnds, End(b) PROVE outcome'.kind # "too long"
    <3>1. outcome' = Handled(buffer)
      BY <2>2 DEF End
    <3>2. outcome'.kind \in {"nothing", "command"}
      BY <3>1 DEF Handled, Nothing, scpi_handler_parse_command, Command
    <3> QED BY <3>2
  <2>3. CASE IgnoreCR \/ NextClient
    <3>1. outcome' = Nothing
      BY <2>3 DEF IgnoreCR, NextClient
    <3> QED BY <3>1 DEF Nothing
  <2> QED BY <2>1, <2>2, <2>3 DEF LineNext
<1> QED BY <1>1, <1>2

\* For any size of the buffer: a line is executed as the one command it is, or its client has been
\* told that it was too long, which it was; but for a line behind another USB session's bytes.
THEOREM LineCorrect == LineSpec => LineIsOneCommand
<1>1. LineInit => LineInv
  BY LineInvInit
<1>2. LineInv /\ [LineNext]_lineVars => LineInv'
  BY LineStep
<1>3. LineInv /\ LineNext =>
          /\ outcome'.kind = "too long" => Len(meant') > Size \/ foreign
          /\ (\E b \in LineEnds : End(b)) => told \/ foreign \/ IsCommandOf(outcome', meant)
  BY LineAction
<1> QED BY <1>1, <1>2, <1>3, PTL DEF LineSpec, LineIsOneCommand
=============================================================================
