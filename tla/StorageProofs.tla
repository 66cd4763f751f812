---------------------------- MODULE StorageProofs ---------------------------
(***************************************************************************)
(* What survives a power loss, for any sessions, texts, capacities and     *)
(* limits: the settings, the log, the configuration of MQTT, and the       *)
(* credentials and the status of WiFi.  The four share no state.           *)
(***************************************************************************)
EXTENDS Settings, FlashLog, MqttSettings, WifiManager, TLAPS

-----------------------------------------------------------------------------
(***************************************************************************)
(* Settings.  A call that meets no other is marked alone; the argument is  *)
(* that as long as nothing has raced or failed half-way, at most one call  *)
(* is in progress, and NVS differs from RAM by at most what that call has  *)
(* stored.                                                                 *)
(***************************************************************************)

PendingCalls == Calls \cup {Idle}

\* What a call is about to apply is legal, and a stored value that met no other call
\* is still in NVS.
CallInv ==
    \A c \in Calling :
        /\ call[c].value \in Legal(setting)
        /\ call[c].alone => Calling = {c}
        /\ call[c].alone /\ call[c].stored => nvs = call[c].value

\* Only calls that overlapped are not alone, and while none has, RAM is what a boot
\* would load unless the call in progress has stored its value.
SyncInv ==
    ~raced =>
        /\ \A c \in Calling : call[c].alone
        /\ ~torn => \/ Loaded(nvs) = ram
                    \/ \E c \in Calling : call[c].stored

SettingInv == TypeOK /\ RamIsLegal /\ CallInv /\ SyncInv

\* Every legal value is one of the numbers that exist.
LEMMA LegalValues == ASSUME NEW s \in SettingNames PROVE Legal(s) \subseteq Values
BY ValuesAssumption DEF SettingNames, Legal

\* Clamping any number gives a legal averaging count.
LEMMA ClampedLegal == ASSUME NEW n \in Values PROVE Clamped(n) \in MinAverage..MaxAverage
BY ValuesAssumption DEF Clamped

\* A boot makes a legal value of whatever it reads.
LEMMA LoadedLegal ==
    ASSUME setting \in SettingNames, NEW stored \in Values \cup {Missing}
    PROVE  Loaded(stored) \in Legal(setting)
<1>1. Default[setting] \in Legal(setting)
  BY DefaultAssumption
<1>2. CASE stored = Missing \/ (setting \in {"ovp", "rate"} /\ stored \notin Legal(setting))
  BY <1>1, <1>2 DEF Loaded
<1>3. CASE stored # Missing /\ setting \in {"ovp", "rate"} /\ stored \in Legal(setting)
  BY <1>3 DEF Loaded
<1>4. CASE stored # Missing /\ setting = "average"
  BY <1>4, ClampedLegal DEF Loaded, Legal
<1>5. CASE stored # Missing /\ setting = "ocp"
  BY <1>5 DEF Loaded, Legal
<1> QED
  BY <1>2, <1>3, <1>4, <1>5 DEF SettingNames

\* A legal value is loaded as it is.
LEMMA LegalLoaded ==
    ASSUME setting \in SettingNames, NEW v \in Legal(setting)
    PROVE  Loaded(v) = v
<1>1. v \in Values /\ v # Missing
  BY LegalValues, ValuesAssumption
<1>2. setting = "average" => Clamped(v) = v
  BY <1>1, ValuesAssumption DEF Legal, Clamped
<1> QED
  BY <1>1, <1>2 DEF Loaded

\* What protection_svc writes back is what it works with, so a second boot loads the
\* same value.
LEMMA WrittenBackLoaded ==
    ASSUME setting \in SettingNames, NEW stored \in Values \cup {Missing}
    PROVE  /\ WrittenBack(stored) \in Values \cup {Missing}
           /\ Loaded(WrittenBack(stored)) = Loaded(stored)
<1>1. Default[setting] \in Legal(setting) /\ Default[setting] \in Values
  BY DefaultAssumption, LegalValues
<1>2. Loaded(Default[setting]) = Default[setting]
  BY <1>1, LegalLoaded
<1> QED
  BY <1>1, <1>2 DEF WrittenBack, Loaded

LEMMA SettingInitInv == Init => SettingInv
<1> SUFFICES ASSUME Init PROVE SettingInv
  OBVIOUS
<1>1. PICK old \in Values \cup {Missing} : nvs = WrittenBack(old) /\ ram = Loaded(old)
  BY DEF Init
<1>2. setting \in SettingNames /\ call = [c \in Clients |-> Idle] /\ raced = FALSE /\ torn = FALSE
  BY DEF Init
<1>3. ram \in Legal(setting) /\ ram \in Values
  BY <1>1, <1>2, LoadedLegal, LegalValues
<1>4. nvs \in Values \cup {Missing} /\ Loaded(nvs) = ram
  BY <1>1, <1>2, WrittenBackLoaded
<1>5. Calling = {}
  BY <1>2 DEF Calling
<1> QED
  BY <1>2, <1>3, <1>4, <1>5 DEF SettingInv, TypeOK, RamIsLegal, CallInv, SyncInv

\* A setter that passes its checks holds a legal value.
LEMMA BeginIInv ==
    ASSUME SettingInv, NEW c \in Clients, NEW v \in Values, Begin(c, v) PROVE SettingInv'
<1> DEFINE value == IF setting = "average" THEN Clamped(v) ELSE v
           alone == Calling = {}
           new == [value |-> value, stored |-> FALSE, alone |-> alone]
<1>1. setting \in SettingNames /\ nvs \in Values \cup {Missing} /\ ram \in Values
      /\ call \in [Clients -> PendingCalls] /\ raced \in BOOLEAN /\ torn \in BOOLEAN
  BY DEF SettingInv, TypeOK, PendingCalls
<1>2. value \in Legal(setting)
  BY ClampedLegal, <1>1 DEF Begin, Legal
<1>3. value \in Values
  BY <1>1, <1>2, LegalValues
<1>4. new \in Calls /\ new # Idle
  <2>1. alone \in BOOLEAN
    OBVIOUS
  <2> HIDE DEF alone, value
  <2>2. new \in Calls
    BY <1>3, <2>1 DEF Calls
  <2> QED
    BY <2>2, IdleAssumption
<1>5. /\ call[c] = Idle
      /\ call' = [d \in Clients |->
             IF d = c THEN new
             ELSE IF d \in Calling THEN [call[d] EXCEPT !.alone = FALSE] ELSE Idle]
      /\ raced' = (raced \/ Calling # {})
      /\ UNCHANGED <<setting, nvs, ram, torn>>
  BY DEF Begin
<1> HIDE DEF value
<1>6. \A d \in Calling : d # c /\ d \in Clients /\ call[d] \in Calls /\ call[d] # Idle
  <2>1. \A d \in Calling : d \in Clients /\ call[d] # Idle
    BY DEF Calling
  <2>2. \A d \in Clients : call[d] \in Calls \/ call[d] = Idle
    BY <1>1 DEF PendingCalls
  <2> QED
    BY <1>5, <2>1, <2>2
<1>7. \A d \in Calling : /\ call'[d] \in Calls
                         /\ call'[d] # Idle
                         /\ call'[d].value = call[d].value
                         /\ call'[d].alone = FALSE
  BY <1>5, <1>6, IdleAssumption DEF Calls
<1>8. call'[c] = new /\ \A d \in Clients \ (Calling \cup {c}) : call'[d] = Idle
  BY <1>5, <1>6
<1>9. call' \in [Clients -> PendingCalls]
  BY <1>4, <1>5, <1>6, <1>7, <1>8 DEF PendingCalls
<1>10. Calling' = Calling \cup {c}
  BY <1>4, <1>5, <1>6, <1>7, <1>8 DEF Calling
<1>11. TypeOK' /\ RamIsLegal'
  BY <1>1, <1>5, <1>9 DEF TypeOK, PendingCalls, SettingInv, RamIsLegal, Legal
<1>12. \A d \in Calling' : call'[d].value \in Legal(setting)
  BY <1>2, <1>7, <1>8, <1>10 DEF SettingInv, CallInv
<1>13. \A d \in Calling' : ~(call'[d].alone /\ call'[d].stored)
                         /\ (call'[d].alone => d = c /\ Calling = {})
  <2>1. ~call'[c].stored /\ (call'[c].alone => Calling = {})
    <3>1. alone <=> Calling = {}
      OBVIOUS
    <3> HIDE DEF alone
    <3>2. call'[c].stored = FALSE /\ call'[c].alone = alone
      BY <1>8
    <3> QED
      BY <3>1, <3>2
  <2> QED
    BY <1>7, <1>10, <2>1
<1>14. CallInv'
  BY <1>5, <1>10, <1>12, <1>13 DEF CallInv, Legal
<1>15. ASSUME ~raced' PROVE Calling = {} /\ ~raced /\ call'[c].alone
  BY <1>5, <1>8, <1>15
<1>16. SyncInv'
  <2>1. Loaded(nvs)' = Loaded(nvs)
    BY <1>5 DEF Loaded, Legal
  <2>2. ASSUME ~raced' PROVE ~torn => Loaded(nvs) = ram
    BY <1>15, <2>2 DEF SettingInv, SyncInv
  <2> QED
    BY <1>5, <1>10, <1>15, <2>1, <2>2 DEF SyncInv
<1> QED
  BY <1>11, <1>14, <1>16 DEF SettingInv

\* Storing makes NVS differ from RAM by this call's value only.
LEMMA StoreIInv == ASSUME SettingInv, NEW c \in Clients, Store(c) PROVE SettingInv'
<1>1. setting \in SettingNames /\ nvs \in Values \cup {Missing} /\ ram \in Values
      /\ call \in [Clients -> PendingCalls] /\ raced \in BOOLEAN /\ torn \in BOOLEAN
  BY DEF SettingInv, TypeOK, PendingCalls
<1>2. /\ c \in Calling /\ call[c] \in Calls
      /\ nvs' = call[c].value
      /\ call' = [call EXCEPT ![c].stored = TRUE]
      /\ UNCHANGED <<setting, ram, raced, torn>>
  BY <1>1 DEF Store, Calling, PendingCalls
<1>3. /\ call'[c] \in Calls /\ call'[c] # Idle
      /\ call'[c].stored = TRUE
      /\ call'[c].value = call[c].value
      /\ call'[c].alone = call[c].alone
  BY <1>1, <1>2, IdleAssumption DEF Calls
<1>4. \A d \in Clients \ {c} : call'[d] = call[d]
  BY <1>1, <1>2
<1>5. call' \in [Clients -> PendingCalls] /\ Calling' = Calling
  BY <1>1, <1>2, <1>3, <1>4 DEF PendingCalls, Calling
<1>6. nvs' \in Values
  BY <1>2 DEF Calls
<1>7. TypeOK' /\ RamIsLegal'
  BY <1>1, <1>2, <1>5, <1>6 DEF TypeOK, PendingCalls, SettingInv, RamIsLegal, Legal
<1>8. \A d \in Calling : call[d].alone => d = c
  BY <1>2 DEF SettingInv, CallInv
<1>9. \A d \in Calling : d \in Clients /\ call'[d].value = call[d].value /\ call'[d].alone = call[d].alone
  BY <1>3, <1>4 DEF Calling
<1>10. CallInv'
  BY <1>2, <1>5, <1>8, <1>9 DEF SettingInv, CallInv, Legal
<1>11. SyncInv'
  BY <1>2, <1>3, <1>5, <1>9 DEF SettingInv, SyncInv
<1> QED
  BY <1>7, <1>10, <1>11 DEF SettingInv

\* A call that returns leaves the calls of the others as they are.
LEMMA Returned ==
    ASSUME call \in [Clients -> PendingCalls], NEW c \in Calling, call' = [call EXCEPT ![c] = Idle]
    PROVE  /\ call' \in [Clients -> PendingCalls]
           /\ Calling' = Calling \ {c}
           /\ \A d \in Calling' : call'[d] = call[d]
BY DEF PendingCalls, Calling

\* A failed store ends the call; NVS is as before, or marked as torn.
LEMMA StoreFailsIInv == ASSUME SettingInv, NEW c \in Clients, StoreFails(c) PROVE SettingInv'
<1>1. setting \in SettingNames /\ nvs \in Values \cup {Missing} /\ ram \in Values
      /\ call \in [Clients -> PendingCalls] /\ raced \in BOOLEAN /\ torn \in BOOLEAN
  BY DEF SettingInv, TypeOK, PendingCalls
<1>2. /\ c \in Calling /\ call[c] \in Calls /\ ~call[c].stored
      /\ \/ nvs' = call[c].value /\ torn' = TRUE
         \/ nvs' = nvs /\ torn' = torn
      /\ call' = [call EXCEPT ![c] = Idle]
      /\ UNCHANGED <<setting, ram, raced>>
  BY <1>1 DEF StoreFails, Calling, PendingCalls
<1>3. /\ call' \in [Clients -> PendingCalls]
      /\ Calling' = Calling \ {c}
      /\ \A d \in Calling' : call'[d] = call[d]
  BY <1>1, <1>2, Returned
<1>4. nvs' \in Values \cup {Missing} /\ torn' \in BOOLEAN
  BY <1>1, <1>2 DEF Calls
<1>5. TypeOK' /\ RamIsLegal'
  BY <1>1, <1>2, <1>3, <1>4 DEF TypeOK, PendingCalls, SettingInv, RamIsLegal, Legal
<1>6. \A d \in Calling' : ~call[d].alone
  BY <1>2, <1>3 DEF SettingInv, CallInv
<1>7. CallInv'
  BY <1>2, <1>3, <1>6 DEF SettingInv, CallInv, Legal
<1>8. ASSUME ~raced' PROVE \A d \in Calling' : FALSE
  BY <1>2, <1>3, <1>6, <1>8 DEF SettingInv, SyncInv
<1>9. ASSUME ~raced', ~torn' PROVE Loaded(nvs) = ram /\ nvs' = nvs
  <2>1. call[c].alone
    BY <1>2, <1>9 DEF SettingInv, SyncInv
  <2>2. Calling = {c}
    BY <1>2, <2>1 DEF SettingInv, CallInv
  <2> QED
    BY <1>2, <1>9, <2>2 DEF SettingInv, SyncInv
<1>10. SyncInv'
  BY <1>2, <1>3, <1>8, <1>9 DEF SyncInv, Loaded, Legal
<1> QED
  BY <1>5, <1>7, <1>10 DEF SettingInv

\* A call that met no other leaves RAM as what it has stored.
LEMMA ApplyIInv == ASSUME SettingInv, NEW c \in Clients, Apply(c) PROVE SettingInv'
<1>1. setting \in SettingNames /\ nvs \in Values \cup {Missing} /\ ram \in Values
      /\ call \in [Clients -> PendingCalls] /\ raced \in BOOLEAN /\ torn \in BOOLEAN
  BY DEF SettingInv, TypeOK, PendingCalls
<1>2. /\ c \in Calling /\ call[c] \in Calls /\ call[c].stored
      /\ ram' = call[c].value
      /\ call' = [call EXCEPT ![c] = Idle]
      /\ raced' = ~call[c].alone
      /\ torn' = (torn /\ ~call[c].alone)
      /\ UNCHANGED <<setting, nvs>>
  BY <1>1 DEF Apply, Calling, PendingCalls
<1>3. /\ call' \in [Clients -> PendingCalls]
      /\ Calling' = Calling \ {c}
      /\ \A d \in Calling' : call'[d] = call[d]
  BY <1>1, <1>2, Returned
<1>4. ram' \in Legal(setting) /\ ram' \in Values
  BY <1>1, <1>2, LegalValues DEF SettingInv, CallInv
<1>5. TypeOK' /\ RamIsLegal'
  BY <1>1, <1>2, <1>3, <1>4 DEF TypeOK, PendingCalls, RamIsLegal, Legal
<1>6. \A d \in Calling' : ~call[d].alone
  BY <1>2, <1>3 DEF SettingInv, CallInv
<1>7. CallInv'
  BY <1>2, <1>3, <1>6 DEF SettingInv, CallInv, Legal
<1>8. ASSUME ~raced' PROVE Calling' = {} /\ Loaded(nvs) = ram'
  <2>1. call[c].alone
    BY <1>2, <1>8
  <2>2. Calling = {c} /\ nvs = ram'
    BY <1>2, <2>1 DEF SettingInv, CallInv
  <2>3. Loaded(ram') = ram'
    BY <1>1, <1>4, LegalLoaded
  <2> QED
    BY <1>3, <2>2, <2>3
<1>9. SyncInv'
  BY <1>2, <1>8 DEF SyncInv, Loaded, Legal
<1> QED
  BY <1>5, <1>7, <1>9 DEF SettingInv

\* A boot starts from what NVS holds.
LEMMA RestartIInv == ASSUME SettingInv, Restart PROVE SettingInv'
<1>1. setting \in SettingNames /\ nvs \in Values \cup {Missing}
  BY DEF SettingInv, TypeOK
<1>2. /\ nvs' = WrittenBack(nvs) /\ ram' = Loaded(nvs)
      /\ call' = [d \in Clients |-> Idle]
      /\ raced' = FALSE /\ torn' = FALSE /\ setting' = setting
  BY DEF Restart
<1>3. ram' \in Legal(setting) /\ ram' \in Values
  BY <1>1, <1>2, LoadedLegal, LegalValues
<1>4. nvs' \in Values \cup {Missing} /\ Loaded(nvs') = ram'
  BY <1>1, <1>2, WrittenBackLoaded
<1>5. Calling' = {}
  BY <1>2 DEF Calling
<1> QED
  BY <1>1, <1>2, <1>3, <1>4, <1>5 DEF SettingInv, TypeOK, RamIsLegal, CallInv, SyncInv, Legal, Loaded

LEMMA StepIInv == SettingInv /\ [Next]_vars => SettingInv'
<1> SUFFICES ASSUME SettingInv, [Next]_vars PROVE SettingInv'
  OBVIOUS
<1>1. ASSUME NEW c \in Clients, NEW v \in Values, Begin(c, v) PROVE SettingInv'
  BY <1>1, BeginIInv
<1>2. ASSUME NEW c \in Clients, Store(c) PROVE SettingInv'
  BY <1>2, StoreIInv
<1>3. ASSUME NEW c \in Clients, StoreFails(c) PROVE SettingInv'
  BY <1>3, StoreFailsIInv
<1>4. ASSUME NEW c \in Clients, Apply(c) PROVE SettingInv'
  BY <1>4, ApplyIInv
<1>5. CASE Restart
  BY <1>5, RestartIInv
<1>6. CASE UNCHANGED vars
  BY <1>6 DEF vars, SettingInv, TypeOK, RamIsLegal, CallInv, SyncInv, Calling, Legal, Loaded
<1> QED
  BY <1>1, <1>2, <1>3, <1>4, <1>5, <1>6 DEF Next

\* The strengthening is an invariant of every behaviour.
THEOREM InvariantCorrect == Spec => []SettingInv
<1>1. Init => SettingInv
  BY SettingInitInv
<1>2. SettingInv /\ [Next]_vars => SettingInv'
  BY StepIInv
<1> QED
  BY <1>1, <1>2, PTL DEF Spec

\* The device works with a legal value, whatever NVS held and wherever power failed.
THEOREM LegalCorrect == Spec => []RamIsLegal
<1>1. SettingInv => RamIsLegal
  BY DEF SettingInv
<1> QED
  BY <1>1, InvariantCorrect, PTL

\* A power loss costs at most the call in progress.
THEOREM DurableCorrect == Spec => []RestartKeepsOrCompletes
<1>1. SettingInv => RestartKeepsOrCompletes
  <2> SUFFICES ASSUME SettingInv, ~raced, ~torn
               PROVE  Loaded(nvs) \in {ram} \cup {call[c].value : c \in Calling}
    BY DEF RestartKeepsOrCompletes
  <2>1. CASE Loaded(nvs) = ram
    BY <2>1
  <2>2. ASSUME NEW c \in Calling, call[c].stored
        PROVE  Loaded(nvs) = call[c].value
    <3>1. call[c].value \in Legal(setting) /\ nvs = call[c].value
      BY <2>2 DEF SettingInv, CallInv, SyncInv
    <3> QED
      BY <3>1, LegalLoaded DEF SettingInv, TypeOK
  <2> QED
    BY <2>1, <2>2 DEF SettingInv, SyncInv
<1> QED
  BY <1>1, InvariantCorrect, PTL

\* Both: any number of sessions keeps a setting legal and durable.
THEOREM SettingCorrect == Spec => []SettingIsSound
BY LegalCorrect, DurableCorrect, PTL DEF SettingIsSound

-----------------------------------------------------------------------------
(***************************************************************************)
(* FlashLog.  Below limit the slots are a run of whole records followed by *)
(* erased ones, whatever RAM knows of it; RAM counts nothing else; and an  *)
(* append that could break the run moves limit.                            *)
(***************************************************************************)

\* Of the flash alone: what was acknowledged is there, after whole records only, and
\* nothing follows an erased slot.
KeptInv ==
    /\ \A s \in Slots : s < limit /\ acked[s] # None =>
           /\ flash[s] = Whole(acked[s])
           /\ \A t \in Slots : t < s => IsValid(flash[t])
    /\ \A s, t \in Slots : s < t /\ t < limit /\ flash[s] = Empty => flash[t] = Empty

\* Of the flash and RAM: what is counted is whole, what was acknowledged is counted, and
\* the next slots are erased, as far as RAM has no reason to doubt it.
CountInv ==
    /\ mounted => \A s \in Slots : s < count /\ s < limit => IsValid(flash[s])
    /\ mounted /\ scanned =>
           \A s \in Slots : s < limit /\ acked[s] # None => s < count
    /\ mounted /\ scanned /\ writable =>
           \A s \in Slots : count <= s /\ s < doubt /\ s < limit => flash[s] = Empty
    /\ mounted /\ ~scanned => doubt <= count
    /\ ~mounted => ~scanned
    /\ ~initialized => ~mounted

FlashInv == FlashTypeOK /\ KeptInv /\ CountInv
-----------------------------------------------------------------------------
LEMMA SlotFacts ==
    /\ Capacity \in Nat /\ Capacity > 0
    /\ \A m \in Measurements : /\ Whole(m) \in Records /\ IsValid(Whole(m))
                               /\ Whole(m) # Empty /\ Whole(m) # Garbled
    /\ Empty \notin Records /\ Garbled \notin Records
    /\ ~IsValid(Empty) /\ ~IsValid(Garbled)
<1>1. \A m \in Measurements : Whole(m) \in Records /\ Whole(m).whole
  BY DEF Whole, Records
<1>2. Empty \notin Records /\ Garbled \notin Records
  BY FlashAssumption DEF Records
<1> QED
  BY <1>1, <1>2, FlashAssumption DEF IsValid

\* Programming keeps the type, leaves no erased slot behind and stores a record in one.
LEMMA ProgrammedType ==
    ASSUME NEW slot \in Records \cup {Empty, Garbled}, NEW m \in Measurements,
           NEW whole \in BOOLEAN
    PROVE  /\ Programmed(slot, m, whole) \in Records \cup {Empty, Garbled}
           /\ Programmed(slot, m, whole) # Empty
           /\ slot = Empty => Programmed(slot, m, TRUE) = Whole(m)
<1>1. [value |-> m, whole |-> whole] \in Records
  BY DEF Records
<1>2. [value |-> m, whole |-> whole] # Empty /\ Whole(m) # Empty /\ Garbled # Empty
  BY <1>1, SlotFacts, FlashAssumption
<1> QED
  BY <1>1, <1>2, SlotFacts DEF Programmed, Whole

LEMMA SmallerIs ==
    ASSUME NEW a \in Int, NEW b \in Int
    PROVE  /\ Smaller(a, b) \in {a, b}
           /\ Smaller(a, b) <= a /\ Smaller(a, b) <= b
BY DEF Smaller

LEMMA FlashInitInv == FlashInit => FlashInv
<1> SUFFICES ASSUME FlashInit PROVE FlashInv
  OBVIOUS
<1> USE DEF FlashInit
<1>1. FlashTypeOK
  <2>1. flash \in [Slots -> Records \cup {Empty, Garbled}] /\ acked \in [Slots -> Measurements \cup {None}]
    OBVIOUS
  <2>2. 0 \in 0..Capacity /\ Capacity \in 0..Capacity
    BY SlotFacts
  <2> QED BY <2>1, <2>2 DEF FlashTypeOK
<1>2. KeptInv /\ CountInv
  BY SlotFacts DEF KeptInv, CountInv, Slots
<1> QED BY <1>1, <1>2 DEF FlashInv

\* Writing the next slot keeps the invariants of the flash, provided that limit falls to
\* it whenever it may not be erased.
LEMMA ProgramKeeps ==
    ASSUME FlashInv, MayAppend, NEW m \in Measurements, NEW whole \in BOOLEAN,
           flash' = [flash EXCEPT ![count] = Programmed(@, m, whole)],
           limit' = limit \/ limit' = Smaller(limit, count)
    PROVE  /\ flash' \in [Slots -> Records \cup {Empty, Garbled}]
           /\ limit' \in 0..Capacity /\ limit' <= limit
           /\ \A s \in Slots : s # count => flash'[s] = flash[s]
           /\ flash'[count] # Empty
           /\ \A s, t \in Slots : s < t /\ t < limit' /\ flash'[s] = Empty => flash'[t] = Empty
           /\ \A s \in Slots : s < count /\ s < limit' => IsValid(flash'[s])
<1> USE DEF FlashInv, FlashTypeOK, MayAppend, Slots
<1>0. count \in Slots /\ limit \in Int /\ count \in Int
  BY SlotFacts
<1>1. limit' \in 0..Capacity /\ limit' <= limit
  BY <1>0, SmallerIs
<1>2. /\ Programmed(flash[count], m, whole) \in Records \cup {Empty, Garbled}
      /\ Programmed(flash[count], m, whole) # Empty
  BY <1>0, ProgrammedType
<1>3. /\ flash' \in [Slots -> Records \cup {Empty, Garbled}]
      /\ \A s \in Slots : s # count => flash'[s] = flash[s]
      /\ flash'[count] # Empty
  BY <1>0, <1>2
<1>4. \A s \in Slots : s < count /\ s < limit' => IsValid(flash[s]) /\ flash'[s] = flash[s]
  BY <1>1, <1>3, <1>0 DEF CountInv
<1>5. \A s \in Slots : s < count /\ s < limit' => IsValid(flash'[s]) /\ flash'[s] # Empty
  <2> SUFFICES ASSUME NEW s \in Slots, s < count, s < limit'
               PROVE  IsValid(flash'[s]) /\ flash'[s] # Empty
    OBVIOUS
  <2>1. IsValid(flash[s]) /\ flash'[s] = flash[s]
    BY <1>4
  <2> QED BY <2>1, SlotFacts DEF IsValid
<1>6. ASSUME NEW s \in Slots, NEW t \in Slots, s < t, t < limit', flash'[s] = Empty
      PROVE  flash'[t] = Empty
  <2>1. s # count
    BY <1>3, <1>6
  <2>2. s > count
    BY <2>1, <1>5, <1>6, <1>1, <1>0
  <2>3. flash[s] = Empty /\ flash'[t] = flash[t] /\ t < limit
    BY <2>1, <2>2, <1>3, <1>6, <1>1, <1>0
  <2> QED BY <2>3, <1>6 DEF KeptInv
<1> QED BY <1>1, <1>3, <1>5, <1>6

LEMMA ScanKeeps == FlashInv /\ Scan => FlashInv'
<1> SUFFICES ASSUME FlashInv, Scan PROVE FlashInv'
  OBVIOUS
<1> USE DEF FlashInv, Scan, Slots
<1>1. PICK e \in 0..Capacity :
          IsScanEnd(e) /\ count' = e /\ writable' = (e < Capacity /\ flash[e] = Empty)
  OBVIOUS
<1>2. e \in Int /\ Capacity \in Int /\ limit \in Int
  BY <1>1, SlotFacts DEF FlashTypeOK
<1>3. FlashTypeOK'
  BY <1>1, SlotFacts DEF FlashTypeOK
<1>4. KeptInv'
  BY DEF KeptInv
<1>5. \A s \in Slots : s < e => IsValid(flash[s])
  BY <1>1 DEF IsScanEnd
<1>6. ASSUME NEW s \in Slots, s < limit, acked[s] # None
      PROVE  s < e
  <2>1. IsValid(flash[s]) /\ \A t \in Slots : t < s => IsValid(flash[t])
    BY <1>6, SlotFacts DEF KeptInv, FlashTypeOK
  <2>2. CASE e < Capacity
    <3>1. e \in Slots /\ ~IsValid(flash[e])
      BY <1>1, <1>2, <2>2 DEF IsScanEnd
    <3> QED BY <2>1, <3>1, <1>2
  <2> QED BY <2>2, <1>2
<1>7. ASSUME writable', NEW s \in Slots, e <= s, s < limit
      PROVE  flash[s] = Empty
  <2>0. e < Capacity /\ flash[e] = Empty
    BY <1>1, <1>7, Zenon
  <2>1. e \in Slots
    BY <2>0, <1>2
  <2> QED BY <2>0, <2>1, <1>7, <1>2 DEF KeptInv
<1>8. CountInv'
  BY <1>1, <1>5, <1>6, <1>7 DEF CountInv
<1> QED BY <1>3, <1>4, <1>8

LEMMA ScanFailsKeeps == FlashInv /\ ScanFails => FlashInv'
<1> SUFFICES ASSUME FlashInv, ScanFails PROVE FlashInv'
  OBVIOUS
<1> USE DEF FlashInv, ScanFails, Slots
<1>1. PICK e \in 0..Capacity, i \in Slots :
          IsScanEnd(e) /\ i <= e /\ count' = i /\ doubt' = i
  OBVIOUS
<1>2. e \in Int /\ i \in Int /\ Capacity \in Int
  BY <1>1, SlotFacts
<1>3. FlashTypeOK'
  BY <1>1, <1>2 DEF FlashTypeOK
<1>4. KeptInv'
  BY DEF KeptInv
<1>5. \A s \in Slots : s < i => IsValid(flash[s])
  BY <1>1, <1>2 DEF IsScanEnd
<1>6. ~scanned /\ ~scanned'
  BY DEF CountInv
<1>7. CountInv'
  BY <1>1, <1>2, <1>5, <1>6 DEF CountInv, FlashTypeOK
<1> QED BY <1>3, <1>4, <1>7

LEMMA AppendKeeps == ASSUME NEW m \in Measurements PROVE FlashInv /\ AppendRecord(m) => FlashInv'
<1> SUFFICES ASSUME FlashInv, AppendRecord(m) PROVE FlashInv'
  OBVIOUS
<1> USE DEF FlashInv, Slots
<1>a. /\ mounted /\ writable /\ count < Capacity
      /\ flash' = [flash EXCEPT ![count] = Programmed(@, m, TRUE)]
      /\ count' = count + 1
      /\ acked' = [acked EXCEPT ![count] = m]
      /\ limit' = IF doubt <= count THEN Smaller(limit, count) ELSE limit
      /\ initialized' = initialized /\ mounted' = mounted /\ writable' = writable
      /\ scanned' = scanned /\ doubt' = doubt
  BY DEF AppendRecord, MayAppend
<1>0. /\ count \in Slots /\ count \in Int /\ limit \in Int /\ doubt \in Int
      /\ acked \in [Slots -> Measurements \cup {None}]
  BY <1>a, SlotFacts DEF FlashTypeOK
<1>1. limit' = limit \/ limit' = Smaller(limit, count)
  BY <1>a
<1>2. /\ flash' \in [Slots -> Records \cup {Empty, Garbled}]
      /\ limit' \in 0..Capacity /\ limit' <= limit
      /\ \A s \in Slots : s # count => flash'[s] = flash[s]
      /\ \A s, t \in Slots : s < t /\ t < limit' /\ flash'[s] = Empty => flash'[t] = Empty
      /\ \A s \in Slots : s < count /\ s < limit' => IsValid(flash'[s])
  BY <1>1, <1>a, ProgramKeeps DEF MayAppend
<1>3. acked'[count] = m /\ \A s \in Slots : s # count => acked'[s] = acked[s]
  BY <1>0, <1>a
<1>4. FlashTypeOK'
  <2>1. acked' \in [Slots -> Measurements \cup {None}]
    BY <1>0, <1>a
  <2>2. count' \in 0..Capacity
    BY <1>0, <1>a, SlotFacts
  <2>3. /\ initialized' \in BOOLEAN /\ mounted' \in BOOLEAN /\ writable' \in BOOLEAN
        /\ scanned' \in BOOLEAN /\ doubt' \in 0..Capacity
    BY <1>a DEF FlashTypeOK
  <2> QED BY <2>1, <2>2, <2>3, <1>2 DEF FlashTypeOK
\* Unless limit falls to it the slot was erased, so it now holds the record.
<1>5. count < limit' => flash'[count] = Whole(m) /\ doubt > count /\ scanned
  <2> SUFFICES ASSUME count < limit' PROVE flash'[count] = Whole(m) /\ doubt > count /\ scanned
    OBVIOUS
  <2>1. doubt > count
    BY <1>0, <1>a, SmallerIs
  <2>2. scanned
    BY <2>1, <1>0, <1>a DEF CountInv
  <2>3. flash[count] = Empty
    BY <2>1, <2>2, <1>0, <1>a, <1>2 DEF CountInv, FlashTypeOK
  <2>4. Programmed(flash[count], m, TRUE) = Whole(m)
    BY <2>3, ProgrammedType
  <2> QED BY <2>1, <2>2, <2>4, <1>0, <1>a DEF FlashTypeOK
<1>6. ASSUME NEW s \in Slots, s < limit', acked'[s] # None
      PROVE  /\ flash'[s] = Whole(acked'[s])
             /\ \A t \in Slots : t < s => IsValid(flash'[t])
             /\ scanned => s < count + 1
  <2>1. CASE s = count
    BY <2>1, <1>2, <1>3, <1>5, <1>6, <1>0
  <2>2. CASE s # count
    <3>1. /\ acked[s] # None /\ s < limit
          /\ flash'[s] = flash[s] /\ acked'[s] = acked[s]
      BY <2>2, <1>2, <1>3, <1>6, <1>0
    <3>2. flash[s] = Whole(acked[s]) /\ \A t \in Slots : t < s => IsValid(flash[t])
      BY <3>1 DEF KeptInv
    <3>3. scanned => s < count
      BY <3>1, <1>a DEF CountInv
    <3>4. ASSUME NEW t \in Slots, t < s PROVE IsValid(flash'[t])
      <4>1. CASE t = count
        BY <4>1, <3>4, <1>2, <1>5, <1>6, <1>0, SlotFacts
      <4>2. CASE t # count
        BY <4>2, <3>2, <3>4, <1>2
      <4> QED BY <4>1, <4>2
    <3> QED BY <3>1, <3>2, <3>3, <3>4, <1>0
  <2> QED BY <2>1, <2>2
<1>7. KeptInv'
  BY <1>2, <1>6 DEF KeptInv
<1>8. ASSUME NEW s \in Slots, s < count + 1, s < limit'
      PROVE  IsValid(flash'[s])
  <2>1. CASE s = count
    BY <2>1, <1>5, <1>8, SlotFacts
  <2> QED BY <2>1, <1>2, <1>8, <1>0
<1>9. ASSUME scanned, NEW s \in Slots, count + 1 <= s, s < doubt, s < limit'
      PROVE  flash'[s] = Empty
  <2>1. flash[s] = Empty
    BY <1>9, <1>0, <1>a, <1>2 DEF CountInv
  <2> QED BY <2>1, <1>9, <1>0, <1>2
<1>10. CountInv'
  <2>1. ~scanned => doubt <= count + 1
    BY <1>0, <1>a DEF CountInv
  <2> QED BY <2>1, <1>a, <1>6, <1>8, <1>9 DEF CountInv
<1> QED BY <1>4, <1>7, <1>10

\* What an append that is not acknowledged leaves behind.
LEMMA PartKeeps ==
    ASSUME FlashInv, MayAppend, NEW m \in Measurements, NEW whole \in BOOLEAN,
           flash' = [flash EXCEPT ![count] = Programmed(@, m, whole)],
           limit' = IF scanned THEN limit ELSE Smaller(limit, count),
           acked' = acked
    PROVE  /\ KeptInv'
           /\ \A s \in Slots : count < s => flash'[s] = flash[s]
<1> USE DEF FlashInv, Slots
<1>0. /\ count \in Slots /\ count \in Int /\ limit \in Int /\ mounted
  BY SlotFacts DEF FlashTypeOK, MayAppend
<1>1. limit' = limit \/ limit' = Smaller(limit, count)
  OBVIOUS
<1>2. /\ limit' \in 0..Capacity /\ limit' <= limit
      /\ \A s \in Slots : s # count => flash'[s] = flash[s]
      /\ \A s, t \in Slots : s < t /\ t < limit' /\ flash'[s] = Empty => flash'[t] = Empty
  BY <1>1, ProgramKeeps
<1>3. ~scanned => limit' <= count
  BY <1>0, SmallerIs
<1>4. ASSUME NEW s \in Slots, s < limit', acked[s] # None
      PROVE  s < count
  BY <1>0, <1>2, <1>3, <1>4 DEF CountInv
<1>5. ASSUME NEW s \in Slots, s < limit', acked[s] # None
      PROVE  /\ flash'[s] = Whole(acked[s])
             /\ \A t \in Slots : t < s => IsValid(flash'[t])
  <2>1. s < count /\ s < limit
    BY <1>0, <1>2, <1>4, <1>5
  <2>2. flash[s] = Whole(acked[s]) /\ \A t \in Slots : t < s => IsValid(flash[t])
    BY <2>1, <1>5 DEF KeptInv
  <2> QED BY <2>1, <2>2, <1>0, <1>2
<1> QED BY <1>0, <1>2, <1>5 DEF KeptInv

LEMMA AppendFailsKeeps == ASSUME NEW m \in Measurements PROVE FlashInv /\ AppendFails(m) => FlashInv'
<1> SUFFICES ASSUME FlashInv, AppendFails(m) PROVE FlashInv'
  OBVIOUS
<1> USE DEF FlashInv, Slots
<1>a. /\ MayAppend
      /\ \/ \E whole \in BOOLEAN : flash' = [flash EXCEPT ![count] = Programmed(@, m, whole)]
         \/ flash' = flash
      /\ doubt' = Smaller(doubt, count)
      /\ limit' = IF scanned THEN limit ELSE Smaller(limit, count)
      /\ initialized' = initialized /\ mounted' = mounted /\ count' = count
      /\ writable' = writable /\ scanned' = scanned /\ acked' = acked
  BY DEF AppendFails, ramVars
<1>0. /\ count \in Slots /\ count \in Int /\ limit \in 0..Capacity /\ doubt \in 0..Capacity
      /\ mounted
  BY <1>a, SlotFacts DEF FlashTypeOK, MayAppend
<1>1. limit' \in 0..Capacity /\ limit' <= limit
  BY <1>0, <1>a, SmallerIs, SlotFacts
<1>2. doubt' \in 0..Capacity /\ doubt' <= count
  BY <1>0, <1>a, SmallerIs, SlotFacts
<1>3. /\ flash' \in [Slots -> Records \cup {Empty, Garbled}]
      /\ KeptInv'
      /\ \A s \in Slots : s < count /\ s < limit' => IsValid(flash'[s])
  <2>1. CASE flash' = flash
    <3>1. flash' \in [Slots -> Records \cup {Empty, Garbled}]
      BY <2>1 DEF FlashTypeOK
    <3>2. KeptInv'
      BY <2>1, <1>0, <1>1, <1>a DEF KeptInv
    <3>3. \A s \in Slots : s < count /\ s < limit' => IsValid(flash'[s])
      BY <2>1, <1>0, <1>1 DEF CountInv
    <3> QED BY <3>1, <3>2, <3>3
  <2>2. CASE flash' # flash
    <3>1. PICK whole \in BOOLEAN : flash' = [flash EXCEPT ![count] = Programmed(@, m, whole)]
      BY <2>2, <1>a
    <3>2. limit' = limit \/ limit' = Smaller(limit, count)
      BY <1>a
    <3>3. KeptInv'
      BY <3>1, <1>a, PartKeeps
    <3> QED BY <3>1, <3>2, <3>3, <1>a, ProgramKeeps
  <2> QED BY <2>1, <2>2
<1>4. FlashTypeOK'
  <2>1. /\ initialized' \in BOOLEAN /\ mounted' \in BOOLEAN /\ writable' \in BOOLEAN
        /\ scanned' \in BOOLEAN /\ count' \in 0..Capacity
        /\ acked' \in [Slots -> Measurements \cup {None}]
    BY <1>a DEF FlashTypeOK
  <2> QED BY <2>1, <1>1, <1>2, <1>3 DEF FlashTypeOK
<1>5. CountInv'
  <2>1. scanned => \A s \in Slots : s < limit' /\ acked[s] # None => s < count
    BY <1>0, <1>1 DEF CountInv
  <2>2. \A s \in Slots : ~(count <= s /\ s < doubt')
    BY <1>0, <1>2
  <2> QED BY <1>0, <1>a, <1>2, <1>3, <2>1, <2>2 DEF CountInv
<1> QED BY <1>3, <1>4, <1>5

LEMMA ClearKeeps == FlashInv /\ Clear => FlashInv'
<1> SUFFICES ASSUME FlashInv, Clear PROVE FlashInv'
  OBVIOUS
<1> USE DEF FlashInv, Clear, Slots
<1>1. FlashTypeOK'
  <2>1. /\ flash' \in [Slots -> Records \cup {Empty, Garbled}]
        /\ acked' \in [Slots -> Measurements \cup {None}]
    OBVIOUS
  <2>2. 0 \in 0..Capacity /\ Capacity \in 0..Capacity
    BY SlotFacts
  <2> QED BY <2>1, <2>2 DEF FlashTypeOK
<1>2. KeptInv'
  BY DEF KeptInv
<1>3. CountInv'
  BY SlotFacts DEF CountInv, FlashTypeOK
<1> QED BY <1>1, <1>2, <1>3

LEMMA ClearFailsKeeps == FlashInv /\ ClearFails => FlashInv'
<1> SUFFICES ASSUME FlashInv, ClearFails PROVE FlashInv'
  OBVIOUS
<1> USE DEF FlashInv, Slots
<1>a. /\ flash' = flash \/ HalfErased(flash')
      /\ mounted /\ limit' = 0
      /\ initialized' = initialized /\ mounted' = mounted /\ count' = count
      /\ writable' = writable /\ scanned' = scanned /\ acked' = acked /\ doubt' = doubt
  BY DEF ClearFails, ramVars
<1>1. flash' \in [Slots -> Records \cup {Empty, Garbled}]
  BY <1>a DEF FlashTypeOK, HalfErased
<1>2. FlashTypeOK'
  BY <1>a, <1>1, SlotFacts DEF FlashTypeOK
<1>3. \A s \in Slots : ~(s < limit')
  BY <1>a
<1>4. KeptInv'
  BY <1>3, SlotFacts, <1>a DEF KeptInv
<1>5. CountInv'
  BY <1>3, <1>a DEF CountInv
<1> QED BY <1>2, <1>4, <1>5

LEMMA PowerLossKeeps == FlashInv /\ PowerLoss => FlashInv'
<1> SUFFICES ASSUME FlashInv, PowerLoss PROVE FlashInv'
  OBVIOUS
<1> USE DEF FlashInv, Slots
<1>a. /\ initialized' = FALSE /\ mounted' = FALSE /\ count' = 0 /\ writable' = TRUE
      /\ scanned' = FALSE /\ acked' = acked /\ doubt' = doubt
  BY DEF PowerLoss
<1>1. /\ flash' \in [Slots -> Records \cup {Empty, Garbled}]
      /\ limit' \in 0..Capacity
      /\ KeptInv'
  <2>1. CASE flash' = flash /\ limit' = limit
    BY <2>1, <1>a DEF FlashTypeOK, KeptInv
  <2>2. ASSUME MayAppend, NEW m \in Measurements, NEW whole \in BOOLEAN,
               flash' = [flash EXCEPT ![count] = Programmed(@, m, whole)],
               limit' = IF scanned THEN limit ELSE Smaller(limit, count)
        PROVE  /\ flash' \in [Slots -> Records \cup {Empty, Garbled}]
               /\ limit' \in 0..Capacity
               /\ KeptInv'
    <3>1. limit' = limit \/ limit' = Smaller(limit, count)
      BY <2>2
    <3>2. flash' \in [Slots -> Records \cup {Empty, Garbled}] /\ limit' \in 0..Capacity
      BY <2>2, <3>1, ProgramKeeps
    <3>3. KeptInv'
      BY <2>2, <1>a, PartKeeps
    <3> QED BY <3>2, <3>3
  <2>3. CASE HalfErased(flash') /\ limit' = 0
    <3>1. flash' \in [Slots -> Records \cup {Empty, Garbled}]
      BY <2>3 DEF FlashTypeOK, HalfErased
    <3>2. \A s \in Slots : ~(s < limit')
      BY <2>3
    <3>3. KeptInv'
      BY <2>3, <3>2, SlotFacts DEF KeptInv
    <3> QED BY <2>3, <3>1, <3>3, SlotFacts
  <2>4. \/ flash' = flash /\ limit' = limit
        \/ /\ MayAppend
           /\ \E m \in Measurements, whole \in BOOLEAN :
                  flash' = [flash EXCEPT ![count] = Programmed(@, m, whole)]
           /\ limit' = IF scanned THEN limit ELSE Smaller(limit, count)
        \/ HalfErased(flash') /\ limit' = 0
    BY DEF PowerLoss
  <2> QED BY <2>1, <2>2, <2>3, <2>4
<1>2. FlashTypeOK'
  <2>1. acked' \in [Slots -> Measurements \cup {None}] /\ doubt' \in 0..Capacity /\ 0 \in 0..Capacity
    BY <1>a, SlotFacts DEF FlashTypeOK
  <2> QED BY <1>1, <1>a, <2>1 DEF FlashTypeOK
<1>3. CountInv'
  BY <1>a DEF CountInv
<1> QED BY <1>1, <1>2, <1>3

\* An init that goes no further, and an append to a full region, touch no slot.
LEMMA RestKeeps == FlashInv /\ (MountFails \/ AppendFull \/ UNCHANGED flashVars) => FlashInv'
<1> SUFFICES ASSUME FlashInv, MountFails \/ AppendFull \/ UNCHANGED flashVars PROVE FlashInv'
  OBVIOUS
<1>a. /\ flash' = flash /\ mounted' = mounted /\ count' = count /\ scanned' = scanned
      /\ acked' = acked /\ doubt' = doubt /\ limit' = limit
      /\ writable' \in {writable, FALSE}
      /\ initialized' \in {initialized, TRUE}
  BY DEF MountFails, AppendFull, flashVars, ramVars
<1>1. FlashTypeOK'
  BY <1>a DEF FlashInv, FlashTypeOK
<1>2. KeptInv'
  BY <1>a DEF FlashInv, KeptInv
<1>3. CountInv'
  <2>1. (writable' => writable) /\ (~initialized' => ~initialized)
    <3>1. CASE MountFails
      BY <3>1, Zenon DEF MountFails
    <3>2. CASE AppendFull
      BY <3>2, Zenon DEF AppendFull
    <3>3. CASE UNCHANGED flashVars
      BY <3>3 DEF flashVars, ramVars, FlashInv, FlashTypeOK
    <3> QED BY <3>1, <3>2, <3>3
  <2>2. CASE mounted /\ scanned /\ writable
    BY <2>1, <2>2, <1>a DEF FlashInv, CountInv
  <2>3. CASE ~(mounted /\ scanned /\ writable)
    BY <2>1, <2>3, <1>a DEF FlashInv, CountInv
  <2> QED BY <2>2, <2>3
<1> QED BY <1>1, <1>2, <1>3 DEF FlashInv

LEMMA NextKeeps == FlashInv /\ [FlashNext]_flashVars => FlashInv'
BY ScanKeeps, ScanFailsKeeps, AppendKeeps, AppendFailsKeeps, ClearKeeps, ClearFailsKeeps,
   PowerLossKeeps, RestKeeps DEF FlashNext

LEMMA Invariant == FlashSpec => []FlashInv
BY FlashInitInv, NextKeeps, PTL DEF FlashSpec

LEMMA Promised == FlashInv => AcknowledgedIsKept /\ FreeSlotsAreErased
<1> SUFFICES ASSUME FlashInv PROVE AcknowledgedIsKept /\ FreeSlotsAreErased
  OBVIOUS
<1>1. AcknowledgedIsKept
  <2> SUFFICES ASSUME mounted, scanned, NEW s \in Slots, s < limit, acked[s] # None
               PROVE  Read(s) = acked[s]
    BY DEF AcknowledgedIsKept
  <2>1. s < count /\ flash[s] = Whole(acked[s]) /\ acked[s] \in Measurements
    BY DEF FlashInv, KeptInv, CountInv, FlashTypeOK
  <2>2. IsValid(flash[s]) /\ flash[s].value = acked[s]
    BY <2>1, SlotFacts DEF Whole
  <2> QED BY <2>1, <2>2 DEF Read
<1>2. FreeSlotsAreErased
  BY SlotFacts DEF FlashInv, CountInv, FreeSlotsAreErased, Slots
<1> QED BY <1>1, <1>2

\* For every capacity and any number of power losses, failed writes, failed scans and
\* clears cut short, an acknowledged record below limit is counted and read back.
THEOREM KeptCorrect == FlashSpec => []AcknowledgedIsKept
BY Invariant, Promised, PTL

\* A writable region that no call has failed on has only erased slots to append to.
THEOREM FreeCorrect == FlashSpec => []FreeSlotsAreErased
BY Invariant, Promised, PTL

\* Both: for every capacity, the log is durable.
THEOREM LogCorrect == FlashSpec => []LogIsDurable
BY KeptCorrect, FreeCorrect, PTL DEF LogIsDurable

-----------------------------------------------------------------------------
(***************************************************************************)
(* MqttSettings.  Who has stored a text still has the lock, so NVS holds   *)
(* it until the setter applies it; and what a boot loads a validator has   *)
(* taken.                                                                  *)
(***************************************************************************)

\* A setter on its way carries a value its validator took.  Who has the lock is on its
\* way, and one that has stored its value has the lock, its key is not torn, and NVS still
\* holds the value.
SettersInv ==
    /\ owner # NoOne => set[owner] # NoOne
    /\ \A c \in Setters :
           set[c] # NoOne =>
               /\ up
               /\ Validates(set[c].key, set[c].value)
               /\ set[c].stored => /\ owner = c
                                   /\ mqtt_nvs[set[c].key] = set[c].value
                                   /\ set[c].key \notin mqtt_torn

MqttInv == MqttTypeOK /\ (up <=> Loads) /\ SettersInv /\ ConfigurationIsSound
-----------------------------------------------------------------------------

\* What a setter is, as its type knows it.
LEMMA OfSetter ==
    ASSUME MqttTypeOK, NEW c \in Setters, set[c] # NoOne
    PROVE  set[c].key \in MqttKeys /\ set[c].value \in Strings /\ set[c].stored \in BOOLEAN
BY DEF MqttTypeOK, Setter

\* Texts that a validator takes fit the buffers, and so do the defaults.
LEMMA ValidFits ==
    ASSUME NEW k, NEW v, Validates(k, v)
    PROVE  v # Absent /\ v # Overlong /\ v \in Strings
BY TextsAssumption DEF Validates, Strings

LEMMA LoadedTextType ==
    ASSUME MqttTypeOK, NEW k \in MqttKeys
    PROVE  LoadedText(k) \in Strings /\ DefaultText(k) \in Strings
BY DEF MqttTypeOK, LoadedText, DefaultText, Strings

\* What a client can be started with.
Usable(k) ==
    {v \in Strings : Validates(k, v)} \cup (IF k \in {"uri", "user"} THEN {Blank} ELSE {})
        \cup (IF k = "user" THEN {Odd} ELSE {})

LEMMA LoadedTextUsable ==
    ASSUME MqttTypeOK, Loads, NEW k \in MqttKeys
    PROVE  LoadedText(k) \in Usable(k)
BY DEF MqttTypeOK, Loads, LoadedText, DefaultText, Usable, Validates, Strings, MqttKeys

\* A boot loads a text that a validator took.
LEMMA ValidIsLoaded ==
    ASSUME NEW k, Validates(k, mqtt_nvs[k])
    PROVE  LoadedText(k) = mqtt_nvs[k]
BY ValidFits DEF LoadedText

\* A boot of any content of NVS, and one after a power loss.
LEMMA BootInv ==
    ASSUME MqttTypeOK, owner = NoOne, mqtt_torn = {}, up = Loads,
           set = [c \in Setters |-> NoOne],
           config = IF Loads THEN [k \in MqttKeys |-> LoadedText(k)] ELSE [k \in MqttKeys |-> DefaultText(k)]
    PROVE  MqttInv
<1>1. up <=> Loads
  OBVIOUS
<1>2. SettersInv
  BY DEF SettersInv
<1>3. ConfigurationIsSound
  <2> SUFFICES ASSUME up
               PROVE  \A k \in MqttKeys : config[k] \in Usable(k) /\ config[k] = LoadedText(k)
    BY <1>1 DEF ConfigurationIsSound, Usable
  <2> QED BY <1>1, LoadedTextUsable
<1> QED BY <1>1, <1>2, <1>3 DEF MqttInv

LEMMA MqttInitInv == MqttInit => MqttInv
<1> SUFFICES ASSUME MqttInit PROVE MqttInv
  OBVIOUS
<1>1. MqttTypeOK
  <2>1. mqtt_nvs \in [MqttKeys -> Strings \cup {Absent}]
    BY DEF MqttInit, Strings
  <2>2. \A k \in MqttKeys : LoadedText(k) \in Strings /\ DefaultText(k) \in Strings
    BY <2>1 DEF LoadedText, DefaultText, Strings
  <2>3. Loads \in BOOLEAN
    BY DEF Loads
  <2> QED BY <2>1, <2>2, <2>3 DEF MqttInit, MqttTypeOK
<1> QED BY <1>1, BootInv DEF MqttInit

LEMMA MqttRestartInv == ASSUME MqttInv, MqttRestart PROVE MqttInv'
<1>1. MqttTypeOK'
  <2>1. \A k \in MqttKeys : LoadedText(k) \in Strings /\ DefaultText(k) \in Strings
    BY LoadedTextType DEF MqttInv
  <2>2. Loads \in BOOLEAN
    BY DEF Loads
  <2> QED BY <2>1, <2>2 DEF MqttInv, MqttRestart, MqttTypeOK
<1>2. (Loads' <=> Loads) /\ \A k \in MqttKeys : LoadedText(k)' = LoadedText(k)
  BY DEF MqttRestart, Loads, LoadedText
<1>3. SettersInv' /\ (up' <=> Loads')
  BY <1>2 DEF MqttRestart, SettersInv
<1>4. ConfigurationIsSound'
  <2> SUFFICES ASSUME Loads
               PROVE  \A k \in MqttKeys : config'[k] \in Usable(k) /\ config'[k] = LoadedText(k)'
    BY <1>2, <1>3 DEF ConfigurationIsSound, Usable
  <2> QED BY <1>2, LoadedTextUsable DEF MqttRestart, MqttInv
<1> QED BY <1>1, <1>3, <1>4 DEF MqttInv

LEMMA RequestInv ==
    ASSUME MqttInv, NEW c \in Setters, NEW k \in MqttKeys, NEW v \in Strings, Request(c, k, v)
    PROVE  MqttInv'
<1> DEFINE new == [key |-> k, value |-> v, stored |-> FALSE]
<1>1. new \in Setter /\ new # NoOne /\ set' = [set EXCEPT ![c] = new] /\ set[c] = NoOne
  <2>1. new \in Setter
    BY DEF Setter
  <2> QED BY <2>1, SetterAssumption DEF Request
<1>2. UNCHANGED <<mqtt_nvs, config, up, owner, mqtt_torn>> /\ Validates(k, v)
  BY DEF Request
<1>3. MqttTypeOK'
  BY <1>1, <1>2 DEF MqttInv, MqttTypeOK
<1>4. SettersInv'
  <2>1. up /\ \A d \in Setters \ {c} : set'[d] = set[d]
    BY <1>1 DEF Request, MqttInv, MqttTypeOK
  <2>2. set'[c] = new
    BY <1>1 DEF MqttInv, MqttTypeOK
  <2> QED BY <1>1, <1>2, <2>1, <2>2 DEF MqttInv, MqttTypeOK, SettersInv, Validates
<1>5. (up' <=> Loads') /\ ConfigurationIsSound'
  BY <1>1, <1>2 DEF MqttInv, MqttTypeOK, ConfigurationIsSound, Loads, LoadedText, Pending, Validates
<1> QED BY <1>3, <1>4, <1>5 DEF MqttInv

LEMMA TakeMqttLockInv == ASSUME MqttInv, NEW c \in Setters, TakeLock(c) PROVE MqttInv'
<1>1. MqttTypeOK'
  BY DEF MqttInv, MqttTypeOK, TakeLock
<1>2. SettersInv'
  BY TextsAssumption DEF MqttInv, SettersInv, TakeLock, Validates
<1>3. (up' <=> Loads') /\ ConfigurationIsSound'
  BY DEF MqttInv, ConfigurationIsSound, Loads, LoadedText, Pending, Validates, TakeLock
<1> QED BY <1>1, <1>2, <1>3 DEF MqttInv

\* The key is NVS's new value and pending, and every other is as it was.
LEMMA StoreTextInv == ASSUME MqttInv, NEW c \in Setters, StoreText(c) PROVE MqttInv'
<1> DEFINE k == set[c].key
           v == set[c].value
<1>1. owner = c /\ set[c] # NoOne /\ k \in MqttKeys /\ v \in Strings /\ Validates(k, v)
  BY OfSetter, TextsAssumption DEF MqttInv, SettersInv, StoreText
<1>2. v # Absent /\ v # Overlong
  BY <1>1, ValidFits
<1>3. /\ mqtt_nvs' = [mqtt_nvs EXCEPT ![k] = v] /\ mqtt_torn' = mqtt_torn \ {k}
      /\ UNCHANGED <<config, up, owner>>
  BY DEF StoreText
<1>4. /\ set' \in [Setters -> Setter \cup {NoOne}]
      /\ \A d \in Setters \ {c} : set'[d] = set[d]
      /\ set'[c].key = k /\ set'[c].value = v /\ set'[c].stored = TRUE /\ set'[c] # NoOne
  <2>1. [set[c] EXCEPT !.stored = TRUE] \in Setter
    BY <1>1 DEF MqttInv, MqttTypeOK, Setter
  <2>2. set' = [set EXCEPT ![c] = [set[c] EXCEPT !.stored = TRUE]]
    BY DEF StoreText, MqttInv, MqttTypeOK
  <2>3. [set[c] EXCEPT !.stored = TRUE].key = k /\ [set[c] EXCEPT !.stored = TRUE].value = v
        /\ [set[c] EXCEPT !.stored = TRUE].stored = TRUE
    BY <1>1 DEF MqttInv, MqttTypeOK, Setter
  <2> QED BY <2>1, <2>2, <2>3, SetterAssumption DEF MqttInv, MqttTypeOK
<1> HIDE DEF k, v
<1>5. MqttTypeOK'
  BY <1>1, <1>3, <1>4 DEF MqttInv, MqttTypeOK
<1>6. SettersInv'
  BY <1>1, <1>3, <1>4 DEF MqttInv, MqttTypeOK, SettersInv, Validates
<1>7. /\ mqtt_nvs'[k] = v
      /\ \A j \in MqttKeys \ {k} : mqtt_nvs'[j] = mqtt_nvs[j] /\ LoadedText(j)' = LoadedText(j)
  BY <1>1, <1>3 DEF MqttInv, MqttTypeOK, LoadedText, Validates
<1>8. up' => Loads'
  BY <1>2, <1>3, <1>7 DEF MqttInv, Loads
<1>9. up'
  BY <1>1, <1>3 DEF MqttInv, SettersInv
<1>10. ConfigurationIsSound'
  <2>1. \A j : j = k => Pending(j)'
    <3>1. set'[c] # NoOne /\ set'[c].key = k /\ set'[c].stored
      BY <1>4
    <3> QED BY <3>1 DEF Pending
  <2>2. ASSUME NEW j \in MqttKeys, Pending(j) PROVE Pending(j)'
    <3>1. PICK d \in Setters : set[d] # NoOne /\ set[d].key = j /\ set[d].stored
      BY <2>2 DEF Pending
    <3>2. d # c
      BY <3>1 DEF StoreText
    <3> QED BY <1>4, <3>1, <3>2 DEF Pending
  <2>3. \A j \in MqttKeys \ mqtt_torn' : ~Pending(j)' => config'[j] = LoadedText(j)'
    <3> SUFFICES ASSUME NEW j \in MqttKeys \ mqtt_torn', ~Pending(j)' PROVE config'[j] = LoadedText(j)'
      OBVIOUS
    <3>1. j # k /\ j \notin mqtt_torn /\ ~Pending(j)
      BY <1>3, <2>1, <2>2
    <3>2. config[j] = LoadedText(j)
      BY <1>3, <1>9, <3>1 DEF MqttInv, ConfigurationIsSound
    <3> QED BY <1>3, <1>7, <3>1, <3>2
  <2> QED BY <1>3, <1>8, <1>9, <2>3 DEF MqttInv, ConfigurationIsSound, Validates
<1> QED BY <1>5, <1>6, <1>8, <1>9, <1>10 DEF MqttInv

\* A commit that fails leaves NVS as it was or tears the key.
LEMMA StoreTextFailsInv == ASSUME MqttInv, NEW c \in Setters, StoreTextFails(c) PROVE MqttInv'
<1> DEFINE k == set[c].key
           v == set[c].value
<1>1. owner = c /\ set[c] # NoOne /\ k \in MqttKeys /\ v \in Strings /\ Validates(k, v) /\ up
  BY OfSetter, TextsAssumption DEF MqttInv, SettersInv, StoreTextFails
<1>2. v # Absent /\ v # Overlong
  BY <1>1, ValidFits
<1>3. /\ set' = [set EXCEPT ![c] = NoOne] /\ owner' = NoOne /\ UNCHANGED <<config, up>>
      /\ \/ UNCHANGED <<mqtt_nvs, mqtt_torn>>
         \/ mqtt_nvs' = [mqtt_nvs EXCEPT ![k] = v] /\ mqtt_torn' = mqtt_torn \cup {k}
  BY DEF StoreTextFails
<1>4. ~set[c].stored
  BY DEF StoreTextFails
<1> HIDE DEF k, v
<1>5. MqttTypeOK'
  BY <1>1, <1>3 DEF MqttInv, MqttTypeOK
<1>6. \A d \in Setters : set'[d] # NoOne => set'[d] = set[d] /\ d # c /\ ~set[d].stored
  BY <1>1, <1>3 DEF MqttInv, MqttTypeOK, SettersInv
<1>7. SettersInv'
  BY <1>1, <1>3, <1>6 DEF MqttInv, SettersInv, Validates
<1>8. \A j \in MqttKeys : j \in mqtt_torn' \/ mqtt_nvs'[j] = mqtt_nvs[j]
  BY <1>1, <1>3 DEF MqttInv, MqttTypeOK
<1>9. Loads'
  BY <1>1, <1>2, <1>3 DEF MqttInv, MqttTypeOK, Loads
<1>10. ASSUME NEW j \in MqttKeys \ mqtt_torn' PROVE config'[j] = LoadedText(j)'
  <2>1. mqtt_nvs'[j] = mqtt_nvs[j] /\ j \notin mqtt_torn
    BY <1>3, <1>8, <1>10
  <2>2. \A d \in Setters : set[d] # NoOne => ~set[d].stored
    BY <1>1, <1>4 DEF MqttInv, SettersInv
  <2>3. ~Pending(j)
    BY <2>2 DEF Pending
  <2> QED BY <1>1, <1>3, <2>1, <2>3 DEF MqttInv, ConfigurationIsSound, LoadedText, Validates
<1>11. ConfigurationIsSound'
  BY <1>1, <1>3, <1>9, <1>10 DEF MqttInv, ConfigurationIsSound, Validates
<1> QED BY <1>1, <1>3, <1>5, <1>7, <1>9, <1>11 DEF MqttInv

\* RAM takes what NVS has.
LEMMA ApplyTextInv == ASSUME MqttInv, NEW c \in Setters, ApplyText(c) PROVE MqttInv'
<1> DEFINE k == set[c].key
           v == set[c].value
<1>1. owner = c /\ set[c] # NoOne /\ set[c].stored
  BY TextsAssumption DEF MqttInv, SettersInv, ApplyText
<1>2. k \in MqttKeys /\ v \in Strings /\ Validates(k, v) /\ up /\ mqtt_nvs[k] = v
  BY <1>1, OfSetter DEF MqttInv, SettersInv
<1>3. /\ set' = [set EXCEPT ![c] = NoOne] /\ owner' = NoOne /\ UNCHANGED <<mqtt_nvs, up, mqtt_torn>>
      /\ config' = [config EXCEPT ![k] = v]
  BY DEF ApplyText
<1> HIDE DEF k, v
<1>4. MqttTypeOK'
  BY <1>1, <1>2, <1>3 DEF MqttInv, MqttTypeOK
<1>5. SettersInv'
  BY <1>1, <1>3 DEF MqttInv, MqttTypeOK, SettersInv, Validates
<1>6. Loads' /\ up' /\ \A j \in MqttKeys : LoadedText(j)' = LoadedText(j)
  BY <1>2, <1>3 DEF MqttInv, Loads, LoadedText, Validates
<1>7. config'[k] = v /\ LoadedText(k) = v /\ \A j \in MqttKeys \ {k} : config'[j] = config[j]
  BY <1>2, <1>3, ValidIsLoaded DEF MqttInv, MqttTypeOK
<1>8. ASSUME NEW j \in MqttKeys \ mqtt_torn, ~Pending(j)', j # k PROVE config'[j] = LoadedText(j)'
  <2>1. ~Pending(j)
    <3> SUFFICES ASSUME NEW d \in Setters, set[d] # NoOne, set[d].key = j, set[d].stored PROVE FALSE
      BY DEF Pending
    <3>1. d # c
      BY <1>8 DEF k
    <3> QED BY <1>1, <3>1 DEF MqttInv, SettersInv
  <2> QED BY <1>2, <1>6, <1>7, <1>8, <2>1 DEF MqttInv, ConfigurationIsSound
<1>9. ConfigurationIsSound'
  <2>1. \A j \in MqttKeys \ mqtt_torn' : ~Pending(j)' => config'[j] = LoadedText(j)'
    BY <1>3, <1>6, <1>7, <1>8
  <2>2. \A j \in MqttKeys : config'[j] \in Usable(j)
    <3>1. \A j \in MqttKeys : config[j] \in Usable(j)
      BY <1>2 DEF MqttInv, ConfigurationIsSound, Usable
    <3>2. v \in Usable(k)
      BY <1>2 DEF Usable
    <3> QED BY <1>7, <3>1, <3>2
  <2> QED BY <1>6, <2>1, <2>2 DEF ConfigurationIsSound, Usable, Validates
<1> QED BY <1>4, <1>5, <1>6, <1>9 DEF MqttInv

LEMMA MqttNextInv == MqttInv /\ [MqttNext]_mqttVars => MqttInv'
<1>1. MqttInv /\ UNCHANGED mqttVars => MqttInv'
  BY DEF mqttVars, MqttInv, MqttTypeOK, SettersInv, ConfigurationIsSound, Loads, LoadedText, Pending, Validates
<1> QED BY <1>1, MqttRestartInv, RequestInv, TakeMqttLockInv, StoreTextInv, StoreTextFailsInv, ApplyTextInv
        DEF MqttNext

\* For any number of sessions, any texts in NVS and a power loss at any step: a configured
\* service works with texts a client can be started with, what a session reads of a key is
\* what the next boot loads, and no setter leaves NVS so that the service stays down.
THEOREM ConfigurationCorrect == MqttSpec => []ConfigurationIsSound
<1>1. MqttInv => ConfigurationIsSound
  BY DEF MqttInv
<1> QED BY <1>1, MqttInitInv, MqttNextInv, PTL DEF MqttSpec

-----------------------------------------------------------------------------
(***************************************************************************)
(* WifiManager.  A key that no two setters wrote at a time has one setter: *)
(* NVS has its value from the store on, and RAM what NVS had before.  A    *)
(* task that writes the status alone leaves of it what it has still to     *)
(* write.                                                                  *)
(***************************************************************************)

\* What is left of the assignments of a WIFI:CLEAR and of the event task.
ClearSteps ==
    {<<"ssid", "password", "connected", "ip", "at">>, <<"password", "connected", "ip", "at">>,
     <<"connected", "ip", "at">>, <<"ip", "at">>, <<"at">>}
EventSteps == {<<"ip", "connected", "at">>, <<"connected", "at">>, <<"at">>}

\* How far a session is with its setter.
AtRest(t) == wifi_call[t].keys = <<>> /\ wifi_call[t].writes = <<>>
SetsText(c) ==
    \E k \in Keys : wifi_call[c].keys \in {<<k>>, <<>>} /\ wifi_call[c].writes = <<k>>
Clears(c) ==
    /\ wifi_call[c].to = Cleared
    /\ wifi_call[c].writes \in ClearSteps
    /\ \/ wifi_call[c].keys = <<>>
       \/ /\ wifi_call[c].keys \in {<<"ssid", "password">>, <<"password">>}
          /\ wifi_call[c].writes = <<"ssid", "password", "connected", "ip", "at">>

Consistent(s) == (s.connected <=> s.at > 0) /\ (s.connected <=> s.ip = Address)

ShapeInv ==
    /\ \A c \in Sessions : AtRest(c) \/ SetsText(c) \/ Clears(c)
    /\ \A t \in Tasks : Consistent(wifi_call[t].to)
    /\ wifi_call[EventTask].keys = <<>>
    /\ wifi_call[EventTask].writes \in EventSteps \cup {<<>>}

\* A key whose setters never overlapped has one setter at a time: NVS has its value from
\* the store on, and RAM has what NVS had before.
KeyInv ==
    \A k \in Keys \ overlapped :
        /\ \A c, d \in Sessions : k \in KeysOf(c) /\ k \in KeysOf(d) => c = d
        /\ \A c \in Sessions :
               k \in KeysOf(c) =>
                   wifi_nvs[k] = IF k \in Range(wifi_call[c].keys) THEN wifi[k] ELSE wifi_call[c].to[k]
        /\ (\A c \in Sessions : k \notin KeysOf(c)) => wifi_nvs[k] = wifi[k]

\* What a writer of the status has left is what the fields need to agree again.
WroteTheRest(w, to) ==
    /\ w \in {<<"at">>, <<"ip", "at">>} => (wifi.connected <=> to.connected)
    /\ w \in {<<"at">>, <<"connected", "at">>} => wifi.ip = to.ip

LinkInv ==
    ~crossed =>
        /\ (\A t \in Tasks : ~WritesStatus(t)) => Consistent(wifi)
        /\ \A t \in Tasks : WroteTheRest(wifi_call[t].writes, wifi_call[t].to)

\* A query during which no field of the link changed has copied them as they are.
Says(q) ==
    q.time # "no" =>
        /\ "connected" \notin q.left => (q.connected <=> wifi.connected)
        /\ "ip" \notin q.left => q.ip = wifi.ip
        /\ q.time # "check" => q.left = {}
        /\ q.time \in {"take", "since"} => wifi.connected /\ wifi.at > 0
        /\ q.time = "zero" => ~(wifi.connected /\ wifi.at > 0)
        /\ q.time # "uptime"

QueryInv == \A c \in Sessions \ disturbed : Says(query[c])

WifiInv == WifiTypeOK /\ ShapeInv /\ KeyInv /\ LinkInv /\ QueryInv
-----------------------------------------------------------------------------

(* Sequences of keys and fields *)

\* The orders in which keys and fields are written.
KeySteps == {<<"ssid">>, <<"password">>, <<"ssid", "password">>}
Steps == KeySteps \cup ClearSteps \cup EventSteps

LEMMA RangeOfNone == Range(<<>>) = {}
BY DEF Range

LEMMA RangeOfSteps ==
    /\ Range(<<"ssid", "password", "connected", "ip", "at">>) = {"ssid", "password", "connected", "ip", "at"}
    /\ Range(<<"password", "connected", "ip", "at">>) = {"password", "connected", "ip", "at"}
    /\ Range(<<"connected", "ip", "at">>) = {"connected", "ip", "at"}
    /\ Range(<<"ip", "at">>) = {"ip", "at"}
    /\ Range(<<"at">>) = {"at"}
    /\ Range(<<"ip", "connected", "at">>) = {"ip", "connected", "at"}
    /\ Range(<<"connected", "at">>) = {"connected", "at"}
    /\ Range(<<"ssid">>) = {"ssid"}
    /\ Range(<<"password">>) = {"password"}
    /\ Range(<<"ssid", "password">>) = {"ssid", "password"}
<1>1. Range(<<"ssid", "password", "connected", "ip", "at">>) = {"ssid", "password", "connected", "ip", "at"}
  BY DEF Range
<1>2. Range(<<"password", "connected", "ip", "at">>) = {"password", "connected", "ip", "at"}
  BY DEF Range
<1>3. Range(<<"connected", "ip", "at">>) = {"connected", "ip", "at"}
  BY DEF Range
<1>4. Range(<<"ip", "at">>) = {"ip", "at"}
  BY DEF Range
<1>5. Range(<<"at">>) = {"at"}
  BY DEF Range
<1>6. Range(<<"ip", "connected", "at">>) = {"ip", "connected", "at"}
  BY DEF Range
<1>7. Range(<<"connected", "at">>) = {"connected", "at"}
  BY DEF Range
<1>8. Range(<<"ssid">>) = {"ssid"}
  BY DEF Range
<1>9. Range(<<"password">>) = {"password"}
  BY DEF Range
<1>10. Range(<<"ssid", "password">>) = {"ssid", "password"}
  BY DEF Range
<1> QED BY <1>1, <1>2, <1>3, <1>4, <1>5, <1>6, <1>7, <1>8, <1>9, <1>10

LEMMA TailOfSteps ==
    /\ Head(<<"ssid", "password", "connected", "ip", "at">>) = "ssid" /\ Tail(<<"ssid", "password", "connected", "ip", "at">>) = <<"password", "connected", "ip", "at">>
    /\ Head(<<"password", "connected", "ip", "at">>) = "password" /\ Tail(<<"password", "connected", "ip", "at">>) = <<"connected", "ip", "at">>
    /\ Head(<<"connected", "ip", "at">>) = "connected" /\ Tail(<<"connected", "ip", "at">>) = <<"ip", "at">>
    /\ Head(<<"ip", "at">>) = "ip" /\ Tail(<<"ip", "at">>) = <<"at">>
    /\ Head(<<"at">>) = "at" /\ Tail(<<"at">>) = <<>>
    /\ Head(<<"ip", "connected", "at">>) = "ip" /\ Tail(<<"ip", "connected", "at">>) = <<"connected", "at">>
    /\ Head(<<"connected", "at">>) = "connected" /\ Tail(<<"connected", "at">>) = <<"at">>
    /\ Head(<<"ssid">>) = "ssid" /\ Tail(<<"ssid">>) = <<>>
    /\ Head(<<"password">>) = "password" /\ Tail(<<"password">>) = <<>>
    /\ Head(<<"ssid", "password">>) = "ssid" /\ Tail(<<"ssid", "password">>) = <<"password">>
<1>1. Head(<<"ssid", "password", "connected", "ip", "at">>) = "ssid" /\ Tail(<<"ssid", "password", "connected", "ip", "at">>) = <<"password", "connected", "ip", "at">>
  OBVIOUS
<1>2. Head(<<"password", "connected", "ip", "at">>) = "password" /\ Tail(<<"password", "connected", "ip", "at">>) = <<"connected", "ip", "at">>
  OBVIOUS
<1>3. Head(<<"connected", "ip", "at">>) = "connected" /\ Tail(<<"connected", "ip", "at">>) = <<"ip", "at">>
  OBVIOUS
<1>4. Head(<<"ip", "at">>) = "ip" /\ Tail(<<"ip", "at">>) = <<"at">>
  OBVIOUS
<1>5. Head(<<"at">>) = "at" /\ Tail(<<"at">>) = <<>>
  OBVIOUS
<1>6. Head(<<"ip", "connected", "at">>) = "ip" /\ Tail(<<"ip", "connected", "at">>) = <<"connected", "at">>
  OBVIOUS
<1>7. Head(<<"connected", "at">>) = "connected" /\ Tail(<<"connected", "at">>) = <<"at">>
  OBVIOUS
<1>8. Head(<<"ssid">>) = "ssid" /\ Tail(<<"ssid">>) = <<>>
  OBVIOUS
<1>9. Head(<<"password">>) = "password" /\ Tail(<<"password">>) = <<>>
  OBVIOUS
<1>10. Head(<<"ssid", "password">>) = "ssid" /\ Tail(<<"ssid", "password">>) = <<"password">>
  OBVIOUS
<1> QED BY <1>1, <1>2, <1>3, <1>4, <1>5, <1>6, <1>7, <1>8, <1>9, <1>10

LEMMA FieldNames == DOMAIN Cleared = {"ssid", "password", "connected", "ip", "at"}
BY DEF Cleared

LEMMA StepsAreFields == Steps \subseteq Seq(DOMAIN Cleared)
<1>1. <<"ssid", "password", "connected", "ip", "at">> \in Seq({"ssid", "password", "connected", "ip", "at"})
  OBVIOUS
<1>2. <<"password", "connected", "ip", "at">> \in Seq({"ssid", "password", "connected", "ip", "at"})
  OBVIOUS
<1>3. <<"connected", "ip", "at">> \in Seq({"ssid", "password", "connected", "ip", "at"})
  OBVIOUS
<1>4. <<"ip", "at">> \in Seq({"ssid", "password", "connected", "ip", "at"})
  OBVIOUS
<1>5. <<"at">> \in Seq({"ssid", "password", "connected", "ip", "at"})
  OBVIOUS
<1>6. <<"ip", "connected", "at">> \in Seq({"ssid", "password", "connected", "ip", "at"})
  OBVIOUS
<1>7. <<"connected", "at">> \in Seq({"ssid", "password", "connected", "ip", "at"})
  OBVIOUS
<1>8. <<"ssid">> \in Seq({"ssid", "password", "connected", "ip", "at"})
  OBVIOUS
<1>9. <<"password">> \in Seq({"ssid", "password", "connected", "ip", "at"})
  OBVIOUS
<1>10. <<"ssid", "password">> \in Seq({"ssid", "password", "connected", "ip", "at"})
  OBVIOUS
<1> QED BY FieldNames, <1>1, <1>2, <1>3, <1>4, <1>5, <1>6, <1>7, <1>8, <1>9, <1>10 DEF Steps, KeySteps, ClearSteps, EventSteps

LEMMA EmptyIsFields == <<>> \in Seq(DOMAIN Cleared)
OBVIOUS

\* What one write leaves of each.
LEMMA StepFacts ==
    ASSUME NEW w \in Steps
    PROVE  /\ w # <<>> /\ Head(w) \in DOMAIN Cleared
           /\ Tail(w) \in Steps \cup {<<>>} /\ Tail(w) \in Seq(DOMAIN Cleared)
           /\ Head(w) \in Range(w) /\ Range(Tail(w)) = Range(w) \ {Head(w)}
<1>1. CASE w = <<"ssid", "password", "connected", "ip", "at">>
  <2>1. Range(w) = {"ssid", "password", "connected", "ip", "at"} /\ Head(w) = "ssid"
    BY <1>1, RangeOfSteps, TailOfSteps, Zenon
  <2>2. Tail(w) = <<"password", "connected", "ip", "at">>
    BY <1>1, TailOfSteps, Zenon
  <2>3. Range(Tail(w)) = {"password", "connected", "ip", "at"}
    BY <2>2, RangeOfSteps, RangeOfNone, Zenon
  <2>4. Range(Tail(w)) = Range(w) \ {Head(w)} /\ Head(w) \in DOMAIN Cleared
    BY <2>1, <2>3, FieldNames
  <2>5. w # <<>>
    BY <1>1
  <2>6. Tail(w) \in Steps \cup {<<>>}
    BY <2>2 DEF Steps, KeySteps, ClearSteps, EventSteps
  <2> QED BY <2>1, <2>4, <2>5, <2>6, StepsAreFields, EmptyIsFields, Zenon
<1>2. CASE w = <<"password", "connected", "ip", "at">>
  <2>1. Range(w) = {"password", "connected", "ip", "at"} /\ Head(w) = "password"
    BY <1>2, RangeOfSteps, TailOfSteps, Zenon
  <2>2. Tail(w) = <<"connected", "ip", "at">>
    BY <1>2, TailOfSteps, Zenon
  <2>3. Range(Tail(w)) = {"connected", "ip", "at"}
    BY <2>2, RangeOfSteps, RangeOfNone, Zenon
  <2>4. Range(Tail(w)) = Range(w) \ {Head(w)} /\ Head(w) \in DOMAIN Cleared
    BY <2>1, <2>3, FieldNames
  <2>5. w # <<>>
    BY <1>2
  <2>6. Tail(w) \in Steps \cup {<<>>}
    BY <2>2 DEF Steps, KeySteps, ClearSteps, EventSteps
  <2> QED BY <2>1, <2>4, <2>5, <2>6, StepsAreFields, EmptyIsFields, Zenon
<1>3. CASE w = <<"connected", "ip", "at">>
  <2>1. Range(w) = {"connected", "ip", "at"} /\ Head(w) = "connected"
    BY <1>3, RangeOfSteps, TailOfSteps, Zenon
  <2>2. Tail(w) = <<"ip", "at">>
    BY <1>3, TailOfSteps, Zenon
  <2>3. Range(Tail(w)) = {"ip", "at"}
    BY <2>2, RangeOfSteps, RangeOfNone, Zenon
  <2>4. Range(Tail(w)) = Range(w) \ {Head(w)} /\ Head(w) \in DOMAIN Cleared
    BY <2>1, <2>3, FieldNames
  <2>5. w # <<>>
    BY <1>3
  <2>6. Tail(w) \in Steps \cup {<<>>}
    BY <2>2 DEF Steps, KeySteps, ClearSteps, EventSteps
  <2> QED BY <2>1, <2>4, <2>5, <2>6, StepsAreFields, EmptyIsFields, Zenon
<1>4. CASE w = <<"ip", "at">>
  <2>1. Range(w) = {"ip", "at"} /\ Head(w) = "ip"
    BY <1>4, RangeOfSteps, TailOfSteps, Zenon
  <2>2. Tail(w) = <<"at">>
    BY <1>4, TailOfSteps, Zenon
  <2>3. Range(Tail(w)) = {"at"}
    BY <2>2, RangeOfSteps, RangeOfNone, Zenon
  <2>4. Range(Tail(w)) = Range(w) \ {Head(w)} /\ Head(w) \in DOMAIN Cleared
    BY <2>1, <2>3, FieldNames
  <2>5. w # <<>>
    BY <1>4
  <2>6. Tail(w) \in Steps \cup {<<>>}
    BY <2>2 DEF Steps, KeySteps, ClearSteps, EventSteps
  <2> QED BY <2>1, <2>4, <2>5, <2>6, StepsAreFields, EmptyIsFields, Zenon
<1>5. CASE w = <<"at">>
  <2>1. Range(w) = {"at"} /\ Head(w) = "at"
    BY <1>5, RangeOfSteps, TailOfSteps, Zenon
  <2>2. Tail(w) = <<>>
    BY <1>5, TailOfSteps, Zenon
  <2>3. Range(Tail(w)) = {}
    BY <2>2, RangeOfSteps, RangeOfNone, Zenon
  <2>4. Range(Tail(w)) = Range(w) \ {Head(w)} /\ Head(w) \in DOMAIN Cleared
    BY <2>1, <2>3, FieldNames
  <2>5. w # <<>>
    BY <1>5
  <2>6. Tail(w) \in Steps \cup {<<>>}
    BY <2>2 DEF Steps, KeySteps, ClearSteps, EventSteps
  <2> QED BY <2>1, <2>4, <2>5, <2>6, StepsAreFields, EmptyIsFields, Zenon
<1>6. CASE w = <<"ip", "connected", "at">>
  <2>1. Range(w) = {"ip", "connected", "at"} /\ Head(w) = "ip"
    BY <1>6, RangeOfSteps, TailOfSteps, Zenon
  <2>2. Tail(w) = <<"connected", "at">>
    BY <1>6, TailOfSteps, Zenon
  <2>3. Range(Tail(w)) = {"connected", "at"}
    BY <2>2, RangeOfSteps, RangeOfNone, Zenon
  <2>4. Range(Tail(w)) = Range(w) \ {Head(w)} /\ Head(w) \in DOMAIN Cleared
    BY <2>1, <2>3, FieldNames
  <2>5. w # <<>>
    BY <1>6
  <2>6. Tail(w) \in Steps \cup {<<>>}
    BY <2>2 DEF Steps, KeySteps, ClearSteps, EventSteps
  <2> QED BY <2>1, <2>4, <2>5, <2>6, StepsAreFields, EmptyIsFields, Zenon
<1>7. CASE w = <<"connected", "at">>
  <2>1. Range(w) = {"connected", "at"} /\ Head(w) = "connected"
    BY <1>7, RangeOfSteps, TailOfSteps, Zenon
  <2>2. Tail(w) = <<"at">>
    BY <1>7, TailOfSteps, Zenon
  <2>3. Range(Tail(w)) = {"at"}
    BY <2>2, RangeOfSteps, RangeOfNone, Zenon
  <2>4. Range(Tail(w)) = Range(w) \ {Head(w)} /\ Head(w) \in DOMAIN Cleared
    BY <2>1, <2>3, FieldNames
  <2>5. w # <<>>
    BY <1>7
  <2>6. Tail(w) \in Steps \cup {<<>>}
    BY <2>2 DEF Steps, KeySteps, ClearSteps, EventSteps
  <2> QED BY <2>1, <2>4, <2>5, <2>6, StepsAreFields, EmptyIsFields, Zenon
<1>8. CASE w = <<"ssid">>
  <2>1. Range(w) = {"ssid"} /\ Head(w) = "ssid"
    BY <1>8, RangeOfSteps, TailOfSteps, Zenon
  <2>2. Tail(w) = <<>>
    BY <1>8, TailOfSteps, Zenon
  <2>3. Range(Tail(w)) = {}
    BY <2>2, RangeOfSteps, RangeOfNone, Zenon
  <2>4. Range(Tail(w)) = Range(w) \ {Head(w)} /\ Head(w) \in DOMAIN Cleared
    BY <2>1, <2>3, FieldNames
  <2>5. w # <<>>
    BY <1>8
  <2>6. Tail(w) \in Steps \cup {<<>>}
    BY <2>2 DEF Steps, KeySteps, ClearSteps, EventSteps
  <2> QED BY <2>1, <2>4, <2>5, <2>6, StepsAreFields, EmptyIsFields, Zenon
<1>9. CASE w = <<"password">>
  <2>1. Range(w) = {"password"} /\ Head(w) = "password"
    BY <1>9, RangeOfSteps, TailOfSteps, Zenon
  <2>2. Tail(w) = <<>>
    BY <1>9, TailOfSteps, Zenon
  <2>3. Range(Tail(w)) = {}
    BY <2>2, RangeOfSteps, RangeOfNone, Zenon
  <2>4. Range(Tail(w)) = Range(w) \ {Head(w)} /\ Head(w) \in DOMAIN Cleared
    BY <2>1, <2>3, FieldNames
  <2>5. w # <<>>
    BY <1>9
  <2>6. Tail(w) \in Steps \cup {<<>>}
    BY <2>2 DEF Steps, KeySteps, ClearSteps, EventSteps
  <2> QED BY <2>1, <2>4, <2>5, <2>6, StepsAreFields, EmptyIsFields, Zenon
<1>10. CASE w = <<"ssid", "password">>
  <2>1. Range(w) = {"ssid", "password"} /\ Head(w) = "ssid"
    BY <1>10, RangeOfSteps, TailOfSteps, Zenon
  <2>2. Tail(w) = <<"password">>
    BY <1>10, TailOfSteps, Zenon
  <2>3. Range(Tail(w)) = {"password"}
    BY <2>2, RangeOfSteps, RangeOfNone, Zenon
  <2>4. Range(Tail(w)) = Range(w) \ {Head(w)} /\ Head(w) \in DOMAIN Cleared
    BY <2>1, <2>3, FieldNames
  <2>5. w # <<>>
    BY <1>10
  <2>6. Tail(w) \in Steps \cup {<<>>}
    BY <2>2 DEF Steps, KeySteps, ClearSteps, EventSteps
  <2> QED BY <2>1, <2>4, <2>5, <2>6, StepsAreFields, EmptyIsFields, Zenon
<1> QED BY <1>1, <1>2, <1>3, <1>4, <1>5, <1>6, <1>7, <1>8, <1>9, <1>10 DEF Steps, KeySteps, ClearSteps, EventSteps

-----------------------------------------------------------------------------
(* The parts of the state *)

\* A task that writes is in one of these orders; one with a full order still stores its keys.
LEMMA WritesShape ==
    ASSUME ShapeInv, NEW t \in Tasks, Writing(t)
    PROVE  wifi_call[t].writes \in Steps
BY DEF ShapeInv, Tasks, Keys, Writing, AtRest, SetsText, Clears, Steps, KeySteps

\* The event task stores no keys.
LEMMA StorersAreSessions ==
    ASSUME ShapeInv, NEW t \in Tasks, Storing(t)
    PROVE  t \in Sessions
BY DEF ShapeInv, Tasks, Storing

\* The end of a write of the status.
LEMMA EndWritesStatus ==
    ASSUME ShapeInv, NEW t \in Tasks,
           wifi_call[t].writes \in {<<"at">>, <<"connected", "at">>, <<"ip", "at">>}
    PROVE  WritesStatus(t)
<1>1. wifi_call[t].keys = <<>>
  <2>1. CASE t = EventTask
    BY <2>1 DEF ShapeInv
  <2>2. CASE t \in Sessions
    BY <2>2 DEF ShapeInv, AtRest, SetsText, Clears, Keys
  <2> QED BY <2>1, <2>2 DEF Tasks
<1>2. "at" \in Range(wifi_call[t].writes)
  BY RangeOfSteps, Zenon
<1> QED BY <1>1, <1>2 DEF WritesStatus, Storing, Keys

LEMMA CallType ==
    ASSUME WifiTypeOK, NEW t \in Tasks
    PROVE  /\ wifi_call[t].keys \in Seq(Keys) /\ wifi_call[t].writes \in Seq(DOMAIN Cleared)
           /\ wifi_call[t].to \in States
BY DEF WifiTypeOK

LEMMA ClearedState == Cleared \in States /\ Consistent(Cleared) /\ Nothing.to = Cleared
    /\ Nothing \in [keys : Seq(Keys), writes : Seq(DOMAIN Cleared), to : States]
<1>1. Cleared \in States /\ Consistent(Cleared)
  BY WifiAssumption DEF Cleared, States, Stored, Consistent
<1> QED BY <1>1 DEF Nothing

\* A key is written to NVS.
LEMMA StoredField ==
    ASSUME NEW s \in States, NEW k \in Keys
    PROVE  s[k] \in Stored
BY DEF States, Keys

-----------------------------------------------------------------------------
(* The initial state and each step *)

\* A boot from any content of NVS.
LEMMA BootIsSound ==
    ASSUME wifi_nvs \in [Keys -> Stored], wifi = LoadedState,
           wifi_call = [t \in Tasks |-> Nothing], query = [c \in Sessions |-> Asked],
           links = 0, calls = 0, overlapped = {}, crossed = FALSE, disturbed = {}
    PROVE  WifiInv
<1>1. LoadedState \in States /\ Consistent(LoadedState) /\ \A k \in Keys : LoadedState[k] = wifi_nvs[k]
  <2>1. LoadedState = [ssid |-> wifi_nvs["ssid"], password |-> wifi_nvs["password"],
                       connected |-> FALSE, ip |-> NoText, at |-> 0]
    BY DEF LoadedState
  <2>2. LoadedState \in States
    BY <2>1, WifiAssumption DEF States, Keys
  <2>3. Consistent(LoadedState)
    BY <2>1, WifiAssumption DEF Consistent
  <2>4. LoadedState["ssid"] = wifi_nvs["ssid"] /\ LoadedState["password"] = wifi_nvs["password"]
    BY <2>1
  <2> QED BY <2>2, <2>3, <2>4 DEF Keys
<1>2. /\ \A t \in Tasks : wifi_call[t] = Nothing /\ ~WritesStatus(t)
      /\ \A t \in Tasks : KeysOf(t) = {}
  BY RangeOfNone DEF Nothing, WritesStatus, KeysOf
<1>3. WifiTypeOK
  <2>1. query \in [Sessions -> [left : SUBSET {"connected", "ip"},
                               time : {"no", "check", "take", "zero", "since", "uptime"},
                               connected : BOOLEAN, ip : {NoText, Address}]]
    BY DEF Asked
  <2>2. wifi_call \in [Tasks -> [keys : Seq(Keys), writes : Seq(DOMAIN Cleared), to : States]]
    BY ClearedState
  <2>3. links \in 0..MaxLinks /\ calls \in 0..MaxCalls /\ crossed \in BOOLEAN
    <3>1. links \in 0..MaxLinks /\ calls \in 0..MaxCalls
      BY WifiAssumption
    <3> QED BY <3>1, Zenon
  <2> QED BY <1>1, <2>1, <2>2, <2>3 DEF WifiTypeOK
<1>4. ShapeInv
  BY <1>2, ClearedState DEF ShapeInv, AtRest, Nothing, Tasks
<1>5. KeyInv
  BY <1>1, <1>2 DEF KeyInv, Tasks
<1>6. LinkInv
  BY <1>1, <1>2 DEF LinkInv, WroteTheRest, Nothing
<1>7. QueryInv
  BY DEF QueryInv, Says, Asked
<1> QED BY <1>3, <1>4, <1>5, <1>6, <1>7 DEF WifiInv

\* A setter's call begins with a key and the field of it, or as a WIFI:CLEAR.
LEMMA BeginCallInv ==
    ASSUME WifiInv, NEW c \in Sessions, NEW keys, NEW writes, NEW to \in States, Consistent(to),
           \/ \E k \in Keys : keys = <<k>> /\ writes = <<k>>
           \/ /\ keys = <<"ssid", "password">> /\ to = Cleared
              /\ writes = <<"ssid", "password", "connected", "ip", "at">>,
           BeginCall(c, keys, writes, to)
    PROVE  WifiInv'
<1> DEFINE new == [keys |-> keys, writes |-> writes, to |-> to]
<1>1. /\ wifi_call' = [wifi_call EXCEPT ![c] = new] /\ calls' = calls + 1 /\ calls < MaxCalls
      /\ overlapped' = overlapped \cup {k \in Range(keys) : \E d \in Sessions : k \in KeysOf(d)}
      /\ UNCHANGED <<wifi_nvs, wifi, query, links, crossed, disturbed>>
      /\ wifi_call[c].keys = <<>> /\ wifi_call[c].writes = <<>>
  BY DEF BeginCall, Free, Storing, Writing
<1>2. /\ keys \in KeySteps /\ writes \in Steps /\ keys # <<>> /\ Range(keys) \subseteq Keys
      /\ Range(keys) = Keys \cap Range(writes) /\ Range(keys) \subseteq Keys
  <2>1. CASE keys = <<"ssid">> /\ writes = <<"ssid">>
    BY <2>1, RangeOfSteps DEF KeySteps, Steps, Keys
  <2>2. CASE keys = <<"password">> /\ writes = <<"password">>
    BY <2>2, RangeOfSteps DEF KeySteps, Steps, Keys
  <2>3. CASE /\ keys = <<"ssid", "password">>
             /\ writes = <<"ssid", "password", "connected", "ip", "at">>
    BY <2>3, RangeOfSteps DEF KeySteps, Steps, ClearSteps, Keys
  <2> QED BY <2>1, <2>2, <2>3 DEF Keys
<1>3. keys \in Seq(Keys) /\ writes \in Seq(DOMAIN Cleared)
  <2>1. <<"ssid">> \in Seq(Keys) /\ <<"password">> \in Seq(Keys)
    BY DEF Keys
  <2>2. <<"ssid", "password">> \in Seq(Keys)
    BY DEF Keys
  <2> QED BY <1>2, <2>1, <2>2, StepsAreFields DEF KeySteps
<1>4. c \in Tasks /\ EventTask \in Tasks /\ c # EventTask
  BY WifiAssumption DEF Tasks
<1>5. WifiTypeOK'
  <2>1. new \in [keys : Seq(Keys), writes : Seq(DOMAIN Cleared), to : States]
    BY <1>3
  <2>2. wifi_call' \in [Tasks -> [keys : Seq(Keys), writes : Seq(DOMAIN Cleared), to : States]]
    BY <1>1, <2>1 DEF WifiInv, WifiTypeOK
  <2>3. calls' \in 0..MaxCalls
    BY <1>1, WifiAssumption DEF WifiInv, WifiTypeOK
  <2>4. overlapped' \subseteq Keys
    BY <1>1, <1>2 DEF WifiInv, WifiTypeOK
  <2> QED BY <1>1, <2>2, <2>3, <2>4 DEF WifiInv, WifiTypeOK
<1>6. wifi_call'[c] = new /\ \A t \in Tasks \ {c} : wifi_call'[t] = wifi_call[t]
  BY <1>1, <1>4 DEF WifiInv, WifiTypeOK
<1>7. /\ KeysOf(c) = {} /\ KeysOf(c)' = Range(keys)
      /\ \A t \in Tasks \ {c} : KeysOf(t)' = KeysOf(t)
  BY <1>1, <1>2, <1>6, RangeOfNone DEF KeysOf
<1>8. /\ ~WritesStatus(c) /\ ~WritesStatus(c)'
      /\ \A t \in Tasks \ {c} : WritesStatus(t)' <=> WritesStatus(t)
  BY <1>1, <1>2, <1>6, RangeOfNone DEF WritesStatus, Storing
<1>9. ShapeInv'
  <2>1. (SetsText(c) \/ Clears(c))'
    BY <1>6 DEF SetsText, Clears, ClearSteps
  <2> QED BY <1>4, <1>6, <2>1 DEF WifiInv, ShapeInv, AtRest, SetsText, Clears, Tasks
<1>10. KeyInv'
  BY <1>1, <1>2, <1>4, <1>6, <1>7 DEF WifiInv, KeyInv, Tasks
<1>11. LinkInv'
  <2>1. writes \notin {<<"at">>, <<"connected", "at">>, <<"ip", "at">>}
    BY DEF Keys
  <2> QED BY <1>1, <1>4, <1>6, <1>8, <2>1 DEF WifiInv, LinkInv, WroteTheRest
<1>12. QueryInv'
  BY <1>1 DEF WifiInv, QueryInv, Says
<1> QED BY <1>5, <1>9, <1>10, <1>11, <1>12 DEF WifiInv

LEMMA SetTextInv ==
    ASSUME WifiInv, NEW c \in Sessions, NEW k \in Keys, NEW text \in Texts \cup {TooLong},
           SetText(c, k, text)
    PROVE  WifiInv'
<1> DEFINE to == [Cleared EXCEPT ![k] = text]
<1>1. text \in Stored
  BY DEF SetText, Fits, Stored
<1>2. to \in States /\ Consistent(to)
  <2>1. to \in States
    BY <1>1, ClearedState DEF States, Keys
  <2>2. to.connected = Cleared.connected /\ to.ip = Cleared.ip /\ to.at = Cleared.at
    BY ClearedState DEF States, Keys
  <2> QED BY <2>1, <2>2, ClearedState DEF Consistent
<1>3. BeginCall(c, <<k>>, <<k>>, to)
  BY DEF SetText
<1> HIDE DEF to
<1> QED BY <1>2, <1>3, BeginCallInv

LEMMA ClearCredentialsInv ==
    ASSUME WifiInv, NEW c \in Sessions, ClearCredentials(c) PROVE WifiInv'
BY BeginCallInv, ClearedState DEF ClearCredentials

\* A key of a call reaches NVS, or the call fails.
LEMMA StoreKeyInv == ASSUME WifiInv, NEW c \in Sessions, StoreKey(c) PROVE WifiInv'
<1> DEFINE k == Head(wifi_call[c].keys)
           v == wifi_call[c].to[k]
           written == [wifi_nvs EXCEPT ![k] = v]
<1>1. /\ c \in Tasks /\ EventTask \in Tasks /\ c # EventTask /\ Storing(c)
      /\ UNCHANGED <<wifi, query, links, calls, crossed, disturbed>>
  BY WifiAssumption DEF Tasks, StoreKey
<1>2. /\ wifi_call[c].keys \in KeySteps /\ Range(wifi_call[c].keys) \subseteq Keys
      /\ Range(wifi_call[c].keys) \subseteq Range(wifi_call[c].writes)
      /\ Writing(c)
  <2>1. CASE wifi_call[c].writes = <<"ssid">> /\ wifi_call[c].keys = <<"ssid">>
    BY <2>1, RangeOfSteps DEF KeySteps, Keys, Writing
  <2>2. CASE wifi_call[c].writes = <<"password">> /\ wifi_call[c].keys = <<"password">>
    BY <2>2, RangeOfSteps DEF KeySteps, Keys, Writing
  <2>3. CASE /\ wifi_call[c].writes = <<"ssid", "password", "connected", "ip", "at">>
             /\ wifi_call[c].keys = <<"ssid", "password">>
    BY <2>3, RangeOfSteps DEF KeySteps, Keys, Writing
  <2>4. CASE /\ wifi_call[c].writes = <<"ssid", "password", "connected", "ip", "at">>
             /\ wifi_call[c].keys = <<"password">>
    BY <2>4, RangeOfSteps DEF KeySteps, Keys, Writing
  <2> QED BY <1>1, <2>1, <2>2, <2>3, <2>4
          DEF WifiInv, ShapeInv, AtRest, SetsText, Clears, Storing, Keys
<1>3. /\ k \in Keys /\ k \in Range(wifi_call[c].keys)
      /\ Range(Tail(wifi_call[c].keys)) = Range(wifi_call[c].keys) \ {k}
  BY <1>2, StepFacts DEF Steps
<1>4. Tail(wifi_call[c].keys) \in Seq(Keys)
  BY <1>1, <1>2, CallType DEF WifiInv, Storing
<1>5. v \in Stored /\ written \in [Keys -> Stored]
      /\ written[k] = v /\ \A j \in Keys \ {k} : written[j] = wifi_nvs[j]
  <2>1. v \in Stored
    BY <1>1, <1>3, CallType, StoredField DEF WifiInv
  <2> QED BY <1>3, <2>1 DEF WifiInv, WifiTypeOK
<1>6. KeysOf(c) = Keys \cap Range(wifi_call[c].writes)
  BY <1>2 DEF KeysOf
<1>7. CASE /\ wifi_nvs' = written
           /\ wifi_call' = [wifi_call EXCEPT ![c].keys = Tail(@)]
           /\ UNCHANGED overlapped
  <2> DEFINE new == [wifi_call[c] EXCEPT !.keys = Tail(wifi_call[c].keys)]
  <2>1. /\ new \in [keys : Seq(Keys), writes : Seq(DOMAIN Cleared), to : States]
        /\ new.keys = Tail(wifi_call[c].keys) /\ new.writes = wifi_call[c].writes
        /\ new.to = wifi_call[c].to
    BY <1>1, <1>4 DEF WifiInv, WifiTypeOK
  <2>2. wifi_call' = [wifi_call EXCEPT ![c] = new]
    BY <1>7
  <2> HIDE DEF new
  <2>3. /\ wifi_call' \in [Tasks -> [keys : Seq(Keys), writes : Seq(DOMAIN Cleared), to : States]]
        /\ wifi_call'[c] = new /\ \A t \in Tasks \ {c} : wifi_call'[t] = wifi_call[t]
    BY <1>1, <2>1, <2>2 DEF WifiInv, WifiTypeOK
  <2>4. WifiTypeOK'
    BY <1>1, <1>5, <1>7, <2>3 DEF WifiInv, WifiTypeOK
  <2>5. ShapeInv'
    <3>1. (SetsText(c) \/ Clears(c))'
      <4>1. CASE SetsText(c)
        <5>1. PICK j \in Keys : wifi_call[c].keys \in {<<j>>, <<>>} /\ wifi_call[c].writes = <<j>>
          BY <4>1 DEF SetsText
        <5>2. Tail(wifi_call[c].keys) = <<>>
          BY <1>1, <5>1, TailOfSteps DEF Storing, Keys
        <5> QED BY <2>1, <2>3, <5>1, <5>2 DEF SetsText
      <4>2. CASE Clears(c)
        <5>1. Tail(wifi_call[c].keys) \in {<<"password">>, <<>>}
          BY <1>1, <4>2, TailOfSteps DEF Clears, Storing
        <5> QED BY <1>1, <2>1, <2>3, <4>2, <5>1 DEF Clears, Storing
      <4> QED BY <1>1, <4>1, <4>2 DEF WifiInv, ShapeInv, AtRest, Storing
    <3> QED BY <1>1, <2>1, <2>3, <3>1 DEF WifiInv, ShapeInv, AtRest, SetsText, Clears, Tasks
  <2>6. /\ KeysOf(c)' = KeysOf(c) /\ \A t \in Tasks \ {c} : KeysOf(t)' = KeysOf(t)
    BY <1>2, <1>3, <1>6, <2>1, <2>3 DEF KeysOf
  <2>7. KeyInv'
    <3> SUFFICES ASSUME NEW j \in Keys \ overlapped, NEW d \in Sessions, j \in KeysOf(d)
                 PROVE  wifi_nvs'[j] = IF j \in Range(wifi_call'[d].keys) THEN wifi[j]
                                       ELSE wifi_call'[d].to[j]
      <4>1. k \in KeysOf(c)
        BY <1>2, <1>3, <1>6
      <4>2. \A j \in Keys \ overlapped :
                (\A d \in Sessions : j \notin KeysOf(d)) => wifi_nvs'[j] = wifi[j]
        BY <1>5, <1>7, <4>1 DEF WifiInv, KeyInv
      <4> QED BY <1>1, <1>7, <2>6, <4>2 DEF WifiInv, KeyInv, Tasks
    <3>1. \A e \in Sessions : j \in KeysOf(e) => e = d
      BY DEF WifiInv, KeyInv
    <3>2. wifi_nvs[j] = IF j \in Range(wifi_call[d].keys) THEN wifi[j] ELSE wifi_call[d].to[j]
      BY DEF WifiInv, KeyInv
    <3>3. CASE d = c
      BY <1>3, <1>5, <1>7, <2>1, <2>3, <3>2, <3>3
    <3>4. CASE d # c
      <4>1. j # k
        BY <1>2, <1>3, <1>6, <3>1, <3>4
      <4> QED BY <1>5, <1>7, <2>3, <3>2, <3>4, <4>1 DEF Tasks
    <3> QED BY <3>3, <3>4
  <2>8. LinkInv'
    <3>1. \A t \in Tasks : WritesStatus(t) => WritesStatus(t)'
      BY <1>1, <2>1, <2>3 DEF WritesStatus, Storing
    <3>2. \A t \in Tasks : wifi_call'[t].writes = wifi_call[t].writes
                           /\ wifi_call'[t].to = wifi_call[t].to
      BY <1>1, <2>1, <2>3
    <3> QED BY <1>1, <3>1, <3>2 DEF WifiInv, LinkInv, WroteTheRest
  <2>9. QueryInv'
    BY <1>1 DEF WifiInv, QueryInv, Says
  <2> QED BY <2>4, <2>5, <2>7, <2>8, <2>9 DEF WifiInv
<1>8. CASE /\ wifi_nvs' \in {wifi_nvs, written}
           /\ wifi_call' = [wifi_call EXCEPT ![c] = Nothing]
           /\ overlapped' = overlapped \cup KeysOf(c)
  <2>0. Nothing.keys = <<>> /\ Nothing.writes = <<>>
    BY DEF Nothing
  <2>1. /\ wifi_call' \in [Tasks -> [keys : Seq(Keys), writes : Seq(DOMAIN Cleared), to : States]]
        /\ wifi_call'[c] = Nothing /\ \A t \in Tasks \ {c} : wifi_call'[t] = wifi_call[t]
    BY <1>1, <1>8, ClearedState DEF WifiInv, WifiTypeOK
  <2>2. WifiTypeOK'
    BY <1>1, <1>5, <1>6, <1>8, <2>1 DEF WifiInv, WifiTypeOK
  <2>3. ShapeInv'
    BY <1>1, <2>0, <2>1, ClearedState DEF WifiInv, ShapeInv, AtRest, SetsText, Clears, Tasks
  <2>4. /\ KeysOf(c)' = {} /\ k \in KeysOf(c) /\ \A t \in Tasks \ {c} : KeysOf(t)' = KeysOf(t)
    BY <1>2, <1>3, <1>6, <2>1, RangeOfNone DEF KeysOf, Nothing
  <2>5. KeyInv'
    BY <1>1, <1>5, <1>8, <2>1, <2>4 DEF WifiInv, KeyInv, Tasks
  <2>6. LinkInv'
    <3>1. ~WritesStatus(c) /\ \A t \in Tasks \ {c} : WritesStatus(t) => WritesStatus(t)'
      BY <1>1, <2>1 DEF WritesStatus, Storing
    <3>2. /\ wifi_call'[c].writes = <<>>
          /\ \A t \in Tasks \ {c} : wifi_call'[t] = wifi_call[t]
      BY <2>0, <2>1
    <3>3. ASSUME ~crossed, \A t \in Tasks : ~WritesStatus(t)'
          PROVE  Consistent(wifi)
      BY <3>1, <3>3 DEF WifiInv, LinkInv, WroteTheRest
    <3>4. ASSUME ~crossed, NEW t \in Tasks
          PROVE  WroteTheRest(wifi_call[t].writes, wifi_call[t].to)'
      <4>1. WroteTheRest(wifi_call[t].writes, wifi_call[t].to)
        BY <3>4 DEF WifiInv, LinkInv, WroteTheRest
      <4>2. CASE t = c
        BY <3>2, <4>2 DEF WroteTheRest
      <4>3. CASE t # c
        BY <1>1, <3>2, <3>4, <4>1, <4>3 DEF WroteTheRest
      <4> QED BY <4>2, <4>3
    <3> QED BY <1>1, <3>3, <3>4 DEF LinkInv, Consistent
  <2>7. QueryInv'
    BY <1>1 DEF WifiInv, QueryInv, Says
  <2> QED BY <2>2, <2>3, <2>5, <2>6, <2>7 DEF WifiInv
<1> QED BY <1>7, <1>8 DEF StoreKey

\* The event task has a link to tell of, or the loss of one.
LEMMA LinkStepInv ==
    ASSUME WifiInv, NEW to \in States, Consistent(to), Link(to), links' \in 0..MaxLinks
    PROVE  WifiInv'
<1> DEFINE new == [keys |-> <<>>, writes |-> <<"ip", "connected", "at">>, to |-> to]
<1>1. /\ EventTask \in Tasks /\ ~Writing(EventTask) /\ EventTask \notin Sessions
      /\ Tasks = Sessions \cup {EventTask}
      /\ wifi_call' = [wifi_call EXCEPT ![EventTask] = new]
      /\ UNCHANGED <<wifi_nvs, wifi, query, calls, overlapped, crossed, disturbed>>
  BY WifiAssumption DEF Tasks, Link
<1>2. new \in [keys : Seq(Keys), writes : Seq(DOMAIN Cleared), to : States]
  <2>1. <<"ip", "connected", "at">> \in Seq(DOMAIN Cleared)
    BY StepsAreFields DEF Steps, EventSteps
  <2>2. <<>> \in Seq(Keys)
    OBVIOUS
  <2> QED BY <2>1, <2>2
<1>3. /\ wifi_call' \in [Tasks -> [keys : Seq(Keys), writes : Seq(DOMAIN Cleared), to : States]]
      /\ wifi_call'[EventTask] = new /\ \A t \in Sessions : wifi_call'[t] = wifi_call[t]
  BY <1>1, <1>2 DEF WifiInv, WifiTypeOK
<1>4. WifiTypeOK'
  BY <1>1, <1>3 DEF WifiInv, WifiTypeOK
<1>5. ShapeInv'
  BY <1>1, <1>3 DEF WifiInv, ShapeInv, AtRest, SetsText, Clears, EventSteps
<1>6. KeyInv'
  BY <1>1, <1>3 DEF WifiInv, KeyInv, KeysOf
<1>7. LinkInv'
  <2>1. WritesStatus(EventTask)' /\ \A t \in Sessions : WritesStatus(t) <=> WritesStatus(t)'
    <3>1. "at" \in Range(new.writes)
      BY RangeOfSteps
    <3>2. WritesStatus(EventTask)'
      <4>1. wifi_call'[EventTask].keys = <<>> /\ wifi_call'[EventTask].writes = new.writes
        BY <1>3
      <4>2. "at" \in Range(wifi_call'[EventTask].writes)
        BY <3>1, <4>1, Zenon
      <4> QED BY <4>1, <4>2 DEF WritesStatus, Storing, Keys
    <3> QED BY <1>3, <3>2 DEF WritesStatus, Storing
  <2> QED BY <1>1, <1>3, <2>1 DEF WifiInv, LinkInv, WroteTheRest
<1>8. QueryInv'
  BY <1>1 DEF WifiInv, QueryInv, Says
<1> QED BY <1>4, <1>5, <1>6, <1>7, <1>8 DEF WifiInv

LEMMA LinkUpInv == ASSUME WifiInv, LinkUp PROVE WifiInv'
<1> DEFINE to == [ssid |-> NoText, password |-> NoText,
                  connected |-> TRUE, ip |-> Address, at |-> links + 1]
<1>1. links \in 0..MaxLinks /\ links < MaxLinks /\ links' = links + 1 /\ Link(to)
  BY DEF LinkUp, WifiInv, WifiTypeOK
<1>2. links' \in 0..MaxLinks
  BY <1>1, WifiAssumption
<1>3. to \in States
  BY <1>1, WifiAssumption DEF States, Stored
<1>4. Consistent(to)
  BY <1>1, WifiAssumption DEF Consistent
<1> HIDE DEF to
<1> QED BY <1>1, <1>2, <1>3, <1>4, LinkStepInv

LEMMA LinkDownInv == ASSUME WifiInv, LinkDown PROVE WifiInv'
BY ClearedState, LinkStepInv DEF LinkDown, WifiInv, WifiTypeOK

-----------------------------------------------------------------------------
(* The status is asked for *)

Queries == [left : SUBSET {"connected", "ip"},
            time : {"no", "check", "take", "zero", "since", "uptime"},
            connected : BOOLEAN, ip : {NoText, Address}]

\* A query moves nothing else.
LEMMA QueryStep ==
    ASSUME WifiInv, UNCHANGED <<wifi_nvs, wifi, wifi_call, links, overlapped, crossed>>,
           query' \in [Sessions -> Queries], calls' \in 0..MaxCalls, disturbed' \subseteq Sessions,
           QueryInv'
    PROVE  WifiInv'
<1>1. WifiTypeOK'
  BY DEF WifiInv, WifiTypeOK, Queries
<1>2. ShapeInv'
  BY DEF WifiInv, ShapeInv, AtRest, SetsText, Clears
<1>3. KeyInv'
  BY DEF WifiInv, KeyInv, KeysOf
<1>4. LinkInv'
  BY DEF WifiInv, LinkInv, WroteTheRest, WritesStatus, Storing
<1> QED BY <1>1, <1>2, <1>3, <1>4 DEF WifiInv

\* One session's query moves.
LEMMA OneQueryStep ==
    ASSUME WifiInv, NEW c \in Sessions, NEW q \in Queries, query' = [query EXCEPT ![c] = q],
           c \notin disturbed' => Says(q), disturbed \ {c} \subseteq disturbed', disturbed' \subseteq Sessions,
           calls' \in 0..MaxCalls,
           UNCHANGED <<wifi_nvs, wifi, wifi_call, links, overlapped, crossed>>
    PROVE  WifiInv'
<1>1. /\ query' \in [Sessions -> Queries] /\ query'[c] = q
      /\ \A d \in Sessions \ {c} : query'[d] = query[d]
  BY DEF WifiInv, WifiTypeOK, Queries
<1>2. \A d \in Sessions \ disturbed : Says(query[d])
  BY DEF WifiInv, QueryInv
<1>3. \A d \in Sessions \ disturbed' : Says(query'[d])
  BY <1>1, <1>2
<1>4. QueryInv'
  <2> SUFFICES ASSUME NEW d \in Sessions \ disturbed' PROVE Says(query[d])'
    BY DEF QueryInv
  <2> QED BY <1>3 DEF Says
<1> QED BY <1>1, <1>4, QueryStep

LEMMA QueryType ==
    ASSUME WifiInv, NEW c \in Sessions
    PROVE  query[c] \in Queries /\ (c \notin disturbed => Says(query[c]))
<1>1. query[c] \in Queries
  BY DEF WifiInv, WifiTypeOK, Queries
<1>2. c \notin disturbed => Says(query[c])
  BY DEF WifiInv, QueryInv
<1> QED BY <1>1, <1>2

LEMMA CallsStay ==
    ASSUME WifiInv
    PROVE  calls \in 0..MaxCalls /\ disturbed \subseteq Sessions
BY DEF WifiInv, WifiTypeOK

LEMMA AskInv == ASSUME WifiInv, NEW c \in Sessions, Ask(c) PROVE WifiInv'
<1> DEFINE q == [left |-> {"connected", "ip"}, time |-> "check", connected |-> FALSE, ip |-> NoText]
<1>1. q \in Queries /\ Says(q)
  BY DEF Queries, Says
<1>2. query' = [query EXCEPT ![c] = q]
  BY DEF Ask
<1>3. calls' \in 0..MaxCalls
  BY CallsStay, WifiAssumption DEF Ask
<1> HIDE DEF q
<1> QED BY <1>1, <1>2, <1>3, OneQueryStep, CallsStay DEF Ask

LEMMA CopyFieldInv ==
    ASSUME WifiInv, NEW c \in Sessions, NEW f \in {"connected", "ip"}, CopyField(c, f)
    PROVE  WifiInv'
<1> DEFINE q == query[c]
           r == [[q EXCEPT ![f] = wifi[f]] EXCEPT !.left = q.left \ {f}]
<1>1. q \in Queries /\ (c \notin disturbed => Says(q)) /\ wifi \in States
  BY QueryType DEF WifiInv, WifiTypeOK
<1>2. query' = [query EXCEPT ![c] = r]
  BY <1>1 DEF CopyField, WifiInv, WifiTypeOK
<1>3. r \in Queries
  BY <1>1 DEF Queries, States
<1>4. c \notin disturbed => Says(r)
  <2>1. CASE f = "connected"
    BY <1>1, <2>1 DEF Queries, States, Says, CopyField
  <2>2. CASE f = "ip"
    BY <1>1, <2>2 DEF Queries, States, Says, CopyField
  <2> QED BY <2>1, <2>2
<1> HIDE DEF r
<1> QED BY <1>2, <1>3, <1>4, OneQueryStep, CallsStay DEF CopyField

LEMMA CheckTimeInv == ASSUME WifiInv, NEW c \in Sessions, CheckTime(c) PROVE WifiInv'
<1> DEFINE r == [query[c] EXCEPT !.time = IF wifi.connected /\ wifi.at > 0 THEN "take" ELSE "zero"]
<1>1. query[c] \in Queries /\ (c \notin disturbed => Says(query[c]))
  BY QueryType
<1>2. query' = [query EXCEPT ![c] = r]
  BY DEF CheckTime
<1>3. r \in Queries /\ (c \notin disturbed => Says(r))
  BY <1>1 DEF Queries, Says, CheckTime
<1> HIDE DEF r
<1> QED BY <1>2, <1>3, OneQueryStep, CallsStay DEF CheckTime

LEMMA TakeTimeInv == ASSUME WifiInv, NEW c \in Sessions, TakeTime(c) PROVE WifiInv'
<1> DEFINE r == [query[c] EXCEPT !.time = IF wifi.at = 0 THEN "uptime" ELSE "since"]
<1>1. query[c] \in Queries /\ (c \notin disturbed => Says(query[c]))
  BY QueryType
<1>2. query' = [query EXCEPT ![c] = r]
  BY DEF TakeTime
<1>3. r \in Queries /\ (c \notin disturbed => Says(r))
  BY <1>1 DEF Queries, Says, TakeTime
<1> HIDE DEF r
<1> QED BY <1>2, <1>3, OneQueryStep, CallsStay DEF TakeTime

LEMMA EndQueryInv == ASSUME WifiInv, NEW c \in Sessions, EndQuery(c) PROVE WifiInv'
<1>1. Asked \in Queries /\ Says(Asked)
  BY DEF Asked, Queries, Says
<1> QED BY <1>1, OneQueryStep, CallsStay DEF EndQuery

-----------------------------------------------------------------------------
(* One assignment in RAM *)

LEMMA AssignInv == ASSUME WifiInv, NEW t \in Tasks, Assign(t) PROVE WifiInv'
<1> DEFINE w == wifi_call[t].writes
           to == wifi_call[t].to
           f == Head(w)
           new == [wifi_call[t] EXCEPT !.writes = Tail(w)]
<1>1. /\ Writing(t) /\ ~Storing(t) /\ wifi_call[t].keys = <<>>
      /\ wifi' = [wifi EXCEPT ![f] = to[f]]
      /\ crossed' = (crossed \/ (f \notin Keys /\ \E u \in Tasks \ {t} : WritesStatus(u)))
      /\ disturbed' = disturbed \cup
             IF f \notin Keys THEN {c \in Sessions : query[c].left # {} \/ query[c].time # "no"} ELSE {}
      /\ wifi_call' = [wifi_call EXCEPT ![t] = new]
      /\ UNCHANGED <<wifi_nvs, query, links, calls, overlapped>>
  BY DEF Assign, Storing
<1>2. /\ w \in Steps /\ f \in DOMAIN Cleared /\ Tail(w) \in Steps \cup {<<>>}
      /\ Tail(w) \in Seq(DOMAIN Cleared) /\ f \in Range(w) /\ Range(Tail(w)) = Range(w) \ {f}
  BY <1>1, WritesShape, StepFacts DEF WifiInv
<1>3. /\ EventTask \in Tasks /\ Sessions \subseteq Tasks /\ EventTask \notin Sessions
      /\ to \in States /\ wifi \in States
  BY WifiAssumption, CallType DEF Tasks, WifiInv, WifiTypeOK
<1>4. /\ wifi' \in States /\ wifi'[f] = to[f]
      /\ \A g \in DOMAIN Cleared \ {f} : wifi'[g] = wifi[g]
  <2> HIDE DEF w, to, f
  <2> QED BY <1>1, <1>2, <1>3, FieldNames DEF States
<1>5. /\ new \in [keys : Seq(Keys), writes : Seq(DOMAIN Cleared), to : States]
      /\ new.keys = <<>> /\ new.writes = Tail(w) /\ new.to = to
  BY <1>1, <1>2 DEF WifiInv, WifiTypeOK
<1> HIDE DEF new
<1>6. /\ wifi_call' \in [Tasks -> [keys : Seq(Keys), writes : Seq(DOMAIN Cleared), to : States]]
      /\ wifi_call'[t] = new /\ \A u \in Tasks \ {t} : wifi_call'[u] = wifi_call[u]
  BY <1>1, <1>5 DEF WifiInv, WifiTypeOK
<1>7. WifiTypeOK'
  <2>1. crossed' \in BOOLEAN
    BY <1>1
  <2> QED BY <1>1, <1>4, <1>6, <2>1 DEF WifiInv, WifiTypeOK
<1>8. ShapeInv'
  <2>1. CASE t = EventTask
    <3>1. Tail(w) \in EventSteps \cup {<<>>}
      BY <1>1, <2>1, TailOfSteps DEF WifiInv, ShapeInv, EventSteps, Writing
    <3> QED BY <1>3, <1>5, <1>6, <2>1, <3>1 DEF WifiInv, ShapeInv, AtRest, SetsText, Clears
  <2>2. CASE t \in Sessions /\ SetsText(t)
    <3>1. Tail(w) = <<>>
      BY <2>2, TailOfSteps DEF SetsText, Keys
    <3>2. AtRest(t)'
      BY <1>5, <1>6, <3>1 DEF AtRest
    <3> QED BY <1>3, <1>5, <1>6, <2>2, <3>2 DEF WifiInv, ShapeInv, AtRest, SetsText, Clears, Tasks
  <2>3. CASE t \in Sessions /\ Clears(t)
    <3>1. Tail(w) \in ClearSteps \cup {<<>>}
      BY <2>3, TailOfSteps DEF Clears, ClearSteps
    <3>2. (AtRest(t) \/ Clears(t))'
      BY <1>5, <1>6, <2>3, <3>1 DEF AtRest, Clears
    <3> QED BY <1>3, <1>5, <1>6, <2>3, <3>2 DEF WifiInv, ShapeInv, AtRest, SetsText, Clears, Tasks
  <2> QED BY <1>1, <2>1, <2>2, <2>3 DEF WifiInv, ShapeInv, AtRest, Writing, Tasks
<1>9. KeyInv'
  <2>1. \A u \in Tasks \ {t} : KeysOf(u)' = KeysOf(u)
    BY <1>6 DEF KeysOf
  <2>2. KeysOf(t) = Keys \cap Range(w) /\ KeysOf(t)' = KeysOf(t) \ {f}
    BY <1>1, <1>2, <1>5, <1>6, RangeOfNone DEF KeysOf
  <2>3. t = EventTask => KeysOf(t) = {}
    BY <1>1, <2>2, RangeOfSteps DEF WifiInv, ShapeInv, EventSteps, Keys, Writing
  <2>4. CASE f \in Keys
    <3>1. t \in Sessions /\ f \in KeysOf(t)
      BY <1>2, <2>2, <2>3, <2>4 DEF Tasks
    <3> SUFFICES ASSUME NEW k \in Keys \ overlapped
                 PROVE  /\ \A c, d \in Sessions : k \in KeysOf(c)' /\ k \in KeysOf(d)' => c = d
                        /\ \A c \in Sessions :
                               k \in KeysOf(c)' =>
                                   wifi_nvs[k] = IF k \in Range(wifi_call'[c].keys) THEN wifi'[k]
                                                 ELSE wifi_call'[c].to[k]
                        /\ (\A c \in Sessions : k \notin KeysOf(c)') => wifi_nvs[k] = wifi'[k]
      BY <1>1 DEF KeyInv
    <3>2. /\ \A c, d \in Sessions : k \in KeysOf(c) /\ k \in KeysOf(d) => c = d
          /\ \A c \in Sessions :
                 k \in KeysOf(c) =>
                     wifi_nvs[k] = IF k \in Range(wifi_call[c].keys) THEN wifi[k] ELSE wifi_call[c].to[k]
          /\ (\A c \in Sessions : k \notin KeysOf(c)) => wifi_nvs[k] = wifi[k]
      BY DEF WifiInv, KeyInv
    <3>3. CASE k = f
      <4>1. wifi_nvs[k] = wifi'[k]
        BY <1>1, <1>4, <3>1, <3>2, <3>3, RangeOfNone
      <4>2. \A c \in Sessions : k \notin KeysOf(c)'
        BY <1>3, <2>1, <2>2, <3>1, <3>2, <3>3
      <4> QED BY <4>1, <4>2
    <3>4. CASE k # f
      <4>1. wifi'[k] = wifi[k] /\ \A c \in Sessions : k \in KeysOf(c)' <=> k \in KeysOf(c)
        BY <1>3, <1>4, <2>1, <2>2, <3>4, FieldNames DEF Keys
      <4>2. \A c \in Sessions : wifi_call'[c].keys = wifi_call[c].keys /\ wifi_call'[c].to = wifi_call[c].to
        BY <1>1, <1>3, <1>5, <1>6
      <4> QED BY <3>2, <4>1, <4>2
    <3> QED BY <3>3, <3>4
  <2>5. CASE f \notin Keys
    <3>1. \A k \in Keys : wifi'[k] = wifi[k]
      BY <1>4, <2>5, FieldNames DEF Keys
    <3>2. \A c \in Sessions : KeysOf(c)' = KeysOf(c)
      BY <1>3, <2>1, <2>2, <2>5
    <3>3. \A c \in Sessions : wifi_call'[c].keys = wifi_call[c].keys /\ wifi_call'[c].to = wifi_call[c].to
      BY <1>1, <1>3, <1>5, <1>6
    <3> QED BY <1>1, <3>1, <3>2, <3>3 DEF WifiInv, KeyInv
  <2> QED BY <2>4, <2>5
<1>10. QueryInv'
  <2> SUFFICES ASSUME NEW c \in Sessions \ disturbed' PROVE Says(query[c])'
    BY DEF QueryInv
  <2>1. c \notin disturbed /\ Says(query[c])
    BY <1>1 DEF WifiInv, QueryInv
  <2>2. CASE f \in Keys
    <3>1. wifi'.connected = wifi.connected /\ wifi'.ip = wifi.ip /\ wifi'.at = wifi.at
      BY <1>4, <2>2, FieldNames DEF Keys
    <3> QED BY <1>1, <2>1, <3>1 DEF Says
  <2>3. CASE f \notin Keys
    <3>1. query'[c].time = "no"
      BY <1>1, <2>3
    <3> QED BY <3>1 DEF Says
  <2> QED BY <2>2, <2>3

<1>11. LinkInv'
  <2>1. CASE f \in Keys
    <3>1. wifi'.connected = wifi.connected /\ wifi'.ip = wifi.ip /\ wifi'.at = wifi.at
      BY <1>4, <2>1, FieldNames DEF Keys
    <3>2. crossed' <=> crossed
      BY <1>1, <2>1, Zenon
    <3>3. \A u \in Tasks : WritesStatus(u)' <=> WritesStatus(u)
      <4>1. \A u \in Tasks \ {t} : WritesStatus(u)' <=> WritesStatus(u)
        BY <1>6 DEF WritesStatus, Storing
      <4>2. Range(Tail(w)) \ Keys = Range(w) \ Keys
        BY <1>2, <2>1
      <4>3. wifi_call'[t].keys = <<>> /\ wifi_call'[t].writes = Tail(w)
        BY <1>5, <1>6
      <4>4. WritesStatus(t)' <=> WritesStatus(t)
        BY <1>1, <4>2, <4>3 DEF WritesStatus, Storing
      <4> QED BY <4>1, <4>4
    <3>4. Tail(w) \notin {<<"at">>, <<"ip", "at">>, <<"connected", "at">>}
      <4>1. w \in KeySteps \cup {<<"ssid", "password", "connected", "ip", "at">>,
                                 <<"password", "connected", "ip", "at">>}
        BY <1>2, <2>1, TailOfSteps DEF Steps, ClearSteps, EventSteps, Keys
      <4>2. Tail(w) \in {<<>>, <<"password">>, <<"password", "connected", "ip", "at">>,
                         <<"connected", "ip", "at">>}
        BY <4>1, TailOfSteps, Zenon DEF KeySteps
      <4>3. <<>> \notin {<<"at">>, <<"ip", "at">>, <<"connected", "at">>}
        OBVIOUS
      <4>4. <<"password">> \notin {<<"at">>, <<"ip", "at">>, <<"connected", "at">>}
        OBVIOUS
      <4>5. /\ <<"password", "connected", "ip", "at">> \notin {<<"at">>, <<"ip", "at">>, <<"connected", "at">>}
            /\ <<"connected", "ip", "at">> \notin {<<"at">>, <<"ip", "at">>, <<"connected", "at">>}
        OBVIOUS
      <4> QED BY <4>2, <4>3, <4>4, <4>5, Zenon
    <3> SUFFICES ASSUME ~crossed
                 PROVE  /\ (\A u \in Tasks : ~WritesStatus(u)) => Consistent(wifi')
                        /\ \A u \in Tasks : WroteTheRest(wifi_call[u].writes, wifi_call[u].to)'
      BY <3>2, <3>3 DEF LinkInv, Consistent
    <3>5. (\A u \in Tasks : ~WritesStatus(u)) => Consistent(wifi)
      BY DEF WifiInv, LinkInv
    <3>6. \A u \in Tasks : WroteTheRest(wifi_call[u].writes, wifi_call[u].to)
      BY DEF WifiInv, LinkInv
    <3>7. WroteTheRest(wifi_call[t].writes, wifi_call[t].to)'
      BY <1>5, <1>6, <3>4 DEF WroteTheRest
    <3>8. \A u \in Tasks \ {t} : WroteTheRest(wifi_call[u].writes, wifi_call[u].to)'
      BY <1>6, <3>1, <3>6 DEF WroteTheRest
    <3> QED BY <3>1, <3>5, <3>7, <3>8 DEF Consistent
  <2>2. CASE f \notin Keys
    <3> SUFFICES ASSUME ~crossed'
                 PROVE  /\ (\A u \in Tasks : ~WritesStatus(u)') => Consistent(wifi')
                        /\ \A u \in Tasks : WroteTheRest(wifi_call[u].writes, wifi_call[u].to)'
      BY DEF LinkInv, Consistent
    <3>1. ~crossed /\ \A u \in Tasks \ {t} : ~WritesStatus(u)
      BY <1>1, <2>2
    <3>2. WroteTheRest(w, to)
      BY <3>1 DEF WifiInv, LinkInv
    <3>3. \A u \in Tasks \ {t} : WroteTheRest(wifi_call[u].writes, wifi_call[u].to)'
      <4> SUFFICES ASSUME NEW u \in Tasks \ {t}
                   PROVE  wifi_call'[u].writes \notin {<<"at">>, <<"connected", "at">>, <<"ip", "at">>}
        BY DEF WroteTheRest
      <4> QED BY <1>6, <3>1, EndWritesStatus DEF WifiInv
    <3>4. wifi_call'[t].keys = <<>> /\ wifi_call'[t].writes = Tail(w) /\ wifi_call'[t].to = to
      BY <1>5, <1>6
    <3>5. w \in {<<"connected", "ip", "at">>, <<"ip", "connected", "at">>, <<"ip", "at">>,
                 <<"connected", "at">>, <<"at">>}
      BY <1>2, <2>2, TailOfSteps DEF Steps, KeySteps, ClearSteps, EventSteps, Keys
    <3>6. \/ w = <<"connected", "ip", "at">> /\ f = "connected" /\ Tail(w) = <<"ip", "at">>
          \/ w = <<"ip", "connected", "at">> /\ f = "ip" /\ Tail(w) = <<"connected", "at">>
          \/ w = <<"ip", "at">> /\ f = "ip" /\ Tail(w) = <<"at">>
          \/ w = <<"connected", "at">> /\ f = "connected" /\ Tail(w) = <<"at">>
          \/ w = <<"at">> /\ f = "at" /\ Tail(w) = <<>>
      BY <3>5, TailOfSteps, Zenon
    <3>7. /\ f = "connected" => (wifi'.connected <=> to.connected) /\ wifi'.ip = wifi.ip
          /\ f = "ip" => (wifi'.connected <=> wifi.connected) /\ wifi'.ip = to.ip
          /\ f = "at" => (wifi'.connected <=> wifi.connected) /\ wifi'.ip = wifi.ip /\ wifi'.at = to.at
      BY <1>4, FieldNames
    <3>8. WroteTheRest(wifi_call[t].writes, wifi_call[t].to)'
      <4>1. CASE f = "connected" /\ w = <<"connected", "ip", "at">> /\ Tail(w) = <<"ip", "at">>
        BY <3>4, <3>7, <4>1 DEF WroteTheRest
      <4>2. CASE f = "ip" /\ w = <<"ip", "connected", "at">> /\ Tail(w) = <<"connected", "at">>
        BY <3>4, <3>7, <4>2 DEF WroteTheRest
      <4>3. CASE f = "ip" /\ w = <<"ip", "at">> /\ Tail(w) = <<"at">>
        <5>1. wifi.connected <=> to.connected
          BY <3>2, <4>3 DEF WroteTheRest
        <5> QED BY <3>4, <3>7, <4>3, <5>1 DEF WroteTheRest
      <4>4. CASE f = "connected" /\ w = <<"connected", "at">> /\ Tail(w) = <<"at">>
        <5>1. wifi.ip = to.ip
          BY <3>2, <4>4 DEF WroteTheRest
        <5> QED BY <3>4, <3>7, <4>4, <5>1 DEF WroteTheRest
      <4>5. CASE Tail(w) = <<>>
        BY <3>4, <4>5 DEF WroteTheRest
      <4> QED BY <3>6, <4>1, <4>2, <4>3, <4>4, <4>5
    <3>9. (\A u \in Tasks : ~WritesStatus(u)') => Consistent(wifi')
      <4>1. CASE w = <<"at">>
        <5>1. (wifi'.connected <=> to.connected) /\ wifi'.ip = to.ip /\ wifi'.at = to.at
          BY <3>2, <3>6, <3>7, <4>1 DEF WroteTheRest
        <5>2. Consistent(to)
          BY DEF WifiInv, ShapeInv
        <5> QED BY <5>1, <5>2 DEF Consistent
      <4>2. CASE w # <<"at">>
        <5>1. Tail(w) \in {<<"ip", "at">>, <<"connected", "at">>, <<"at">>}
          BY <3>6, <4>2
        <5>2. "at" \in Range(Tail(w))
          BY <5>1, RangeOfSteps
        <5>3. WritesStatus(t)'
          BY <3>4, <5>2 DEF WritesStatus, Storing, Keys
        <5> QED BY <5>3
      <4> QED BY <4>1, <4>2
    <3> QED BY <3>3, <3>8, <3>9
  <2> QED BY <2>1, <2>2
<1> QED BY <1>7, <1>8, <1>9, <1>10, <1>11 DEF WifiInv

-----------------------------------------------------------------------------
LEMMA WifiInitInv == WifiInit => WifiInv
BY BootIsSound DEF WifiInit

LEMMA WifiRestartInv == ASSUME WifiInv, WifiRestart PROVE WifiInv'
<1>1. WifiInit'
  BY DEF WifiInv, WifiTypeOK, WifiRestart, WifiInit, LoadedState
<1> QED BY <1>1, WifiInitInv, PTL

LEMMA WifiNextInv == WifiInv /\ [WifiNext]_wifiVars => WifiInv'
<1> SUFFICES ASSUME WifiInv, [WifiNext]_wifiVars PROVE WifiInv'
  OBVIOUS
<1>1. CASE WifiRestart
  BY <1>1, WifiRestartInv
<1>2. CASE LinkUp \/ LinkDown
  BY <1>2, LinkUpInv, LinkDownInv
<1>3. ASSUME NEW t \in Tasks, Assign(t) PROVE WifiInv'
  BY <1>3, AssignInv
<1>4. ASSUME NEW c \in Sessions, NEW k \in Keys, NEW text \in Texts \cup {TooLong}, SetText(c, k, text)
      PROVE  WifiInv'
  BY <1>4, SetTextInv
<1>5. ASSUME NEW c \in Sessions, ClearCredentials(c) \/ StoreKey(c) \/ Ask(c)
                                 \/ CheckTime(c) \/ TakeTime(c) \/ EndQuery(c)
      PROVE  WifiInv'
  BY <1>5, ClearCredentialsInv, StoreKeyInv, AskInv, CheckTimeInv, TakeTimeInv, EndQueryInv
<1>6. ASSUME NEW c \in Sessions, NEW f \in {"connected", "ip"}, CopyField(c, f) PROVE WifiInv'
  BY <1>6, CopyFieldInv
<1>7. CASE UNCHANGED wifiVars
  BY <1>7 DEF wifiVars, WifiInv, WifiTypeOK, ShapeInv, AtRest, SetsText, Clears, KeyInv, KeysOf,
              LinkInv, WroteTheRest, WritesStatus, Storing, QueryInv, Says
<1> QED BY <1>1, <1>2, <1>3, <1>4, <1>5, <1>6, <1>7 DEF WifiNext

LEMMA WifiInvImplies == WifiInv => WifiStateIsSound
<1> SUFFICES ASSUME WifiInv PROVE WifiStateIsSound
  OBVIOUS
<1>1. ASSUME NEW k \in Keys \ overlapped
      PROVE  wifi_nvs[k] \in {wifi[k]} \cup {wifi_call[c].to[k] : c \in {d \in Sessions : k \in KeysOf(d)}}
  <2>1. CASE \A c \in Sessions : k \notin KeysOf(c)
    BY <2>1 DEF WifiInv, KeyInv
  <2>2. ASSUME NEW c \in Sessions, k \in KeysOf(c)
        PROVE  wifi_nvs[k] = wifi[k] \/ wifi_nvs[k] = wifi_call[c].to[k]
    BY <2>2 DEF WifiInv, KeyInv
  <2> QED BY <2>1, <2>2
<1>2. ASSUME NEW c \in Sessions, overlapped = {}, Len(wifi_call[c].writes) = 5, Len(wifi_call[c].keys) = 1
      PROVE  wifi_nvs["ssid"] = NoText
  <2>1. Clears(c)
    BY <1>2 DEF WifiInv, ShapeInv, AtRest, SetsText
  <2>2. wifi_call[c].keys = <<"password">> /\ wifi_call[c].writes = <<"ssid", "password", "connected", "ip", "at">>
    BY <1>2, <2>1 DEF Clears
  <2>3. "ssid" \in KeysOf(c) /\ "ssid" \notin Range(wifi_call[c].keys) /\ "ssid" \in Keys
    BY <2>2, RangeOfSteps DEF KeysOf, Keys
  <2>4. wifi_nvs["ssid"] = wifi_call[c].to["ssid"]
    BY <1>2, <2>3 DEF WifiInv, KeyInv
  <2> QED BY <2>1, <2>4 DEF Clears, Cleared
<1>3. CredentialsSurvive
  BY <1>1, <1>2 DEF CredentialsSurvive
<1>4. ASSUME ~crossed, \A t \in Tasks : ~WritesStatus(t)
      PROVE  Consistent(wifi)
  BY <1>4 DEF WifiInv, LinkInv
<1>5. ASSUME NEW c \in Sessions \ disturbed, Answered(c), Consistent(wifi)
      PROVE  /\ query[c].connected = wifi.connected
             /\ query[c].ip = wifi.ip
             /\ query[c].time = IF wifi.connected THEN "since" ELSE "zero"
  <2>1. Says(query[c])
    BY <1>5 DEF WifiInv, QueryInv
  <2>2. /\ query[c].connected <=> wifi.connected
        /\ query[c].ip = wifi.ip
        /\ query[c].time = IF wifi.connected THEN "since" ELSE "zero"
    BY <1>5, <2>1 DEF Says, Answered, Consistent
  <2>3. query[c].connected \in BOOLEAN /\ wifi.connected \in BOOLEAN
    BY DEF WifiInv, WifiTypeOK, States
  <2>4. query[c].connected = wifi.connected
    BY <2>2, <2>3
  <2> QED BY <2>2, <2>4
<1>6. StatusIsTrue
  BY <1>4, <1>5 DEF StatusIsTrue, Consistent
<1> QED BY <1>3, <1>6 DEF WifiStateIsSound

\* The credentials survive a power loss and the status is the link's, in every behaviour.
THEOREM WifiCorrect == WifiSpec => []WifiStateIsSound
BY WifiInitInv, WifiNextInv, WifiInvImplies, PTL DEF WifiSpec
=============================================================================
