----------------------------- MODULE WifiManager -----------------------------
(***************************************************************************)
(* wifi_manager.c: the credentials in NVS and in RAM, and what WIFI:STATUS? *)
(* says of the link.  Nothing here takes a lock.  Sessions set and clear   *)
(* credentials and ask for the status while the event task tells of the    *)
(* link, so each field is read and written in a step of its own, and power *)
(* can fail between any two.                                               *)
(*                                                                         *)
(* The time at which a link came up is the number of the link; 0 is the    *)
(* cleared time, from which the time since then would be the uptime.       *)
(***************************************************************************)
EXTENDS Integers, Sequences, SequencesExt

CONSTANTS
    Sessions,      \* tasks that serve a SCPI client
    EventTask,     \* the event loop's
    Texts,         \* SSIDs and passwords that fit the buffers
    TooLong,       \* one that does not
    NoText,        \* ""
    Address,       \* what DHCP gives
    MaxLinks,      \* bound on links
    MaxCalls       \* bound on setters and queries of a session between two boots

ASSUME WifiAssumption ==
    /\ EventTask \notin Sessions
    /\ TooLong \notin Texts /\ Address # NoText
    /\ MaxLinks \in Nat /\ MaxCalls \in Nat

VARIABLES
    wifi_nvs,      \* the keys in NVS; a missing key is read as ""
    wifi,          \* s_wifi_manager
    wifi_call,     \* a task's setter: the keys and the fields it still has to write, and to what
    query,         \* a session's wifi_manager_get_state
    links,         \* history: links so far
    calls,         \* history: calls so far
    overlapped,    \* history: keys whose setters overlapped, or failed half done
    crossed,       \* history: an event and a WIFI:CLEAR wrote the status at the same time
    disturbed      \* history: queries during which some field changed

wifiVars == <<wifi_nvs, wifi, wifi_call, query, links, calls, overlapped, crossed, disturbed>>

Keys == {"ssid", "password"}
Tasks == Sessions \cup {EventTask}
Cleared == [ssid |-> NoText, password |-> NoText, connected |-> FALSE, ip |-> NoText, at |-> 0]
Nothing == [keys |-> <<>>, writes |-> <<>>, to |-> Cleared]
Asked == [left |-> {}, time |-> "no", connected |-> FALSE, ip |-> NoText]

Stored == {NoText} \cup Texts
States == [ssid : Stored, password : Stored, connected : BOOLEAN, ip : {NoText, Address},
           at : 0..MaxLinks]

WifiTypeOK ==
    /\ wifi_nvs \in [Keys -> Stored]
    /\ wifi \in States
    /\ wifi_call \in [Tasks -> [keys : Seq(Keys), writes : Seq(DOMAIN Cleared), to : States]]
    /\ query \in [Sessions -> [left : SUBSET {"connected", "ip"},
                               time : {"no", "check", "take", "zero", "since", "uptime"},
                               connected : BOOLEAN, ip : {NoText, Address}]]
    /\ links \in 0..MaxLinks /\ calls \in 0..MaxCalls
    /\ overlapped \subseteq Keys /\ crossed \in BOOLEAN /\ disturbed \subseteq Sessions

\* wifi_manager_init
LoadedState == [ssid |-> wifi_nvs["ssid"], password |-> wifi_nvs["password"],
                connected |-> FALSE, ip |-> NoText, at |-> 0]

WifiInit ==
    /\ wifi_nvs \in [Keys -> Stored]
    /\ wifi = LoadedState
    /\ wifi_call = [t \in Tasks |-> Nothing]
    /\ query = [c \in Sessions |-> Asked]
    /\ links = 0
    /\ calls = 0
    /\ overlapped = {}
    /\ crossed = FALSE
    /\ disturbed = {}

\* A power loss and the boot that follows.
WifiRestart ==
    /\ wifi' = LoadedState
    /\ wifi_call' = [t \in Tasks |-> Nothing]
    /\ query' = [c \in Sessions |-> Asked]
    /\ links' = 0 /\ calls' = 0
    /\ overlapped' = {} /\ crossed' = FALSE /\ disturbed' = {}
    /\ UNCHANGED wifi_nvs
-----------------------------------------------------------------------------
(* Credentials *)

Storing(t) == wifi_call[t].keys # <<>>
Writing(t) == wifi_call[t].writes # <<>>
Free(c) == ~Storing(c) /\ ~Writing(c) /\ query[c].left = {} /\ query[c].time = "no"

\* The keys a task is about to change, in NVS or in RAM.
KeysOf(t) == Keys \cap (Range(wifi_call[t].keys) \cup Range(wifi_call[t].writes))

\* wifi_manager_validate_string_length
Fits(text) == text # TooLong

BeginCall(c, keys, writes, to) ==
    /\ Free(c) /\ calls < MaxCalls
    /\ wifi_call' = [wifi_call EXCEPT ![c] = [keys |-> keys, writes |-> writes, to |-> to]]
    /\ calls' = calls + 1
    /\ overlapped' = overlapped \cup {k \in Range(keys) : \E d \in Sessions : k \in KeysOf(d)}
    /\ UNCHANGED <<wifi_nvs, wifi, query, links, crossed, disturbed>>

\* wifi_manager_set_ssid and wifi_manager_set_password
SetText(c, k, text) == Fits(text) /\ BeginCall(c, <<k>>, <<k>>, [Cleared EXCEPT ![k] = text])

\* Mutant: the password goes first.
ClearPasswordFirst(c) ==
    BeginCall(c, <<"password", "ssid">>, <<"ssid", "password", "connected", "ip", "at">>, Cleared)

\* wifi_manager_clear_credentials
ClearCredentials(c) ==
    BeginCall(c, <<"ssid", "password">>, <<"ssid", "password", "connected", "ip", "at">>, Cleared)

\* wifi_manager_store_string and wifi_manager_erase_key.  The first key that fails ends
\* the call; when the commit failed, NVS may have taken the value.
StoreKey(c) ==
    /\ Storing(c)
    /\ LET k == Head(wifi_call[c].keys) IN
       \/ /\ wifi_nvs' = [wifi_nvs EXCEPT ![k] = wifi_call[c].to[k]]
          /\ wifi_call' = [wifi_call EXCEPT ![c].keys = Tail(@)]
          /\ UNCHANGED overlapped
       \/ /\ wifi_nvs' \in {wifi_nvs, [wifi_nvs EXCEPT ![k] = wifi_call[c].to[k]]}
          /\ wifi_call' = [wifi_call EXCEPT ![c] = Nothing]
          /\ overlapped' = overlapped \cup KeysOf(c)
    /\ UNCHANGED <<wifi, query, links, calls, crossed, disturbed>>
-----------------------------------------------------------------------------
(* The link and its status *)

Link(to) ==
    /\ ~Writing(EventTask)
    /\ wifi_call' = [wifi_call EXCEPT ![EventTask] =
                        [keys |-> <<>>, writes |-> <<"ip", "connected", "at">>, to |-> to]]
    /\ UNCHANGED <<wifi_nvs, wifi, query, calls, overlapped, crossed, disturbed>>

\* wifi_manager_set_connection_state(true, ip), for IP_EVENT_STA_GOT_IP
LinkUp ==
    /\ links < MaxLinks
    /\ links' = links + 1
    /\ Link([ssid |-> NoText, password |-> NoText,
             connected |-> TRUE, ip |-> Address, at |-> links + 1])

\* wifi_manager_set_connection_state(false, NULL), when the link or the address is lost
LinkDown == Link(Cleared) /\ UNCHANGED links

\* A task in the middle of a call that writes the status, after the keys of a WIFI:CLEAR.
WritesStatus(t) == ~Storing(t) /\ Range(wifi_call[t].writes) \ Keys # {}

\* One assignment of a setter, of WIFI:CLEAR or of the event task.
Assign(t) ==
    /\ Writing(t) /\ ~Storing(t)
    /\ LET f == Head(wifi_call[t].writes) IN
       /\ wifi' = [wifi EXCEPT ![f] = wifi_call[t].to[f]]
       /\ crossed' = (crossed \/ (f \notin Keys /\ \E u \in Tasks \ {t} : WritesStatus(u)))
       /\ disturbed' = disturbed \cup
              IF f \notin Keys THEN {c \in Sessions : query[c].left # {} \/ query[c].time # "no"} ELSE {}
    /\ wifi_call' = [wifi_call EXCEPT ![t].writes = Tail(@)]
    /\ UNCHANGED <<wifi_nvs, query, links, calls, overlapped>>

\* wifi_manager_get_state: the copy of the state reads its fields one by one.
Ask(c) ==
    /\ Free(c) /\ calls < MaxCalls
    /\ calls' = calls + 1
    /\ query' = [query EXCEPT ![c] = [left |-> {"connected", "ip"}, time |-> "check",
                                      connected |-> FALSE, ip |-> NoText]]
    /\ disturbed' = disturbed \ {c}
    /\ UNCHANGED <<wifi_nvs, wifi, wifi_call, links, overlapped, crossed>>

CopyField(c, f) ==
    /\ f \in query[c].left
    /\ query' = [query EXCEPT ![c][f] = wifi[f], ![c].left = @ \ {f}]
    /\ UNCHANGED <<wifi_nvs, wifi, wifi_call, links, calls, overlapped, crossed, disturbed>>

\* It then looks at the fields again, and once more for the time itself.
CheckTime(c) ==
    /\ query[c].left = {} /\ query[c].time = "check"
    /\ query' = [query EXCEPT ![c].time = IF wifi.connected /\ wifi.at > 0 THEN "take" ELSE "zero"]
    /\ UNCHANGED <<wifi_nvs, wifi, wifi_call, links, calls, overlapped, crossed, disturbed>>

TakeTime(c) ==
    /\ query[c].time = "take"
    /\ query' = [query EXCEPT ![c].time = IF wifi.at = 0 THEN "uptime" ELSE "since"]
    /\ UNCHANGED <<wifi_nvs, wifi, wifi_call, links, calls, overlapped, crossed, disturbed>>

\* The answer is on its way and forgotten.
Answered(c) == query[c].time \in {"zero", "since", "uptime"}

EndQuery(c) ==
    /\ Answered(c)
    /\ query' = [query EXCEPT ![c] = Asked]
    /\ UNCHANGED <<wifi_nvs, wifi, wifi_call, links, calls, overlapped, crossed, disturbed>>
-----------------------------------------------------------------------------
WifiNext ==
    \/ WifiRestart
    \/ LinkUp
    \/ LinkDown
    \/ \E t \in Tasks : Assign(t)
    \/ \E c \in Sessions :
           \/ \E k \in Keys, text \in Texts \cup {TooLong} : SetText(c, k, text)
           \/ ClearCredentials(c)
           \/ StoreKey(c)
           \/ Ask(c)
           \/ \E f \in {"connected", "ip"} : CopyField(c, f)
           \/ CheckTime(c)
           \/ TakeTime(c)
           \/ EndQuery(c)

WifiSpec == WifiInit /\ [][WifiNext]_wifiVars
-----------------------------------------------------------------------------
(* Properties *)

\* A power loss leaves each credential as the device had it or as a call in progress is
\* about to make it; in a WIFI:CLEAR the SSID goes first, so a boot never pairs an SSID
\* that is being cleared with no password.  Keys whose setters overlapped or failed half
\* done are exempt.
CredentialsSurvive ==
    /\ \A k \in Keys \ overlapped :
           wifi_nvs[k] \in {wifi[k]} \cup {wifi_call[c].to[k] : c \in {d \in Sessions : k \in KeysOf(d)}}
    /\ \A c \in Sessions : overlapped = {} /\ Len(wifi_call[c].writes) = 5 /\ Len(wifi_call[c].keys) = 1
           => wifi_nvs["ssid"] = NoText

\* Unless an event met a WIFI:CLEAR, the three fields of the link agree when no
\* assignment is under way; and an answer during which no field changed is the link's.
StatusIsTrue ==
    /\ ~crossed /\ (\A t \in Tasks : ~WritesStatus(t)) =>
           /\ wifi.connected <=> wifi.at > 0
           /\ wifi.connected <=> wifi.ip = Address
    /\ \A c \in Sessions \ disturbed :
           Answered(c) /\ ~crossed /\ (\A t \in Tasks : ~WritesStatus(t)) =>
               /\ query[c].connected = wifi.connected
               /\ query[c].ip = wifi.ip
               /\ query[c].time = IF wifi.connected THEN "since" ELSE "zero"

WifiStateIsSound == CredentialsSurvive /\ StatusIsTrue
=============================================================================
