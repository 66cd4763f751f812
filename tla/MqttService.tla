---------------------------- MODULE MqttService ----------------------------
(***************************************************************************)
(* The worker of mqtt_svc.c.  Listeners, the Wi-Fi and MQTT event handlers *)
(* and the setters only record what happened and set a bit of the worker's *)
(* task notification; several of a kind become one, and the order between  *)
(* kinds is lost.  The worker takes all bits at once and serves them in a  *)
(* fixed order.  Around it are the esp-mqtt client, which reconnects by    *)
(* itself and posts DISCONNECTED after every failed attempt, the broker,   *)
(* which publishes the will when a connection is lost, and the relay.      *)
(*                                                                         *)
(* What is published while the client has no connection stays in its       *)
(* outbox; the worker publishes everything again after the connection, so  *)
(* the outbox is left out.  So are the telemetry ticks and the protection  *)
(* state, which goes the way of the relay state.                           *)
(***************************************************************************)
EXTENDS FiniteSets

CONSTANTS
    Brokers,    \* configurations the client can be started with
    Off,        \* disabled, or without a broker URI; no client
    None        \* nothing

ASSUME NamesAssumption == Off \notin Brokers /\ None \notin Brokers \cup {Off} \cup BOOLEAN

VARIABLES
    boot,           \* how far mqtt_svc_init is
    link,           \* the station: "up" has an address, "bare" has lost it
    wifiConnected,  \* wifi_connected
    missed,         \* history: the link changed before the handlers were there
    config,         \* config
    telling,        \* notifications that are about to be set
    bits,           \* the worker's notification value
    todo,           \* bits the worker has taken
    plan,           \* what mqtt_svc_reconcile wants, None outside it
    client,         \* the configuration s_client runs with
    startFailed,    \* the last start of a client failed
    session,        \* the client's connection to the broker
    subscribed,     \* the broker sends relay/set on this connection
    connected,      \* connected
    raced,          \* history: connected was set without a connection
    relay,          \* the output relay
    published,      \* s_published_relay
    shown,          \* relay/state at the broker
    online,         \* availability at the broker
    command         \* pending_command

vars == <<boot, link, wifiConnected, missed, config, telling, bits, todo, plan, client,
          startFailed, session, subscribed, connected, raced, relay, published, shown,
          online, command>>

netVars == <<boot, link, wifiConnected, missed>>
setVars == <<config, telling>>
clientVars == <<plan, client, startFailed>>
brokerVars == <<session, subscribed, online>>
stateVars == <<connected, raced, published, shown>>

Configs == Brokers \cup {Off}
Bits == {"reconfigure", "network", "disconnected", "connected", "haOnline", "command", "output"}

\* Mutant: the end of a connection is served after its beginning.
BeforeEndLast(b) ==
    CASE b = "reconfigure"  -> {}
      [] b = "network"      -> {"reconfigure"}
      [] b = "connected"    -> {"reconfigure", "network"}
      [] b = "disconnected" -> {"reconfigure", "network", "connected"}
      [] b = "haOnline"     -> {"reconfigure", "network", "disconnected", "connected"}
      [] b = "command"      -> Bits \ {"command", "output"}
      [] b = "output"       -> Bits \ {"output"}

\* The bits the worker serves before b.  A reconfiguration covers the network.
Before(b) ==
    CASE b = "reconfigure"  -> {}
      [] b = "network"      -> {"reconfigure"}
      [] b = "disconnected" -> {"reconfigure", "network"}
      [] b = "connected"    -> {"reconfigure", "network", "disconnected"}
      [] b = "haOnline"     -> {"reconfigure", "network", "disconnected", "connected"}
      [] b = "command"      -> Bits \ {"command", "output"}
      [] b = "output"       -> Bits \ {"output"}

TypeOK ==
    /\ boot \in {"start", "snapshot", "registered", "running"}
    /\ link \in {"down", "up", "bare"} /\ wifiConnected \in BOOLEAN /\ missed \in BOOLEAN
    /\ config \in Configs /\ telling \subseteq {"reconfigure", "output"}
    /\ bits \subseteq Bits /\ todo \subseteq Bits
    /\ plan \in Configs \cup {None}
    /\ plan # None => todo \cap {"reconfigure", "network"} # {}
    /\ client \in Configs /\ startFailed \in BOOLEAN
    /\ session \in {"none", "connecting", "connected"}
    /\ session = "none" <=> client = Off
    /\ subscribed \in BOOLEAN /\ (subscribed => session = "connected")
    /\ connected \in BOOLEAN /\ (connected => client # Off)
    /\ raced \in BOOLEAN /\ relay \in BOOLEAN /\ online \in BOOLEAN
    /\ published \in BOOLEAN \cup {None} /\ shown \in BOOLEAN \cup {None}
    /\ command \in BOOLEAN \cup {None}

\* The output is off at boot.
Init ==
    /\ boot = "start" /\ link \in {"down", "up"}
    /\ wifiConnected = FALSE /\ missed = FALSE
    /\ config \in Configs /\ telling = {}
    /\ bits = {} /\ todo = {} /\ plan = None
    /\ client = Off /\ startFailed = FALSE
    /\ session = "none" /\ subscribed = FALSE /\ connected = FALSE /\ raced = FALSE
    /\ relay = FALSE /\ published = None /\ shown = None /\ online = FALSE
    /\ command = None

\* mqtt_svc_notify has no task to notify before the worker is created.
Notify(b) == bits' = IF boot = "running" THEN bits \cup {b} ELSE bits

------------------------------------------------------------------------------
(* mqtt_svc_init.                                                           *)

ReadWifi ==
    /\ boot = "start" /\ boot' = "snapshot"
    /\ wifiConnected' = (link = "up")
    /\ UNCHANGED <<link, missed, setVars, bits, todo, clientVars, brokerVars, stateVars,
                   relay, command>>

RegisterHandlers ==
    /\ boot = "snapshot" /\ boot' = "registered"
    /\ UNCHANGED <<link, wifiConnected, missed, setVars, bits, todo, clientVars, brokerVars,
                   stateVars, relay, command>>

\* The worker begins with mqtt_svc_reconcile(false).
StartWorker ==
    /\ boot = "registered" /\ boot' = "running"
    /\ todo' = {"network"}
    /\ UNCHANGED <<link, wifiConnected, missed, setVars, bits, clientVars, brokerVars,
                   stateVars, relay, command>>

------------------------------------------------------------------------------
(* Wi-Fi, the setters and the relay.                                        *)

\* mqtt_svc_network_event_handler
Hear(isUp) ==
    IF boot \in {"registered", "running"}
    THEN wifiConnected' = isUp /\ Notify("network") /\ UNCHANGED missed
    ELSE /\ missed' = (missed \/ boot = "snapshot")
         /\ UNCHANGED <<wifiConnected, bits>>

GetAddress ==
    /\ link # "up" /\ link' = "up"
    /\ Hear(TRUE)
    /\ UNCHANGED <<boot, setVars, todo, clientVars, brokerVars, stateVars, relay, command>>

Disconnect ==
    /\ link # "down" /\ link' = "down"
    /\ Hear(FALSE)
    /\ UNCHANGED <<boot, setVars, todo, clientVars, brokerVars, stateVars, relay, command>>

\* Nobody registers for IP_EVENT_STA_LOST_IP.
LoseAddress ==
    /\ link = "up" /\ link' = "bare"
    /\ UNCHANGED <<boot, wifiConnected, missed, setVars, bits, todo, clientVars, brokerVars,
                   stateVars, relay, command>>

\* A setter stores and applies its value under the lock and notifies after it.
SetConfig(c) ==
    /\ boot = "running"
    /\ config' = c
    /\ telling' = telling \cup {"reconfigure"}
    /\ UNCHANGED <<netVars, bits, todo, clientVars, brokerVars, stateVars, relay, command>>

\* Some other task drives the relay; its listeners are called after that.
SwitchRelay ==
    /\ relay' = ~relay
    /\ telling' = telling \cup {"output"}
    /\ UNCHANGED <<netVars, config, bits, todo, clientVars, brokerVars, stateVars, command>>

Tell(b) ==
    /\ b \in telling /\ telling' = telling \ {b}
    /\ Notify(b)
    /\ UNCHANGED <<netVars, config, todo, clientVars, brokerVars, stateVars, relay, command>>

------------------------------------------------------------------------------
(* The client and the broker.                                               *)

BrokerConnects ==
    /\ session = "connecting" /\ link = "up" /\ session' = "connected"
    /\ Notify("connected")
    /\ UNCHANGED <<netVars, setVars, todo, clientVars, subscribed, online, stateVars, relay,
                   command>>

AttemptFails ==
    /\ session = "connecting"
    /\ Notify("disconnected")
    /\ UNCHANGED <<netVars, setVars, todo, clientVars, brokerVars, stateVars, relay, command>>

\* The broker publishes the will.
BrokerDrops ==
    /\ session = "connected" /\ session' = "connecting"
    /\ subscribed' = FALSE /\ online' = FALSE
    /\ Notify("disconnected")
    /\ UNCHANGED <<netVars, setVars, todo, clientVars, stateVars, relay, command>>

\* Retained and malformed messages are dropped here.
ReceiveCommand(on) ==
    /\ subscribed
    /\ command' = on
    /\ Notify("command")
    /\ UNCHANGED <<netVars, setVars, todo, clientVars, brokerVars, stateVars, relay>>

ReceiveHaOnline ==
    /\ subscribed
    /\ Notify("haOnline")
    /\ UNCHANGED <<netVars, setVars, todo, clientVars, brokerVars, stateVars, relay, command>>

------------------------------------------------------------------------------
(* The worker.                                                              *)

TakeBits ==
    /\ boot = "running" /\ todo = {} /\ bits # {}
    /\ todo' = bits /\ bits' = {}
    /\ UNCHANGED <<netVars, setVars, clientVars, brokerVars, stateVars, relay, command>>

Serve(b) == b \in todo /\ Before(b) \cap todo = {} /\ todo' = todo \ {b}

\* mqtt_svc_reconcile copies the configuration under the lock.
PlanClient ==
    /\ plan = None /\ todo \cap {"reconfigure", "network"} # {}
    /\ plan' = IF wifiConnected THEN config ELSE Off
    /\ UNCHANGED <<netVars, setVars, bits, todo, client, startFailed, brokerVars, stateVars,
                   relay, command>>

Planned == plan # None /\ plan' = None /\ todo' = todo \ {"reconfigure", "network"}

\* Mutant: a running client is kept as long as one is wanted.
MustStopUnwanted == client # Off /\ plan = Off

MustStop == client # Off /\ ("reconfigure" \in todo \/ plan = Off)

KeepClient ==
    /\ Planned /\ ~MustStop /\ (client = Off => plan = Off)
    /\ startFailed' = (startFailed /\ plan # Off)
    /\ UNCHANGED <<netVars, setVars, bits, client, brokerVars, stateVars, relay, command>>

\* A clean disconnect suppresses the will, so offline is published first.
Retire ==
    /\ online' = (online /\ ~(MustStop /\ connected))
    /\ connected' = FALSE /\ raced' = FALSE
    /\ published' = None /\ subscribed' = FALSE

StopClient ==
    /\ Planned /\ MustStop /\ plan = Off
    /\ Retire
    /\ client' = Off /\ session' = "none" /\ startFailed' = FALSE
    /\ UNCHANGED <<netVars, setVars, bits, relay, shown, command>>

StartClient(ok) ==
    /\ Planned /\ plan # Off /\ (MustStop \/ client = Off)
    /\ Retire
    /\ client' = IF ok THEN plan ELSE Off
    /\ session' = IF ok THEN "connecting" ELSE "none"
    /\ startFailed' = ~ok
    /\ UNCHANGED <<netVars, setVars, bits, relay, shown, command>>

\* mqtt_svc_publish_relay_state once connected is known to be set
PublishRelay(force, now) ==
    LET due == force \/ published # now
    IN  /\ published' = IF due THEN now ELSE published
        /\ shown' = IF due /\ session = "connected" THEN now ELSE shown

ServeDisconnected ==
    /\ Serve("disconnected")
    /\ connected' = FALSE /\ raced' = FALSE /\ published' = None
    /\ UNCHANGED <<netVars, setVars, bits, clientVars, brokerVars, shown, relay, command>>

\* Mutant: the relay state waits for its next change.
ServeConnectedSilently ==
    /\ Serve("connected") /\ client # Off
    /\ connected' = TRUE
    /\ raced' = (session # "connected" /\ "disconnected" \notin bits)
    /\ subscribed' = (session = "connected") /\ online' = (session = "connected")
    /\ UNCHANGED <<netVars, setVars, bits, clientVars, session, published, shown, relay, command>>

\* mqtt_svc_on_connected
ServeConnected ==
    /\ Serve("connected") /\ client # Off
    /\ connected' = TRUE
    /\ raced' = (session # "connected" /\ "disconnected" \notin bits)
    /\ subscribed' = (session = "connected") /\ online' = (session = "connected")
    /\ PublishRelay(TRUE, relay)
    /\ UNCHANGED <<netVars, setVars, bits, clientVars, session, relay, command>>

ServeHaOnline ==
    /\ Serve("haOnline") /\ connected
    /\ online' = (session = "connected")
    /\ PublishRelay(TRUE, relay)
    /\ UNCHANGED <<netVars, setVars, bits, clientVars, session, subscribed, connected, raced,
                   relay, command>>

\* mqtt_svc_handle_relay_command; protection_svc may refuse to switch on.
ServeCommand(refused) ==
    /\ Serve("command") /\ connected
    /\ command' = None
    /\ IF refused
       THEN /\ command = TRUE
            /\ PublishRelay(TRUE, relay)
            /\ UNCHANGED <<relay, bits>>
       ELSE /\ relay' = IF command = None THEN relay ELSE command
            /\ bits' = IF command = None THEN bits ELSE bits \cup {"output"}
            /\ UNCHANGED <<published, shown>>
    /\ UNCHANGED <<netVars, setVars, clientVars, brokerVars, connected, raced>>

ServeOutput ==
    /\ Serve("output") /\ connected
    /\ PublishRelay(FALSE, relay)
    /\ UNCHANGED <<netVars, setVars, bits, clientVars, brokerVars, connected, raced, relay,
                   command>>

\* A bit that finds no client or no connection is consumed all the same.
Ignore(b) ==
    /\ Serve(b)
    /\ IF b = "connected" THEN client = Off ELSE ~connected
    /\ UNCHANGED <<netVars, setVars, bits, clientVars, brokerVars, stateVars, relay, command>>

------------------------------------------------------------------------------
Worker ==
    \/ TakeBits \/ PlanClient \/ KeepClient \/ StopClient
    \/ \E ok \in BOOLEAN : StartClient(ok)
    \/ ServeDisconnected \/ ServeConnected \/ ServeHaOnline \/ ServeOutput
    \/ \E refused \in BOOLEAN : ServeCommand(refused)
    \/ \E b \in {"connected", "haOnline", "command", "output"} : Ignore(b)

Boot == ReadWifi \/ RegisterHandlers \/ StartWorker

Others ==
    \/ GetAddress \/ Disconnect \/ LoseAddress \/ SwitchRelay
    \/ \E c \in Configs : SetConfig(c)
    \/ BrokerDrops \/ ReceiveHaOnline
    \/ \E on \in BOOLEAN : ReceiveCommand(on)

Attempt == BrokerConnects \/ AttemptFails

Next == Boot \/ Worker \/ Attempt \/ Others \/ \E b \in {"reconfigure", "output"} : Tell(b)

Spec == Init /\ [][Next]_vars

\* Tasks that can run do.  An attempt to connect ends, and not always in failure.
Fairness ==
    /\ WF_vars(Boot) /\ WF_vars(Worker)
    /\ \A b \in {"reconfigure", "output"} : WF_vars(Tell(b))
    /\ WF_vars(Attempt) /\ SF_vars(BrokerConnects)

FairSpec == Spec /\ Fairness

------------------------------------------------------------------------------
Quiet == boot = "running" /\ bits = {} /\ todo = {} /\ telling = {}

\* When nothing is left to do there is a client exactly when one is wanted, and
\* it runs with the settings in force, in whatever order settings and Wi-Fi
\* events came; a start that failed is not repeated.
ClientIsAsConfigured ==
    Quiet =>
        /\ ~startFailed => client = IF wifiConnected THEN config ELSE Off
        /\ ~missed => /\ link = "up" => wifiConnected
                      /\ link = "down" => ~wifiConnected

\* A connection the broker has accepted is never overlooked, and then what the
\* broker shows is so: available, listening to commands, the relay as it is.
BrokerShowsRelay ==
    Quiet /\ session = "connected" => connected /\ subscribed /\ online /\ shown = relay

\* The device is shown as available on a live connection only, also after the
\* clean disconnect of a client that is stopped or restarted.
OnlineOnlyWhileConnected == online => session = "connected"

\* Only a CONNECTED bit that was served after its connection had ended makes
\* the service believe in a connection for longer than the news of its end.
ConnectedWasRaced ==
    connected /\ session # "connected" => raced \/ "disconnected" \in bits \cup todo

\* What it shows of the connection is so, at the broker and in STAT?.
ConnectionIsTrue == OnlineOnlyWhileConnected /\ ConnectedWasRaced

\* The worker ends with the client that is wanted and the truth about its connection.
ServiceIsAsConfigured == ClientIsAsConfigured /\ ConnectionIsTrue

\* The service is connected again and again while the link and the settings
\* stay, once a client could be started.
Connects ==
    \A c \in Brokers :
        <>[](link = "up" /\ config = c /\ ~missed /\ ~startFailed) => []<>connected

\* .doc/scpi-ref.md:300 says "Connected; discovery and state are published."
ConnectedIsReal == Quiet => (connected => session = "connected")

\* .doc/scpi-ref.md:269 says the client "connects only when enabled, a broker
\* URI is set, and Wi-Fi has an IP address."
ClientHasAddress == Quiet /\ ~missed => (client # Off => link = "up")
=============================================================================
