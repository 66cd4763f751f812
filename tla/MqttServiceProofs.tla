-------------------------- MODULE MqttServiceProofs --------------------------
(***************************************************************************)
(* The worker of mqtt_svc.c, for any configurations.  The argument: what   *)
(* the worker does not know yet is told by a bit, in the notification, in  *)
(* what it has taken, or about to be set; and the bit of a connection is   *)
(* served after that of the end of the one before it.                      *)
(***************************************************************************)
EXTENDS MqttService, TLAPS

\* The client the configuration and the link call for.
Wanted == IF wifiConnected THEN config ELSE Off

Due(b) == b \in bits \cup todo
Reconfigures == "reconfigure" \in telling \/ Due("reconfigure")

\* Nothing happens to the client before the worker is there, and nobody listens to the
\* link before its handlers are.
BootInv ==
    /\ boot # "running" => /\ bits = {} /\ todo = {} /\ client = Off
                           /\ "reconfigure" \notin telling /\ ~startFailed
    /\ boot = "start" => ~missed /\ ~wifiConnected
    /\ boot # "start" /\ ~missed => (link = "up" => wifiConnected) /\ (link = "down" => ~wifiConnected)

\* A client, or a plan for one, that is not the one wanted is one that a bit will change.
ClientInv ==
    /\ client \notin {Off, config} => Reconfigures
    /\ plan \notin {None, Off, config} => "reconfigure" \in telling \cup bits
    /\ plan \notin {None, Wanted} =>
           "reconfigure" \in telling \/ bits \cap {"reconfigure", "network"} # {}
    /\ boot = "running" /\ ~Reconfigures /\ ~Due("network") => startFailed \/ client = Wanted

\* Behind the end of a connection the worker finds the bit of the one that followed.
ConnectionInv ==
    /\ session = "connected" /\ "disconnected" \in bits => "connected" \in bits
    /\ session = "connected" /\ "disconnected" \in todo => Due("connected")
    /\ online => session = "connected"
    /\ online /\ "disconnected" \in todo => "connected" \in todo
    /\ online /\ ~connected => "connected" \in todo /\ todo \cap {"reconfigure", "network"} = {}
    /\ ConnectedWasRaced

\* A connection that was served is as the broker shows it, but for a change of the relay
\* the worker has still to hear of.
ShownInv ==
    session = "connected" /\ ~Due("connected") =>
        /\ connected /\ subscribed /\ online
        /\ shown = published /\ published # None
        /\ published = relay \/ "output" \in telling \/ Due("output")

MqttServiceInv == TypeOK /\ BootInv /\ ClientInv /\ ConnectionInv /\ ShownInv

LEMMA ReadWifiInv == ASSUME MqttServiceInv, ReadWifi PROVE MqttServiceInv'
<1>1. TypeOK'
  BY NamesAssumption DEF MqttServiceInv, TypeOK, Bits, Configs, ReadWifi, netVars, setVars, clientVars, brokerVars, stateVars
<1>2. BootInv'
  BY NamesAssumption DEF MqttServiceInv, TypeOK, BootInv, Bits, Configs, ReadWifi, netVars, setVars, clientVars, brokerVars, stateVars
<1>3. ClientInv'
  BY NamesAssumption DEF MqttServiceInv, TypeOK, BootInv, ClientInv, Wanted, Reconfigures, Due, Bits, Configs, ReadWifi, netVars, setVars, clientVars, brokerVars, stateVars
<1>4. ConnectionInv'
  BY NamesAssumption DEF MqttServiceInv, TypeOK, ConnectionInv, ConnectedWasRaced, Due, Bits, Configs, ReadWifi, netVars, setVars, clientVars, brokerVars, stateVars
<1>5. ShownInv'
  BY NamesAssumption DEF MqttServiceInv, TypeOK, ConnectionInv, ShownInv, Due, Bits, Configs, ReadWifi, netVars, setVars, clientVars, brokerVars, stateVars
<1> QED BY <1>1, <1>2, <1>3, <1>4, <1>5 DEF MqttServiceInv

LEMMA RegisterHandlersInv == ASSUME MqttServiceInv, RegisterHandlers PROVE MqttServiceInv'
<1>1. TypeOK'
  BY NamesAssumption DEF MqttServiceInv, TypeOK, Bits, Configs, RegisterHandlers, netVars, setVars, clientVars, brokerVars, stateVars
<1>2. BootInv'
  BY NamesAssumption DEF MqttServiceInv, TypeOK, BootInv, Bits, Configs, RegisterHandlers, netVars, setVars, clientVars, brokerVars, stateVars
<1>3. ClientInv'
  BY NamesAssumption DEF MqttServiceInv, TypeOK, BootInv, ClientInv, Wanted, Reconfigures, Due, Bits, Configs, RegisterHandlers, netVars, setVars, clientVars, brokerVars, stateVars
<1>4. ConnectionInv'
  BY NamesAssumption DEF MqttServiceInv, TypeOK, ConnectionInv, ConnectedWasRaced, Due, Bits, Configs, RegisterHandlers, netVars, setVars, clientVars, brokerVars, stateVars
<1>5. ShownInv'
  BY NamesAssumption DEF MqttServiceInv, TypeOK, ConnectionInv, ShownInv, Due, Bits, Configs, RegisterHandlers, netVars, setVars, clientVars, brokerVars, stateVars
<1> QED BY <1>1, <1>2, <1>3, <1>4, <1>5 DEF MqttServiceInv

LEMMA StartWorkerInv == ASSUME MqttServiceInv, StartWorker PROVE MqttServiceInv'
<1>1. TypeOK'
  BY NamesAssumption DEF MqttServiceInv, TypeOK, Bits, Configs, StartWorker, netVars, setVars, clientVars, brokerVars, stateVars
<1>2. BootInv'
  BY NamesAssumption DEF MqttServiceInv, TypeOK, BootInv, Bits, Configs, StartWorker, netVars, setVars, clientVars, brokerVars, stateVars
<1>3. ClientInv'
  BY NamesAssumption DEF MqttServiceInv, TypeOK, BootInv, ClientInv, Wanted, Reconfigures, Due, Bits, Configs, StartWorker, netVars, setVars, clientVars, brokerVars, stateVars
<1>4. ConnectionInv'
  BY NamesAssumption DEF MqttServiceInv, TypeOK, BootInv, ConnectionInv, ConnectedWasRaced, Due, Bits, Configs, StartWorker, netVars, setVars, clientVars, brokerVars, stateVars
<1>5. ShownInv'
  BY NamesAssumption DEF MqttServiceInv, TypeOK, BootInv, ConnectionInv, ShownInv, Due, Bits, Configs, StartWorker, netVars, setVars, clientVars, brokerVars, stateVars
<1> QED BY <1>1, <1>2, <1>3, <1>4, <1>5 DEF MqttServiceInv

LEMMA GetAddressInv == ASSUME MqttServiceInv, GetAddress PROVE MqttServiceInv'
<1>1. TypeOK'
  <2>1. wifiConnected' \in BOOLEAN /\ missed' \in BOOLEAN
    BY DEF MqttServiceInv, TypeOK, GetAddress, Hear
  <2>2. bits' \subseteq Bits
    BY DEF MqttServiceInv, TypeOK, Bits, GetAddress, Hear, Notify
  <2> QED BY <2>1, <2>2 DEF MqttServiceInv, TypeOK, GetAddress, setVars, clientVars, brokerVars, stateVars
<1>2. BootInv'
  BY NamesAssumption DEF MqttServiceInv, TypeOK, BootInv, Bits, Configs, GetAddress, Hear, Notify, netVars, setVars, clientVars, brokerVars, stateVars
<1>3. ClientInv'
  BY NamesAssumption DEF MqttServiceInv, TypeOK, BootInv, ClientInv, Wanted, Reconfigures, Due, Bits, Configs, GetAddress, Hear, Notify, netVars, setVars, clientVars, brokerVars, stateVars
<1>4. ConnectionInv'
  BY NamesAssumption DEF MqttServiceInv, TypeOK, ConnectionInv, ConnectedWasRaced, Due, Bits, Configs, GetAddress, Hear, Notify, netVars, setVars, clientVars, brokerVars, stateVars
<1>5. ShownInv'
  BY NamesAssumption DEF MqttServiceInv, TypeOK, ConnectionInv, ShownInv, Due, Bits, Configs, GetAddress, Hear, Notify, netVars, setVars, clientVars, brokerVars, stateVars
<1> QED BY <1>1, <1>2, <1>3, <1>4, <1>5 DEF MqttServiceInv

LEMMA DisconnectInv == ASSUME MqttServiceInv, Disconnect PROVE MqttServiceInv'
<1>1. TypeOK'
  <2>1. wifiConnected' \in BOOLEAN /\ missed' \in BOOLEAN
    BY DEF MqttServiceInv, TypeOK, Disconnect, Hear
  <2>2. bits' \subseteq Bits
    BY DEF MqttServiceInv, TypeOK, Bits, Disconnect, Hear, Notify
  <2> QED BY <2>1, <2>2 DEF MqttServiceInv, TypeOK, Disconnect, setVars, clientVars, brokerVars, stateVars
<1>2. BootInv'
  BY NamesAssumption DEF MqttServiceInv, TypeOK, BootInv, Bits, Configs, Disconnect, Hear, Notify, netVars, setVars, clientVars, brokerVars, stateVars
<1>3. ClientInv'
  BY NamesAssumption DEF MqttServiceInv, TypeOK, BootInv, ClientInv, Wanted, Reconfigures, Due, Bits, Configs, Disconnect, Hear, Notify, netVars, setVars, clientVars, brokerVars, stateVars
<1>4. ConnectionInv'
  BY NamesAssumption DEF MqttServiceInv, TypeOK, ConnectionInv, ConnectedWasRaced, Due, Bits, Configs, Disconnect, Hear, Notify, netVars, setVars, clientVars, brokerVars, stateVars
<1>5. ShownInv'
  BY NamesAssumption DEF MqttServiceInv, TypeOK, ConnectionInv, ShownInv, Due, Bits, Configs, Disconnect, Hear, Notify, netVars, setVars, clientVars, brokerVars, stateVars
<1> QED BY <1>1, <1>2, <1>3, <1>4, <1>5 DEF MqttServiceInv

LEMMA LoseAddressInv == ASSUME MqttServiceInv, LoseAddress PROVE MqttServiceInv'
<1>1. TypeOK'
  BY NamesAssumption DEF MqttServiceInv, TypeOK, Bits, Configs, LoseAddress, netVars, setVars, clientVars, brokerVars, stateVars
<1>2. BootInv'
  BY NamesAssumption DEF MqttServiceInv, TypeOK, BootInv, Bits, Configs, LoseAddress, netVars, setVars, clientVars, brokerVars, stateVars
<1>3. ClientInv'
  BY NamesAssumption DEF MqttServiceInv, TypeOK, BootInv, ClientInv, Wanted, Reconfigures, Due, Bits, Configs, LoseAddress, netVars, setVars, clientVars, brokerVars, stateVars
<1>4. ConnectionInv'
  BY NamesAssumption DEF MqttServiceInv, TypeOK, ConnectionInv, ConnectedWasRaced, Due, Bits, Configs, LoseAddress, netVars, setVars, clientVars, brokerVars, stateVars
<1>5. ShownInv'
  BY NamesAssumption DEF MqttServiceInv, TypeOK, ConnectionInv, ShownInv, Due, Bits, Configs, LoseAddress, netVars, setVars, clientVars, brokerVars, stateVars
<1> QED BY <1>1, <1>2, <1>3, <1>4, <1>5 DEF MqttServiceInv

LEMMA SetConfigInv == ASSUME MqttServiceInv, NEW c \in Configs, SetConfig(c) PROVE MqttServiceInv'
<1>1. TypeOK'
  BY NamesAssumption DEF MqttServiceInv, TypeOK, Bits, Configs, SetConfig, netVars, setVars, clientVars, brokerVars, stateVars
<1>2. BootInv'
  BY NamesAssumption DEF MqttServiceInv, TypeOK, BootInv, Bits, Configs, SetConfig, netVars, setVars, clientVars, brokerVars, stateVars
<1>3. ClientInv'
  BY NamesAssumption DEF MqttServiceInv, TypeOK, BootInv, ClientInv, Wanted, Reconfigures, Due, Bits, Configs, SetConfig, netVars, setVars, clientVars, brokerVars, stateVars
<1>4. ConnectionInv'
  BY NamesAssumption DEF MqttServiceInv, TypeOK, ConnectionInv, ConnectedWasRaced, Due, Bits, Configs, SetConfig, netVars, setVars, clientVars, brokerVars, stateVars
<1>5. ShownInv'
  BY NamesAssumption DEF MqttServiceInv, TypeOK, ConnectionInv, ShownInv, Due, Bits, Configs, SetConfig, netVars, setVars, clientVars, brokerVars, stateVars
<1> QED BY <1>1, <1>2, <1>3, <1>4, <1>5 DEF MqttServiceInv

LEMMA SwitchRelayInv == ASSUME MqttServiceInv, SwitchRelay PROVE MqttServiceInv'
<1>1. TypeOK'
  BY NamesAssumption DEF MqttServiceInv, TypeOK, Bits, Configs, SwitchRelay, netVars, setVars, clientVars, brokerVars, stateVars
<1>2. BootInv'
  BY NamesAssumption DEF MqttServiceInv, TypeOK, BootInv, Bits, Configs, SwitchRelay, netVars, setVars, clientVars, brokerVars, stateVars
<1>3. ClientInv'
  BY NamesAssumption DEF MqttServiceInv, TypeOK, BootInv, ClientInv, Wanted, Reconfigures, Due, Bits, Configs, SwitchRelay, netVars, setVars, clientVars, brokerVars, stateVars
<1>4. ConnectionInv'
  BY NamesAssumption DEF MqttServiceInv, TypeOK, ConnectionInv, ConnectedWasRaced, Due, Bits, Configs, SwitchRelay, netVars, setVars, clientVars, brokerVars, stateVars
<1>5. ShownInv'
  BY NamesAssumption DEF MqttServiceInv, TypeOK, ConnectionInv, ShownInv, Due, Bits, Configs, SwitchRelay, netVars, setVars, clientVars, brokerVars, stateVars
<1> QED BY <1>1, <1>2, <1>3, <1>4, <1>5 DEF MqttServiceInv

LEMMA TellInv == ASSUME MqttServiceInv, NEW b \in {"reconfigure", "output"}, Tell(b) PROVE MqttServiceInv'
<1>1. TypeOK'
  BY NamesAssumption DEF MqttServiceInv, TypeOK, Bits, Configs, Tell, Notify, netVars, setVars, clientVars, brokerVars, stateVars
<1>2. BootInv'
  BY NamesAssumption DEF MqttServiceInv, TypeOK, BootInv, Bits, Configs, Tell, Notify, netVars, setVars, clientVars, brokerVars, stateVars
<1>3. ClientInv'
  BY NamesAssumption DEF MqttServiceInv, TypeOK, BootInv, ClientInv, Wanted, Reconfigures, Due, Bits, Configs, Tell, Notify, netVars, setVars, clientVars, brokerVars, stateVars
<1>4. ConnectionInv'
  BY NamesAssumption DEF MqttServiceInv, TypeOK, BootInv, ConnectionInv, ConnectedWasRaced, Due, Bits, Configs, Tell, Notify, netVars, setVars, clientVars, brokerVars, stateVars
<1>5. ShownInv'
  BY NamesAssumption DEF MqttServiceInv, TypeOK, BootInv, ConnectionInv, ShownInv, Due, Bits, Configs, Tell, Notify, netVars, setVars, clientVars, brokerVars, stateVars
<1> QED BY <1>1, <1>2, <1>3, <1>4, <1>5 DEF MqttServiceInv

LEMMA BrokerConnectsInv == ASSUME MqttServiceInv, BrokerConnects PROVE MqttServiceInv'
<1>1. TypeOK'
  BY NamesAssumption DEF MqttServiceInv, TypeOK, Bits, Configs, BrokerConnects, Notify, netVars, setVars, clientVars, brokerVars, stateVars
<1>2. BootInv'
  BY NamesAssumption DEF MqttServiceInv, TypeOK, BootInv, Bits, Configs, BrokerConnects, Notify, netVars, setVars, clientVars, brokerVars, stateVars
<1>3. ClientInv'
  BY NamesAssumption DEF MqttServiceInv, TypeOK, BootInv, ClientInv, Wanted, Reconfigures, Due, Bits, Configs, BrokerConnects, Notify, netVars, setVars, clientVars, brokerVars, stateVars
<1>4. ConnectionInv'
  BY NamesAssumption DEF MqttServiceInv, TypeOK, BootInv, ConnectionInv, ConnectedWasRaced, Due, Bits, Configs, BrokerConnects, Notify, netVars, setVars, clientVars, brokerVars, stateVars
<1>5. ShownInv'
  BY NamesAssumption DEF MqttServiceInv, TypeOK, BootInv, ConnectionInv, ShownInv, Due, Bits, Configs, BrokerConnects, Notify, netVars, setVars, clientVars, brokerVars, stateVars
<1> QED BY <1>1, <1>2, <1>3, <1>4, <1>5 DEF MqttServiceInv

LEMMA AttemptFailsInv == ASSUME MqttServiceInv, AttemptFails PROVE MqttServiceInv'
<1>1. TypeOK'
  BY NamesAssumption DEF MqttServiceInv, TypeOK, Bits, Configs, AttemptFails, Notify, netVars, setVars, clientVars, brokerVars, stateVars
<1>2. BootInv'
  BY NamesAssumption DEF MqttServiceInv, TypeOK, BootInv, Bits, Configs, AttemptFails, Notify, netVars, setVars, clientVars, brokerVars, stateVars
<1>3. ClientInv'
  BY NamesAssumption DEF MqttServiceInv, TypeOK, BootInv, ClientInv, Wanted, Reconfigures, Due, Bits, Configs, AttemptFails, Notify, netVars, setVars, clientVars, brokerVars, stateVars
<1>4. ConnectionInv'
  BY NamesAssumption DEF MqttServiceInv, TypeOK, ConnectionInv, ConnectedWasRaced, Due, Bits, Configs, AttemptFails, Notify, netVars, setVars, clientVars, brokerVars, stateVars
<1>5. ShownInv'
  BY NamesAssumption DEF MqttServiceInv, TypeOK, ConnectionInv, ShownInv, Due, Bits, Configs, AttemptFails, Notify, netVars, setVars, clientVars, brokerVars, stateVars
<1> QED BY <1>1, <1>2, <1>3, <1>4, <1>5 DEF MqttServiceInv

LEMMA BrokerDropsInv == ASSUME MqttServiceInv, BrokerDrops PROVE MqttServiceInv'
<1>1. TypeOK'
  <2>1. subscribed' \in BOOLEAN /\ ~subscribed' /\ online' \in BOOLEAN
    BY DEF BrokerDrops
  <2>2. bits' \subseteq Bits
    BY DEF MqttServiceInv, TypeOK, Bits, BrokerDrops, Notify
  <2>3. session' = "connecting" /\ client # Off
    BY DEF MqttServiceInv, TypeOK, BrokerDrops
  <2> QED BY <2>1, <2>2, <2>3 DEF MqttServiceInv, TypeOK, BrokerDrops, netVars, setVars, clientVars, stateVars
<1>2. BootInv'
  BY NamesAssumption DEF MqttServiceInv, TypeOK, BootInv, Bits, Configs, BrokerDrops, Notify, netVars, setVars, clientVars, brokerVars, stateVars
<1>3. ClientInv'
  BY NamesAssumption DEF MqttServiceInv, TypeOK, BootInv, ClientInv, Wanted, Reconfigures, Due, Bits, Configs, BrokerDrops, Notify, netVars, setVars, clientVars, brokerVars, stateVars
<1>4. ConnectionInv'
  BY NamesAssumption DEF MqttServiceInv, TypeOK, BootInv, ConnectionInv, ConnectedWasRaced, Due, Bits, Configs, BrokerDrops, Notify, netVars, setVars, clientVars, brokerVars, stateVars
<1>5. ShownInv'
  BY NamesAssumption DEF MqttServiceInv, TypeOK, BootInv, ConnectionInv, ShownInv, Due, Bits, Configs, BrokerDrops, Notify, netVars, setVars, clientVars, brokerVars, stateVars
<1> QED BY <1>1, <1>2, <1>3, <1>4, <1>5 DEF MqttServiceInv

LEMMA ReceiveCommandInv == ASSUME MqttServiceInv, NEW on \in BOOLEAN, ReceiveCommand(on) PROVE MqttServiceInv'
<1>1. TypeOK'
  BY NamesAssumption DEF MqttServiceInv, TypeOK, Bits, Configs, ReceiveCommand, Notify, netVars, setVars, clientVars, brokerVars, stateVars
<1>2. BootInv'
  BY NamesAssumption DEF MqttServiceInv, TypeOK, BootInv, Bits, Configs, ReceiveCommand, Notify, netVars, setVars, clientVars, brokerVars, stateVars
<1>3. ClientInv'
  BY NamesAssumption DEF MqttServiceInv, TypeOK, BootInv, ClientInv, Wanted, Reconfigures, Due, Bits, Configs, ReceiveCommand, Notify, netVars, setVars, clientVars, brokerVars, stateVars
<1>4. ConnectionInv'
  BY NamesAssumption DEF MqttServiceInv, TypeOK, ConnectionInv, ConnectedWasRaced, Due, Bits, Configs, ReceiveCommand, Notify, netVars, setVars, clientVars, brokerVars, stateVars
<1>5. ShownInv'
  BY NamesAssumption DEF MqttServiceInv, TypeOK, ConnectionInv, ShownInv, Due, Bits, Configs, ReceiveCommand, Notify, netVars, setVars, clientVars, brokerVars, stateVars
<1> QED BY <1>1, <1>2, <1>3, <1>4, <1>5 DEF MqttServiceInv

LEMMA ReceiveHaOnlineInv == ASSUME MqttServiceInv, ReceiveHaOnline PROVE MqttServiceInv'
<1>1. TypeOK'
  BY NamesAssumption DEF MqttServiceInv, TypeOK, Bits, Configs, ReceiveHaOnline, Notify, netVars, setVars, clientVars, brokerVars, stateVars
<1>2. BootInv'
  BY NamesAssumption DEF MqttServiceInv, TypeOK, BootInv, Bits, Configs, ReceiveHaOnline, Notify, netVars, setVars, clientVars, brokerVars, stateVars
<1>3. ClientInv'
  BY NamesAssumption DEF MqttServiceInv, TypeOK, BootInv, ClientInv, Wanted, Reconfigures, Due, Bits, Configs, ReceiveHaOnline, Notify, netVars, setVars, clientVars, brokerVars, stateVars
<1>4. ConnectionInv'
  BY NamesAssumption DEF MqttServiceInv, TypeOK, ConnectionInv, ConnectedWasRaced, Due, Bits, Configs, ReceiveHaOnline, Notify, netVars, setVars, clientVars, brokerVars, stateVars
<1>5. ShownInv'
  BY NamesAssumption DEF MqttServiceInv, TypeOK, ConnectionInv, ShownInv, Due, Bits, Configs, ReceiveHaOnline, Notify, netVars, setVars, clientVars, brokerVars, stateVars
<1> QED BY <1>1, <1>2, <1>3, <1>4, <1>5 DEF MqttServiceInv

-----------------------------------------------------------------------------
(* The worker *)

\* What is served comes after what goes before it.
LEMMA ServeFacts ==
    ASSUME MqttServiceInv, NEW b \in Bits, Serve(b)
    PROVE  /\ boot = "running" /\ b \in todo /\ todo' = todo \ {b}
           /\ b \notin {"reconfigure", "network"} => todo \cap {"reconfigure", "network"} = {} /\ plan = None
           /\ b \notin {"reconfigure", "network", "disconnected"} => "disconnected" \notin todo
           /\ b \in {"haOnline", "command", "output"} => "connected" \notin todo
BY DEF Serve, Before, Bits, MqttServiceInv, TypeOK, BootInv

\* Afterwards the relay is published, and has been shown if there was a connection.
LEMMA PublishFacts ==
    ASSUME MqttServiceInv, NEW force \in BOOLEAN, PublishRelay(force, relay)
    PROVE  /\ published' = relay /\ relay \in BOOLEAN
           /\ shown' \in BOOLEAN \cup {None}
           /\ session = "connected" => shown' = relay \/ (shown' = shown /\ published = relay)
           /\ session = "connected" /\ force => shown' = relay
<1>1. relay \in BOOLEAN /\ shown \in BOOLEAN \cup {None}
  BY DEF MqttServiceInv, TypeOK
<1>2. CASE force \/ published # relay
  BY <1>1, <1>2, Zenon DEF PublishRelay
<1>3. CASE ~(force \/ published # relay)
  BY <1>1, <1>3, Zenon DEF PublishRelay
<1> QED BY <1>1, <1>2, <1>3

LEMMA ServedTypes ==
    ASSUME MqttServiceInv, NEW b \in Bits, Serve(b), b \notin {"reconfigure", "network"},
           UNCHANGED <<netVars, setVars, clientVars, session>>, bits' \subseteq Bits,
           connected' \in BOOLEAN, connected' => client # Off, raced' \in BOOLEAN,
           subscribed' \in BOOLEAN, subscribed' => session = "connected",
           online' \in BOOLEAN, relay' \in BOOLEAN, published' \in BOOLEAN \cup {None},
           shown' \in BOOLEAN \cup {None}, command' \in BOOLEAN \cup {None}
    PROVE  TypeOK'
<1>1. todo' \subseteq Bits /\ plan' = None
  BY ServeFacts DEF MqttServiceInv, TypeOK, clientVars
<1> QED BY <1>1 DEF MqttServiceInv, TypeOK, netVars, setVars, clientVars

LEMMA TakeBitsInv == ASSUME MqttServiceInv, TakeBits PROVE MqttServiceInv'
<1>1. TypeOK'
  BY NamesAssumption DEF MqttServiceInv, TypeOK, Bits, Configs, TakeBits, netVars, setVars, clientVars, brokerVars, stateVars
<1>2. BootInv'
  BY NamesAssumption DEF MqttServiceInv, TypeOK, BootInv, Bits, Configs, TakeBits, netVars, setVars, clientVars, brokerVars, stateVars
<1>3. ClientInv'
  BY NamesAssumption DEF MqttServiceInv, TypeOK, BootInv, ClientInv, Wanted, Reconfigures, Due, Bits, Configs, TakeBits, netVars, setVars, clientVars, brokerVars, stateVars
<1>4. ConnectionInv'
  BY NamesAssumption DEF MqttServiceInv, TypeOK, BootInv, ConnectionInv, ConnectedWasRaced, Due, Bits, Configs, TakeBits, netVars, setVars, clientVars, brokerVars, stateVars
<1>5. ShownInv'
  BY NamesAssumption DEF MqttServiceInv, TypeOK, BootInv, ConnectionInv, ShownInv, Due, Bits, Configs, TakeBits, netVars, setVars, clientVars, brokerVars, stateVars
<1> QED BY <1>1, <1>2, <1>3, <1>4, <1>5 DEF MqttServiceInv

LEMMA PlanClientInv == ASSUME MqttServiceInv, PlanClient PROVE MqttServiceInv'
<1>1. TypeOK'
  BY NamesAssumption DEF MqttServiceInv, TypeOK, Bits, Configs, PlanClient, netVars, setVars, clientVars, brokerVars, stateVars
<1>2. BootInv'
  BY NamesAssumption DEF MqttServiceInv, TypeOK, BootInv, Bits, Configs, PlanClient, netVars, setVars, clientVars, brokerVars, stateVars
<1>3. ClientInv'
  BY NamesAssumption DEF MqttServiceInv, TypeOK, BootInv, ClientInv, Wanted, Reconfigures, Due, Bits, Configs, PlanClient, netVars, setVars, clientVars, brokerVars, stateVars
<1>4. ConnectionInv'
  BY NamesAssumption DEF MqttServiceInv, TypeOK, BootInv, ConnectionInv, ConnectedWasRaced, Due, Bits, Configs, PlanClient, netVars, setVars, clientVars, brokerVars, stateVars
<1>5. ShownInv'
  BY NamesAssumption DEF MqttServiceInv, TypeOK, BootInv, ConnectionInv, ShownInv, Due, Bits, Configs, PlanClient, netVars, setVars, clientVars, brokerVars, stateVars
<1> QED BY <1>1, <1>2, <1>3, <1>4, <1>5 DEF MqttServiceInv

LEMMA KeepClientInv == ASSUME MqttServiceInv, KeepClient PROVE MqttServiceInv'
<1>1. TypeOK'
  BY NamesAssumption DEF MqttServiceInv, TypeOK, Bits, Configs, KeepClient, Planned, MustStop, netVars, setVars, clientVars, brokerVars, stateVars
<1>2. BootInv'
  BY NamesAssumption DEF MqttServiceInv, TypeOK, BootInv, Bits, Configs, KeepClient, Planned, MustStop, netVars, setVars, clientVars, brokerVars, stateVars
<1>3. ClientInv'
  BY NamesAssumption DEF MqttServiceInv, TypeOK, BootInv, ClientInv, Wanted, Reconfigures, Due, Bits, Configs, KeepClient, Planned, MustStop, netVars, setVars, clientVars, brokerVars, stateVars
<1>4. ConnectionInv'
  BY NamesAssumption DEF MqttServiceInv, TypeOK, BootInv, ConnectionInv, ConnectedWasRaced, Due, Bits, Configs, KeepClient, Planned, MustStop, netVars, setVars, clientVars, brokerVars, stateVars
<1>5. ShownInv'
  BY NamesAssumption DEF MqttServiceInv, TypeOK, BootInv, ConnectionInv, ShownInv, Due, Bits, Configs, KeepClient, Planned, MustStop, netVars, setVars, clientVars, brokerVars, stateVars
<1> QED BY <1>1, <1>2, <1>3, <1>4, <1>5 DEF MqttServiceInv

LEMMA StopClientInv == ASSUME MqttServiceInv, StopClient PROVE MqttServiceInv'
<1>1. TypeOK'
  BY NamesAssumption DEF MqttServiceInv, TypeOK, Bits, Configs, StopClient, Planned, MustStop, Retire, netVars, setVars, clientVars, brokerVars, stateVars
<1>2. BootInv'
  BY NamesAssumption DEF MqttServiceInv, TypeOK, BootInv, Bits, Configs, StopClient, Planned, MustStop, Retire, netVars, setVars, clientVars, brokerVars, stateVars
<1>3. ClientInv'
  BY NamesAssumption DEF MqttServiceInv, TypeOK, BootInv, ClientInv, Wanted, Reconfigures, Due, Bits, Configs, StopClient, Planned, MustStop, Retire, netVars, setVars, clientVars, brokerVars, stateVars
<1>4. ConnectionInv'
  BY NamesAssumption DEF MqttServiceInv, TypeOK, BootInv, ConnectionInv, ConnectedWasRaced, Due, Bits, Configs, StopClient, Planned, MustStop, Retire, netVars, setVars, clientVars, brokerVars, stateVars
<1>5. ShownInv'
  BY NamesAssumption DEF MqttServiceInv, TypeOK, BootInv, ConnectionInv, ShownInv, Due, Bits, Configs, StopClient, Planned, MustStop, Retire, netVars, setVars, clientVars, brokerVars, stateVars
<1> QED BY <1>1, <1>2, <1>3, <1>4, <1>5 DEF MqttServiceInv

LEMMA StartClientInv == ASSUME MqttServiceInv, NEW ok \in BOOLEAN, StartClient(ok) PROVE MqttServiceInv'
<1>1. TypeOK'
  <2>1. /\ plan \in Configs \ {Off} /\ plan' = None /\ todo' \subseteq Bits
        /\ ok => client' = plan /\ session' = "connecting"
        /\ ~ok => client' = Off /\ session' = "none"
    BY DEF MqttServiceInv, TypeOK, StartClient, Planned
  <2>2. /\ online' \in BOOLEAN /\ connected' \in BOOLEAN /\ ~connected' /\ raced' \in BOOLEAN
        /\ published' = None /\ subscribed' \in BOOLEAN /\ ~subscribed' /\ startFailed' \in BOOLEAN
    BY DEF MqttServiceInv, TypeOK, StartClient, Retire
  <2>3. /\ client' \in Configs /\ session' \in {"none", "connecting", "connected"}
        /\ session' = "none" <=> client' = Off
    BY <2>1 DEF Configs
  <2> QED BY <2>1, <2>2, <2>3, NamesAssumption
          DEF MqttServiceInv, TypeOK, StartClient, netVars, setVars
<1>2. BootInv'
  BY NamesAssumption DEF MqttServiceInv, TypeOK, BootInv, Bits, Configs, StartClient, Planned, MustStop, Retire, netVars, setVars, clientVars, brokerVars, stateVars
<1>3. ClientInv'
  <2>1. /\ plan' = None /\ "reconfigure" \notin todo' /\ "network" \notin todo'
        /\ client' \in {plan, Off} /\ (ok => client' = plan) /\ (startFailed' <=> ~ok)
        /\ UNCHANGED <<wifiConnected, config, telling, bits>>
    BY DEF StartClient, Planned, netVars, setVars
  <2>2. plan # None
    BY DEF StartClient, Planned
  <2> QED BY <2>1, <2>2 DEF MqttServiceInv, ClientInv, Wanted, Reconfigures, Due
<1>4. ConnectionInv'
  BY NamesAssumption DEF MqttServiceInv, TypeOK, BootInv, ConnectionInv, ConnectedWasRaced, Due, Bits, Configs, StartClient, Planned, MustStop, Retire, netVars, setVars, clientVars, brokerVars, stateVars
<1>5. ShownInv'
  BY NamesAssumption DEF MqttServiceInv, TypeOK, BootInv, ConnectionInv, ShownInv, Due, Bits, Configs, StartClient, Planned, MustStop, Retire, netVars, setVars, clientVars, brokerVars, stateVars
<1> QED BY <1>1, <1>2, <1>3, <1>4, <1>5 DEF MqttServiceInv

LEMMA ServeDisconnectedInv == ASSUME MqttServiceInv, ServeDisconnected PROVE MqttServiceInv'
<1>1. TypeOK'
  <2>1. /\ connected' \in BOOLEAN /\ (connected' => client # Off) /\ raced' \in BOOLEAN
        /\ subscribed' \in BOOLEAN /\ (subscribed' => session = "connected") /\ online' \in BOOLEAN
    BY DEF MqttServiceInv, TypeOK, ServeDisconnected, brokerVars, stateVars, clientVars
  <2>2. /\ bits' \subseteq Bits /\ relay' \in BOOLEAN /\ command' \in BOOLEAN \cup {None}
        /\ published' \in BOOLEAN \cup {None} /\ shown' \in BOOLEAN \cup {None}
    BY DEF MqttServiceInv, TypeOK, Bits, ServeDisconnected, stateVars
  <2>3. Serve("disconnected") /\ "disconnected" \in Bits /\ UNCHANGED <<netVars, setVars, clientVars, session>>
    BY DEF ServeDisconnected, Bits, brokerVars
  <2> QED BY <2>1, <2>2, <2>3, ServedTypes
<1>2. BootInv'
  BY NamesAssumption, ServeFacts DEF MqttServiceInv, TypeOK, BootInv, Bits, Configs, ServeDisconnected, netVars, setVars, clientVars, brokerVars, stateVars
<1>3. ClientInv'
  BY NamesAssumption, ServeFacts DEF MqttServiceInv, TypeOK, BootInv, ClientInv, Wanted, Reconfigures, Due, Bits, Configs, ServeDisconnected, netVars, setVars, clientVars, brokerVars, stateVars
<1>4. ConnectionInv'
  BY NamesAssumption, ServeFacts DEF MqttServiceInv, TypeOK, BootInv, ConnectionInv, ConnectedWasRaced, Due, Bits, Configs, ServeDisconnected, netVars, setVars, clientVars, brokerVars, stateVars
<1>5. ShownInv'
  BY NamesAssumption, ServeFacts DEF MqttServiceInv, TypeOK, BootInv, ConnectionInv, ShownInv, Due, Bits, Configs, ServeDisconnected, netVars, setVars, clientVars, brokerVars, stateVars
<1> QED BY <1>1, <1>2, <1>3, <1>4, <1>5 DEF MqttServiceInv

LEMMA ServeConnectedInv == ASSUME MqttServiceInv, ServeConnected PROVE MqttServiceInv'
<1>1. TypeOK'
  <2>1. /\ connected' \in BOOLEAN /\ (connected' => client # Off) /\ raced' \in BOOLEAN
        /\ subscribed' \in BOOLEAN /\ (subscribed' => session = "connected") /\ online' \in BOOLEAN
    BY DEF MqttServiceInv, TypeOK, ServeConnected, brokerVars, stateVars, clientVars
  <2>2. /\ bits' \subseteq Bits /\ relay' \in BOOLEAN /\ command' \in BOOLEAN \cup {None}
        /\ published' \in BOOLEAN \cup {None} /\ shown' \in BOOLEAN \cup {None}
    BY PublishFacts DEF MqttServiceInv, TypeOK, Bits, ServeConnected, stateVars
  <2>3. Serve("connected") /\ "connected" \in Bits /\ UNCHANGED <<netVars, setVars, clientVars, session>>
    BY DEF ServeConnected, Bits, brokerVars
  <2> QED BY <2>1, <2>2, <2>3, ServedTypes
<1>2. BootInv'
  BY NamesAssumption, ServeFacts DEF MqttServiceInv, TypeOK, BootInv, Bits, Configs, ServeConnected, PublishRelay, netVars, setVars, clientVars, brokerVars, stateVars
<1>3. ClientInv'
  BY NamesAssumption, ServeFacts DEF MqttServiceInv, TypeOK, BootInv, ClientInv, Wanted, Reconfigures, Due, Bits, Configs, ServeConnected, PublishRelay, netVars, setVars, clientVars, brokerVars, stateVars
<1>4. ConnectionInv'
  BY NamesAssumption, ServeFacts DEF MqttServiceInv, TypeOK, BootInv, ConnectionInv, ConnectedWasRaced, Due, Bits, Configs, ServeConnected, PublishRelay, netVars, setVars, clientVars, brokerVars, stateVars
<1>5. ShownInv'
  <2>1. /\ "connected" \in Bits /\ Serve("connected") /\ published \in BOOLEAN \cup {None}
        /\ None \notin BOOLEAN
    BY NamesAssumption DEF ServeConnected, Bits, MqttServiceInv, TypeOK
  <2> QED BY <2>1, ServeFacts, PublishFacts
          DEF MqttServiceInv, ConnectionInv, ShownInv, Due, ServeConnected, netVars, setVars, clientVars, brokerVars, stateVars
<1> QED BY <1>1, <1>2, <1>3, <1>4, <1>5 DEF MqttServiceInv

LEMMA ServeHaOnlineInv == ASSUME MqttServiceInv, ServeHaOnline PROVE MqttServiceInv'
<1>1. TypeOK'
  <2>1. /\ connected' \in BOOLEAN /\ (connected' => client # Off) /\ raced' \in BOOLEAN
        /\ subscribed' \in BOOLEAN /\ (subscribed' => session = "connected") /\ online' \in BOOLEAN
    BY DEF MqttServiceInv, TypeOK, ServeHaOnline, brokerVars, stateVars, clientVars
  <2>2. /\ bits' \subseteq Bits /\ relay' \in BOOLEAN /\ command' \in BOOLEAN \cup {None}
        /\ published' \in BOOLEAN \cup {None} /\ shown' \in BOOLEAN \cup {None}
    BY PublishFacts DEF MqttServiceInv, TypeOK, Bits, ServeHaOnline, stateVars
  <2>3. Serve("haOnline") /\ "haOnline" \in Bits /\ UNCHANGED <<netVars, setVars, clientVars, session>>
    BY DEF ServeHaOnline, Bits, brokerVars
  <2> QED BY <2>1, <2>2, <2>3, ServedTypes
<1>2. BootInv'
  BY NamesAssumption, ServeFacts DEF MqttServiceInv, TypeOK, BootInv, Bits, Configs, ServeHaOnline, PublishRelay, netVars, setVars, clientVars, brokerVars, stateVars
<1>3. ClientInv'
  BY NamesAssumption, ServeFacts DEF MqttServiceInv, TypeOK, BootInv, ClientInv, Wanted, Reconfigures, Due, Bits, Configs, ServeHaOnline, PublishRelay, netVars, setVars, clientVars, brokerVars, stateVars
<1>4. ConnectionInv'
  BY NamesAssumption, ServeFacts DEF MqttServiceInv, TypeOK, BootInv, ConnectionInv, ConnectedWasRaced, Due, Bits, Configs, ServeHaOnline, PublishRelay, netVars, setVars, clientVars, brokerVars, stateVars
<1>5. ShownInv'
  <2>1. /\ "haOnline" \in Bits /\ Serve("haOnline") /\ published \in BOOLEAN \cup {None}
        /\ None \notin BOOLEAN
    BY NamesAssumption DEF ServeHaOnline, Bits, MqttServiceInv, TypeOK
  <2> QED BY <2>1, ServeFacts, PublishFacts
          DEF MqttServiceInv, ConnectionInv, ShownInv, Due, ServeHaOnline, netVars, setVars, clientVars, brokerVars, stateVars
<1> QED BY <1>1, <1>2, <1>3, <1>4, <1>5 DEF MqttServiceInv

LEMMA ServeCommandInv == ASSUME MqttServiceInv, NEW refused \in BOOLEAN, ServeCommand(refused) PROVE MqttServiceInv'
<1>1. TypeOK'
  <2>1. /\ connected' \in BOOLEAN /\ (connected' => client # Off) /\ raced' \in BOOLEAN
        /\ subscribed' \in BOOLEAN /\ (subscribed' => session = "connected") /\ online' \in BOOLEAN
    BY DEF MqttServiceInv, TypeOK, ServeCommand, brokerVars, stateVars, clientVars
  <2>2. /\ bits' \subseteq Bits /\ relay' \in BOOLEAN /\ command' \in BOOLEAN \cup {None}
        /\ published' \in BOOLEAN \cup {None} /\ shown' \in BOOLEAN \cup {None}
    BY PublishFacts DEF MqttServiceInv, TypeOK, Bits, ServeCommand, stateVars
  <2>3. Serve("command") /\ "command" \in Bits /\ UNCHANGED <<netVars, setVars, clientVars, session>>
    BY DEF ServeCommand, Bits, brokerVars
  <2> QED BY <2>1, <2>2, <2>3, ServedTypes
<1>2. BootInv'
  BY NamesAssumption, ServeFacts DEF MqttServiceInv, TypeOK, BootInv, Bits, Configs, ServeCommand, PublishRelay, netVars, setVars, clientVars, brokerVars, stateVars
<1>3. ClientInv'
  BY NamesAssumption, ServeFacts DEF MqttServiceInv, TypeOK, BootInv, ClientInv, Wanted, Reconfigures, Due, Bits, Configs, ServeCommand, PublishRelay, netVars, setVars, clientVars, brokerVars, stateVars
<1>4. ConnectionInv'
  BY NamesAssumption, ServeFacts DEF MqttServiceInv, TypeOK, BootInv, ConnectionInv, ConnectedWasRaced, Due, Bits, Configs, ServeCommand, PublishRelay, netVars, setVars, clientVars, brokerVars, stateVars
<1>5. ShownInv'
  <2>1. /\ "command" \in Bits /\ Serve("command") /\ published \in BOOLEAN \cup {None}
        /\ None \notin BOOLEAN
    BY NamesAssumption DEF ServeCommand, Bits, MqttServiceInv, TypeOK
  <2>2. /\ todo' = todo \ {"command"} /\ "connected" \notin todo
        /\ UNCHANGED <<telling, session, subscribed, online, connected>>
    BY <2>1, ServeFacts DEF ServeCommand, setVars, brokerVars
  <2>3. CASE refused
    <3>1. PublishRelay(TRUE, relay) /\ UNCHANGED <<relay, bits>>
      BY <2>3 DEF ServeCommand
    <3>2. published' = relay /\ relay \in BOOLEAN /\ (session = "connected" => shown' = relay)
      BY <3>1, PublishFacts
    <3>3. ~Due("connected")' => ~Due("connected")
      BY <2>2, <3>1 DEF Due
    <3> QED BY <2>1, <2>2, <3>1, <3>2, <3>3 DEF MqttServiceInv, ShownInv
  <2>4. CASE ~refused
    BY <2>1, <2>2, <2>4 DEF MqttServiceInv, ShownInv, Due, ServeCommand
  <2> QED BY <2>3, <2>4
<1> QED BY <1>1, <1>2, <1>3, <1>4, <1>5 DEF MqttServiceInv

LEMMA ServeOutputInv == ASSUME MqttServiceInv, ServeOutput PROVE MqttServiceInv'
<1>1. TypeOK'
  <2>1. /\ connected' \in BOOLEAN /\ (connected' => client # Off) /\ raced' \in BOOLEAN
        /\ subscribed' \in BOOLEAN /\ (subscribed' => session = "connected") /\ online' \in BOOLEAN
    BY DEF MqttServiceInv, TypeOK, ServeOutput, brokerVars, stateVars, clientVars
  <2>2. /\ bits' \subseteq Bits /\ relay' \in BOOLEAN /\ command' \in BOOLEAN \cup {None}
        /\ published' \in BOOLEAN \cup {None} /\ shown' \in BOOLEAN \cup {None}
    BY PublishFacts DEF MqttServiceInv, TypeOK, Bits, ServeOutput, stateVars
  <2>3. Serve("output") /\ "output" \in Bits /\ UNCHANGED <<netVars, setVars, clientVars, session>>
    BY DEF ServeOutput, Bits, brokerVars
  <2> QED BY <2>1, <2>2, <2>3, ServedTypes
<1>2. BootInv'
  BY NamesAssumption, ServeFacts DEF MqttServiceInv, TypeOK, BootInv, Bits, Configs, ServeOutput, PublishRelay, netVars, setVars, clientVars, brokerVars, stateVars
<1>3. ClientInv'
  BY NamesAssumption, ServeFacts DEF MqttServiceInv, TypeOK, BootInv, ClientInv, Wanted, Reconfigures, Due, Bits, Configs, ServeOutput, PublishRelay, netVars, setVars, clientVars, brokerVars, stateVars
<1>4. ConnectionInv'
  BY NamesAssumption, ServeFacts DEF MqttServiceInv, TypeOK, BootInv, ConnectionInv, ConnectedWasRaced, Due, Bits, Configs, ServeOutput, PublishRelay, netVars, setVars, clientVars, brokerVars, stateVars
<1>5. ShownInv'
  <2>1. /\ "output" \in Bits /\ Serve("output") /\ published \in BOOLEAN \cup {None}
        /\ None \notin BOOLEAN
    BY NamesAssumption DEF ServeOutput, Bits, MqttServiceInv, TypeOK
  <2> QED BY <2>1, ServeFacts, PublishFacts
          DEF MqttServiceInv, ConnectionInv, ShownInv, Due, ServeOutput, netVars, setVars, clientVars, brokerVars, stateVars
<1> QED BY <1>1, <1>2, <1>3, <1>4, <1>5 DEF MqttServiceInv

LEMMA IgnoreInv == ASSUME MqttServiceInv, NEW b \in {"connected", "haOnline", "command", "output"}, Ignore(b) PROVE MqttServiceInv'
<1>1. TypeOK'
  <2>1. Serve(b) /\ b \in Bits /\ UNCHANGED <<netVars, setVars, clientVars, session>>
    BY DEF Ignore, Bits, brokerVars
  <2> QED BY <2>1, ServedTypes DEF MqttServiceInv, TypeOK, Ignore, brokerVars, stateVars
<1>2. BootInv'
  BY NamesAssumption, ServeFacts DEF MqttServiceInv, TypeOK, BootInv, Bits, Configs, Ignore, netVars, setVars, clientVars, brokerVars, stateVars
<1>3. ClientInv'
  BY NamesAssumption, ServeFacts DEF MqttServiceInv, TypeOK, BootInv, ClientInv, Wanted, Reconfigures, Due, Bits, Configs, Ignore, netVars, setVars, clientVars, brokerVars, stateVars
<1>4. ConnectionInv'
  BY NamesAssumption, ServeFacts DEF MqttServiceInv, TypeOK, BootInv, ConnectionInv, ConnectedWasRaced, Due, Bits, Configs, Ignore, netVars, setVars, clientVars, brokerVars, stateVars
<1>5. ShownInv'
  BY NamesAssumption, ServeFacts DEF MqttServiceInv, TypeOK, BootInv, ConnectionInv, ShownInv, Due, Bits, Configs, Ignore, netVars, setVars, clientVars, brokerVars, stateVars
<1> QED BY <1>1, <1>2, <1>3, <1>4, <1>5 DEF MqttServiceInv

-----------------------------------------------------------------------------
(* The service *)

LEMMA MqttServiceInitInv == Init => MqttServiceInv
<1> SUFFICES ASSUME Init PROVE MqttServiceInv
  OBVIOUS
<1>1. TypeOK
  <2>1. /\ wifiConnected \in BOOLEAN /\ missed \in BOOLEAN /\ startFailed \in BOOLEAN
        /\ subscribed \in BOOLEAN /\ connected \in BOOLEAN /\ raced \in BOOLEAN
        /\ relay \in BOOLEAN /\ online \in BOOLEAN
    BY DEF Init
  <2> QED BY <2>1 DEF Init, TypeOK, Configs
<1>2. BootInv /\ ClientInv /\ ConnectionInv /\ ShownInv
  BY NamesAssumption
  DEF Init, BootInv, ClientInv, Reconfigures, Due, ConnectionInv, ConnectedWasRaced, ShownInv
<1> QED BY <1>1, <1>2 DEF MqttServiceInv

LEMMA MqttServiceNextInv == MqttServiceInv /\ [Next]_vars => MqttServiceInv'
<1> SUFFICES ASSUME MqttServiceInv, [Next]_vars PROVE MqttServiceInv'
  OBVIOUS
<1>1. CASE Boot
  BY <1>1, ReadWifiInv, RegisterHandlersInv, StartWorkerInv DEF Boot
<1>2. CASE Worker
  BY <1>2, TakeBitsInv, PlanClientInv, KeepClientInv, StopClientInv, StartClientInv,
     ServeDisconnectedInv, ServeConnectedInv, ServeHaOnlineInv, ServeCommandInv, ServeOutputInv,
     IgnoreInv
  DEF Worker
<1>3. CASE Attempt
  BY <1>3, BrokerConnectsInv, AttemptFailsInv DEF Attempt
<1>4. CASE Others
  BY <1>4, GetAddressInv, DisconnectInv, LoseAddressInv, SwitchRelayInv, SetConfigInv,
     BrokerDropsInv, ReceiveHaOnlineInv, ReceiveCommandInv
  DEF Others
<1>5. CASE \E b \in {"reconfigure", "output"} : Tell(b)
  BY <1>5, TellInv
<1>6. CASE UNCHANGED vars
  BY <1>6 DEF vars, MqttServiceInv, TypeOK, BootInv, ClientInv, Wanted, Reconfigures, Due,
              ConnectionInv, ConnectedWasRaced, ShownInv
<1> QED BY <1>1, <1>2, <1>3, <1>4, <1>5, <1>6 DEF Next

\* Once the worker has nothing left to do there is a client exactly when one is wanted, with
\* the settings in force, and what is shown of its connection is so, in every behaviour.
THEOREM ServiceCorrect == Spec => []ServiceIsAsConfigured
<1>1. MqttServiceInv => ServiceIsAsConfigured
  BY DEF MqttServiceInv, TypeOK, BootInv, ClientInv, ConnectionInv, Wanted, Reconfigures, Due,
         ServiceIsAsConfigured, ClientIsAsConfigured, ConnectionIsTrue, OnlineOnlyWhileConnected, Quiet
<1> QED BY <1>1, MqttServiceInitInv, MqttServiceNextInv, PTL DEF Spec

\* A connection is never overlooked, and then the broker shows the relay as it is.
THEOREM BrokerCorrect == Spec => []BrokerShowsRelay
<1>1. MqttServiceInv => BrokerShowsRelay
  BY DEF MqttServiceInv, ShownInv, Due, BrokerShowsRelay, Quiet
<1> QED BY <1>1, MqttServiceInitInv, MqttServiceNextInv, PTL DEF Spec
====
