------------------------------ MODULE Network ------------------------------
(***************************************************************************)
(* Wi-Fi and the TCP session that depends on it: the event handlers of     *)
(* wifi_connection.c, the connection state of wifi_manager.c, and the task *)
(* and session flag of tcp_server.c.  The driver posts events to the       *)
(* system event loop, whose task runs wifi_connection's handler (registered*)
(* for every event of a base) before tcp_server's.  app_main is blocked in *)
(* wifi_connection_init until an address or the last failed attempt, and   *)
(* starts the server after that.  The server serves one client at a time   *)
(* and lets one more wait in the backlog of its listening socket.          *)
(***************************************************************************)
EXTENDS Naturals, Sequences

CONSTANTS
    MaxRetries,     \* WIFI_CONNECTION_MAX_RETRIES
    MaxEvents       \* bound: events that wait in the system event loop

ASSUME BoundAssumption == MaxRetries \in Nat /\ MaxEvents \in Nat \ {0}

VARIABLES
    radio,        \* the driver: what the station is doing
    address,      \* the network interface has an address it has not given up
    events,       \* the system event loop
    losing,       \* the loss tcp_server's handler has not heard of yet
    retryCount,   \* retry_count
    isConnected,  \* is_connected of wifi_manager
    cleared,      \* history: WIFI:CLEAR reset is_connected
    led,          \* the Wi-Fi status LED
    main,         \* app_main around wifi_connection_init
    server,       \* where tcp_server_task is
    active,       \* s_session_active
    client,       \* the connection the server holds, "old" once the link was lost
    waiting,      \* the connection in the backlog
    raced         \* history: the session was opened for an old connection

vars == <<radio, address, events, losing, retryCount, isConnected, cleared, led,
          main, server, active, client, waiting, raced>>

driverVars == <<radio, address>>
wifiVars == <<retryCount, isConnected, cleared, led>>
sessionVars == <<active, client, waiting, raced>>

Events == {"start", "disconnected", "lostIp", "gotIp"}
Losses == {"disconnected", "lostIp"}
Connection == {"none", "new", "old"}

TypeOK ==
    /\ radio \in {"idle", "connecting", "joined", "up", "expired"}
    /\ address \in BOOLEAN /\ (radio \in {"up", "expired"} => address)
    /\ events \in Seq(Events) /\ Len(events) <= MaxEvents
    /\ losing \in BOOLEAN
    /\ retryCount \in 0..MaxRetries
    /\ isConnected \in BOOLEAN /\ cleared \in BOOLEAN
    /\ led \in {"off", "connecting", "connected", "failed"}
    /\ main \in {"waiting", "connected", "failed", "done"}
    /\ server \in {"none", "wait", "open", "check", "accept", "accepted", "serve", "recv"}
    /\ server # "none" => main = "done"
    /\ active \in BOOLEAN /\ raced \in BOOLEAN
    /\ client \in Connection /\ waiting \in Connection
    /\ client # "none" <=> server \in {"accepted", "serve", "recv"}

\* esp_wifi_start has been called.
Init ==
    /\ radio = "idle" /\ address = FALSE
    /\ events = <<"start">> /\ losing = FALSE
    /\ retryCount = 0 /\ isConnected = FALSE /\ cleared = FALSE /\ led = "off"
    /\ main = "waiting"
    /\ server = "none" /\ active = FALSE /\ client = "none" /\ waiting = "none"
    /\ raced = FALSE

------------------------------------------------------------------------------
(* The driver and the peers.                                                *)

Post(e) == Len(events) < MaxEvents /\ events' = Append(events, e)

\* A connection made before the link was lost is old.
Aged(c) == IF c = "new" THEN "old" ELSE c

Join ==
    /\ radio = "connecting" /\ radio' = "joined"
    /\ UNCHANGED <<address, events, losing, wifiVars, main, server, sessionVars>>

GetAddress ==
    /\ radio \in {"joined", "expired"} /\ radio' = "up"
    /\ address' = TRUE
    /\ Post("gotIp")
    /\ UNCHANGED <<losing, wifiVars, main, server, sessionVars>>

\* An attempt fails, or the access point goes away.
Drop ==
    /\ radio # "idle" /\ radio' = "idle"
    /\ Post("disconnected")
    /\ client' = Aged(client) /\ waiting' = Aged(waiting)
    /\ UNCHANGED <<address, losing, wifiVars, main, server, active, raced>>

LeaseExpires ==
    /\ radio = "up" /\ radio' = "expired"
    /\ UNCHANGED <<address, events, losing, wifiVars, main, server, sessionVars>>

\* The address of a link that went down, or of an expired lease, is given up,
\* and the connections made to it are aborted.
LoseAddress ==
    /\ address /\ radio # "up"
    /\ address' = FALSE
    /\ radio' = IF radio = "expired" THEN "joined" ELSE radio
    /\ Post("lostIp")
    /\ client' = Aged(client) /\ waiting' = "none"
    /\ UNCHANGED <<losing, wifiVars, main, server, active, raced>>

\* A listening socket takes one connection while the task is busy with another.
ClientArrives ==
    /\ radio = "up" /\ server \in {"check", "accept", "accepted", "serve", "recv"}
    /\ waiting = "none" /\ waiting' = "new"
    /\ UNCHANGED <<driverVars, events, losing, wifiVars, main, server, active, client, raced>>

------------------------------------------------------------------------------
(* The event loop task.                                                     *)

Handle(e) ==
    /\ ~losing /\ events # <<>> /\ Head(events) = e
    /\ events' = Tail(events)
    /\ losing' = (e \in Losses /\ main = "done")
    /\ UNCHANGED <<address, server, sessionVars>>

\* esp_wifi_connect is called from the handlers below.
Connect == radio' = IF radio = "idle" THEN "connecting" ELSE radio

HandleStart ==
    /\ Handle("start")
    /\ retryCount' = 0 /\ led' = "connecting"
    /\ Connect
    /\ UNCHANGED <<isConnected, cleared, main>>

HandleDisconnected ==
    /\ Handle("disconnected")
    /\ isConnected' = FALSE
    /\ \/ /\ retryCount < MaxRetries
          /\ retryCount' = retryCount + 1 /\ led' = "connecting"
          /\ Connect
          /\ UNCHANGED main
       \/ /\ retryCount = MaxRetries
          /\ led' = "failed"
          /\ main' = IF main = "waiting" THEN "failed" ELSE main
          /\ UNCHANGED <<radio, retryCount>>
    /\ UNCHANGED cleared

\* Mutant: a lost address shows on the LED only.
HandleLostIpLedOnly ==
    /\ Handle("lostIp")
    /\ led' = IF led = "connected" THEN "off" ELSE led
    /\ UNCHANGED <<radio, retryCount, isConnected, cleared, main>>

HandleLostIp ==
    /\ Handle("lostIp")
    /\ isConnected' = FALSE
    /\ led' = IF led = "connected" THEN "off" ELSE led
    /\ UNCHANGED <<radio, retryCount, cleared, main>>

HandleGotIp ==
    /\ Handle("gotIp")
    /\ retryCount' = 0 /\ isConnected' = TRUE /\ cleared' = FALSE /\ led' = "connected"
    /\ main' = IF main = "waiting" THEN "connected" ELSE main
    /\ UNCHANGED radio

\* tcp_server's handler: an old client must not look active after a reconnect.
TellServer ==
    /\ losing /\ losing' = FALSE
    /\ active' = FALSE
    /\ UNCHANGED <<driverVars, events, wifiVars, main, server, client, waiting, raced>>

------------------------------------------------------------------------------
(* The other tasks.                                                         *)

\* wifi_connection_init returns, and tcp_server_init starts the server.
StartServer ==
    /\ main \in {"connected", "failed"} /\ main' = "done"
    /\ led' = IF main = "failed" THEN "failed" ELSE led
    /\ server' = "wait" /\ active' = FALSE
    /\ UNCHANGED <<driverVars, events, losing, retryCount, isConnected, cleared,
                   client, waiting, raced>>

\* WIFI:CLEAR forgets the credentials and leaves the link up; USB takes it while app_main waits.
ClearCredentials ==
    /\ isConnected' = FALSE /\ cleared' = TRUE
    /\ UNCHANGED <<driverVars, events, losing, retryCount, led, main, server, sessionVars>>

ServerMoves(from, to) ==
    /\ server = from /\ server' = to
    /\ UNCHANGED <<driverVars, events, losing, wifiVars, main>>

\* Mutant: the server waits for an event instead of polling the state.
SeeWifiOnEvent ==
    /\ isConnected /\ events # <<>>
    /\ ServerMoves("wait", "open") /\ UNCHANGED sessionVars

SeeWifi ==
    /\ isConnected
    /\ ServerMoves("wait", "open") /\ UNCHANGED sessionVars

OpenListener ==
    /\ ServerMoves("open", "check") /\ UNCHANGED sessionVars

FailToOpen ==
    /\ ServerMoves("open", "wait") /\ UNCHANGED sessionVars

\* Closing the listening socket ends what waits in its backlog.
LoopWhileConnected ==
    \/ /\ isConnected
       /\ ServerMoves("check", "accept") /\ UNCHANGED sessionVars
    \/ /\ ~isConnected
       /\ ServerMoves("check", "wait")
       /\ waiting' = "none" /\ UNCHANGED <<active, client, raced>>

Accept ==
    /\ waiting # "none" /\ waiting' = "none"
    /\ ServerMoves("accept", "accepted")
    /\ client' = waiting /\ UNCHANGED <<active, raced>>

AcceptFails ==
    /\ ServerMoves("accept", "check") /\ UNCHANGED sessionVars

StartSession ==
    /\ ServerMoves("accepted", "serve")
    /\ active' = TRUE
    /\ raced' = (client = "old" /\ ~losing /\ \A i \in DOMAIN events : events[i] \notin Losses)
    /\ UNCHANGED <<client, waiting>>

EndSession(from) ==
    /\ ServerMoves(from, "check")
    /\ active' = FALSE /\ client' = "none" /\ raced' = FALSE
    /\ UNCHANGED waiting

SessionIsActive == isConnected /\ active

CheckSession ==
    \/ /\ SessionIsActive
       /\ ServerMoves("serve", "recv") /\ UNCHANGED sessionVars
    \/ /\ ~SessionIsActive
       /\ EndSession("serve")

\* recv times out, or commands are handled and answered.
ServeOnce == ServerMoves("recv", "serve") /\ UNCHANGED sessionVars

SendFails ==
    /\ ServerMoves("recv", "serve")
    /\ active' = FALSE /\ UNCHANGED <<client, waiting, raced>>

\* The peer closes, recv fails, or the peer sends a lone Ctrl-C.
ClientEnds == EndSession("recv")

------------------------------------------------------------------------------
HandleEvent == HandleStart \/ HandleDisconnected \/ HandleLostIp \/ HandleGotIp \/ TellServer

ServerStep ==
    \/ SeeWifi \/ OpenListener \/ FailToOpen \/ LoopWhileConnected \/ Accept \/ AcceptFails
    \/ StartSession \/ CheckSession \/ ServeOnce \/ SendFails \/ ClientEnds

Environment == Join \/ GetAddress \/ Drop \/ LeaseExpires \/ LoseAddress \/ ClientArrives

Next == Environment \/ HandleEvent \/ StartServer \/ ClearCredentials \/ ServerStep

Spec == Init /\ [][Next]_vars

\* The driver ends an attempt to connect one way or the other.  DHCP asks for ever: an
\* access point need neither answer it nor drop the station.  A lease need not expire,
\* and nobody need connect.
Fairness ==
    /\ WF_vars(HandleEvent) /\ WF_vars(StartServer) /\ WF_vars(ServerStep)
    /\ WF_vars(radio = "connecting" /\ (Join \/ Drop))
    /\ SF_vars(OpenListener)

FairSpec == Spec /\ Fairness

------------------------------------------------------------------------------
Quiet == events = <<>> /\ ~losing

LossIsComing == losing \/ \E i \in DOMAIN events : events[i] \in Losses

\* Once every event is handled, is_connected and the LED say what the driver
\* last reported, whatever came in between; WIFI:CLEAR sets is_connected apart.
StatusIsCurrent ==
    Quiet =>
        /\ ~cleared => (isConnected <=> radio \in {"up", "expired"})
        /\ led = "connected" <=> radio \in {"up", "expired"}
        /\ led = "failed" => radio = "idle"

\* The session flag is never left set for a client from before the last loss of
\* the link, unless the session was opened after the loss had been handled.
OldSessionWasRaced == active /\ client = "old" => LossIsComing \/ raced

\* What is shown of the link, and of the session that runs over it.
StatusIsTrue == StatusIsCurrent /\ OldSessionWasRaced

\* app_main gets past wifi_connection_init, however often the link comes and
\* goes before it has an address, unless an access point keeps the station and
\* never answers its DHCP.
Stranded == radio = "joined" /\ ~address
BootFinishes == <>(main = "done") \/ <>[]Stranded

\* A session that has lost its flag ends, also when the link is back at once.
\* The flag can come back only with the next client.
LostSessionEnds == (server \in {"serve", "recv"} /\ ~active) ~> server \in {"check", "wait"}

\* When the link stays up the server listens again in the end, through every
\* loss, failed listener and ended session before that.
ServerReturns == <>[]isConnected => <>[](server \notin {"none", "wait", "open"})

\* Start-up, sessions and the listener all get past every loss of the link.
NetworkRecovers == BootFinishes /\ LostSessionEnds /\ ServerReturns

\* tcp_server.c:67 says the flag is cleared to "Keep an old client from
\* appearing active after a quick WiFi reconnect."
OldClientIsInactive == SessionIsActive /\ client = "old" => LossIsComing

\* .doc/scpi-ref.md:265 says "`isConnected` is `1` when connected and `0`
\* otherwise."
ConnectedIsReported == Quiet => (isConnected <=> radio \in {"up", "expired"})
=============================================================================
