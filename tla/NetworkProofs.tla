---------------------------- MODULE NetworkProofs ----------------------------
(***************************************************************************)
(* What is shown of the two transports of SCPI.                            *)
(*                                                                         *)
(* The link and the TCP session, for any number of retries and of events   *)
(* that wait.  The argument: whatever is left in the event loop, its last  *)
(* event is what the driver did last; and the driver does not move again   *)
(* before wifi_connection has handled a disconnection.                     *)
(*                                                                         *)
(* USB, for any sizes and limits.  The argument is at the head of its      *)
(* part.                                                                   *)
(***************************************************************************)
EXTENDS Network, UsbTransport, SequenceTheorems, TLAPS

HasAddress == radio \in {"up", "expired"}
Waits(e) == \E i \in DOMAIN events : events[i] = e

\* The driver starts once, and after a disconnection it waits to be told to connect.
DriverInv ==
    /\ \A i \in DOMAIN events : events[i] = "start" =>
           /\ events = <<"start">> /\ radio = "idle" /\ ~address
           /\ ~isConnected /\ led = "off" /\ main = "waiting"
    /\ \A i \in DOMAIN events : events[i] = "disconnected" =>
           radio = "idle" /\ \A j \in DOMAIN events : j > i => events[j] = "lostIp"
    /\ led = "failed" \/ main = "failed" =>
           radio = "idle" /\ \A i \in DOMAIN events : events[i] = "lostIp"

\* The last event tells of the link what is so; with none left what is shown does.
EventsInv ==
    /\ events # <<>> /\ ~Waits("start") => (events[Len(events)] = "gotIp" <=> HasAddress)
    /\ events = <<>> =>
           /\ ~cleared => (isConnected <=> HasAddress)
           /\ led = "connected" <=> HasAddress

\* Only a session is active, and one that is older than the last loss was raced or hears
\* of the loss.
SessionInv == (active => server \in {"serve", "recv"}) /\ OldSessionWasRaced

NetworkInv == TypeOK /\ DriverInv /\ EventsInv /\ SessionInv

-----------------------------------------------------------------------------
(* The event loop *)

LEMMA EventFacts ==
    ASSUME TypeOK
    PROVE  /\ events \in Seq(Events) /\ Len(events) \in Nat /\ DOMAIN events = 1..Len(events)
           /\ events = <<>> <=> Len(events) = 0
           /\ events = <<"start">> <=> Len(events) = 1 /\ events[1] = "start"
BY DEF TypeOK

LEMMA PostFacts ==
    ASSUME TypeOK, NEW e \in Events, Post(e)
    PROVE  /\ events' \in Seq(Events) /\ Len(events') <= MaxEvents /\ Len(events') = Len(events) + 1
           /\ events'[Len(events')] = e /\ \A i \in 1..Len(events) : events'[i] = events[i]
           /\ DOMAIN events' = 1..(Len(events) + 1) /\ events' # <<>>
           /\ \A l \in Losses : Waits(l) \/ l = e => Waits(l)'
<1>1. /\ events' \in Seq(Events) /\ Len(events') <= MaxEvents /\ Len(events') = Len(events) + 1
      /\ events'[Len(events')] = e /\ \A i \in 1..Len(events) : events'[i] = events[i]
      /\ DOMAIN events' = 1..(Len(events) + 1) /\ events' # <<>>
  BY EventFacts, BoundAssumption DEF Post
<1> QED BY <1>1, EventFacts DEF Waits

LEMMA HandleFacts ==
    ASSUME TypeOK, NEW e, Handle(e)
    PROVE  /\ events' \in Seq(Events) /\ Len(events) \in Nat \ {0} /\ Len(events') = Len(events) - 1
           /\ Len(events') <= MaxEvents /\ events[1] = e
           /\ \A i \in 1..Len(events') : events'[i] = events[i + 1]
           /\ DOMAIN events' = 1..Len(events') /\ (events' = <<>> <=> Len(events) = 1)
           /\ events' # <<>> => events'[Len(events')] = events[Len(events)]
<1>1. Len(events) \in Nat \ {0} /\ events[1] = e /\ events' = Tail(events) /\ Len(events) <= MaxEvents
  BY EventFacts DEF Handle, TypeOK
<1>2. /\ events' \in Seq(Events) /\ Len(events') = Len(events) - 1
      /\ \A i \in 1..Len(events') : events'[i] = events[i + 1]
  BY <1>1, EventFacts
<1>3. DOMAIN events' = 1..Len(events') /\ (events' = <<>> <=> Len(events') = 0)
  BY <1>2
<1>4. events' # <<>> => events'[Len(events')] = events[Len(events)]
  <2> SUFFICES ASSUME events' # <<>> PROVE events'[Len(events')] = events[Len(events)]
    OBVIOUS
  <2>1. Len(events') \in 1..Len(events') /\ Len(events') + 1 = Len(events)
    BY <1>1, <1>2, <1>3
  <2> QED BY <1>2, <2>1
<1>5. Len(events') <= MaxEvents
  BY <1>1, <1>2, BoundAssumption
<1> QED BY <1>1, <1>2, <1>3, <1>4, <1>5

\* A loss that is heard of still has to be told, or there is another.
LEMMA LossFacts ==
    ASSUME TypeOK, NEW e, Handle(e)
    PROVE  /\ ~losing /\ losing' = (e \in Losses /\ main = "done")
           /\ \A f \in Events : Waits(f)' => Waits(f)
           /\ \A f \in Events : Waits(f) => f = e \/ Waits(f)'
<1>1. ~losing /\ losing' = (e \in Losses /\ main = "done")
  BY DEF Handle
<1>2. ASSUME NEW f \in Events, Waits(f)' PROVE Waits(f)
  <2>1. PICK i \in 1..Len(events') : events'[i] = f
    BY <1>2, HandleFacts DEF Waits
  <2>2. i + 1 \in 1..Len(events) /\ events[i + 1] = f
    BY <2>1, HandleFacts
  <2> QED BY <2>2, EventFacts DEF Waits
<1>3. ASSUME NEW f \in Events, Waits(f), f # e PROVE Waits(f)'
  <2>1. PICK i \in 1..Len(events) : events[i] = f
    BY <1>3, EventFacts DEF Waits
  <2>2. i # 1
    BY <1>3, <2>1, HandleFacts
  <2>3. i - 1 \in 1..Len(events') /\ (i - 1) + 1 = i
    BY <2>1, <2>2, HandleFacts
  <2>4. events'[i - 1] = f
    BY <2>1, <2>3, HandleFacts
  <2> QED BY <2>3, <2>4, HandleFacts DEF Waits
<1> QED BY <1>1, <1>2, <1>3

-----------------------------------------------------------------------------
(* The driver and the peers *)

LEMMA NetworkInitInv == Init => NetworkInv
<1> SUFFICES ASSUME Init PROVE NetworkInv
  OBVIOUS
<1>1. events \in Seq(Events) /\ Len(events) = 1 /\ DOMAIN events = {1} /\ events[1] = "start" /\ events # <<>>
  BY DEF Init, Events
<1>2. TypeOK
  <2>1. Len(events) <= MaxEvents /\ retryCount \in 0..MaxRetries
    BY <1>1, BoundAssumption DEF Init
  <2> QED BY <1>1, <2>1 DEF Init, TypeOK, Connection
<1>3. DriverInv
  BY <1>1 DEF Init, DriverInv
<1>4. EventsInv
  BY <1>1 DEF EventsInv, Waits
<1>5. SessionInv
  BY DEF Init, SessionInv, OldSessionWasRaced
<1> QED BY <1>2, <1>3, <1>4, <1>5 DEF NetworkInv

\* The state of the link moves, and nothing is said of it.
LEMMA SilentInv == ASSUME NetworkInv, Join \/ LeaseExpires \/ ClientArrives PROVE NetworkInv'
<1>1. TypeOK'
  BY DEF NetworkInv, TypeOK, Connection, Join, LeaseExpires, ClientArrives, sessionVars, wifiVars, driverVars
<1>2. DriverInv'
  BY DEF NetworkInv, DriverInv, Join, LeaseExpires, ClientArrives, wifiVars, driverVars
<1>3. EventsInv'
  BY DEF NetworkInv, EventsInv, HasAddress, Waits, Join, LeaseExpires, ClientArrives, wifiVars, driverVars
<1>4. SessionInv'
  BY DEF NetworkInv, SessionInv, OldSessionWasRaced, LossIsComing, Join, LeaseExpires, ClientArrives, sessionVars
<1> QED BY <1>1, <1>2, <1>3, <1>4 DEF NetworkInv

\* The driver posts what it did.
LEMMA PostInv ==
    ASSUME NetworkInv, GetAddress \/ Drop \/ LoseAddress
    PROVE  NetworkInv'
<1>1. PICK e \in {"gotIp", "disconnected", "lostIp"} :
          /\ Post(e) /\ (e = "gotIp" <=> HasAddress')
          /\ e = "disconnected" => radio # "idle" /\ radio' = "idle"
          /\ e = "gotIp" => radio # "idle"
          /\ e = "lostIp" => address
          /\ (e \in Losses /\ client' = Aged(client)) \/ (e = "gotIp" /\ client' = client)
          /\ radio = "idle" => radio' = "idle"
          /\ UNCHANGED <<losing, retryCount, isConnected, cleared, led, main, server, active, raced>>
  <2>1. CASE GetAddress
    BY <2>1 DEF GetAddress, HasAddress, sessionVars, wifiVars
  <2>2. CASE Drop
    BY <2>2 DEF Drop, HasAddress, Losses, wifiVars
  <2>3. CASE LoseAddress
    BY <2>3 DEF LoseAddress, HasAddress, Losses, NetworkInv, TypeOK, wifiVars
  <2> QED BY <2>1, <2>2, <2>3
<1>2. e \in Events /\ (e \in Losses <=> e # "gotIp")
  BY DEF Events, Losses
<1>3. /\ events' \in Seq(Events) /\ Len(events') <= MaxEvents /\ Len(events') = Len(events) + 1
      /\ events'[Len(events')] = e /\ \A i \in 1..Len(events) : events'[i] = events[i]
      /\ DOMAIN events' = 1..(Len(events) + 1) /\ events' # <<>>
      /\ \A l \in Losses : Waits(l) \/ l = e => Waits(l)'
      /\ Len(events) \in Nat /\ DOMAIN events = 1..Len(events)
  BY <1>1, <1>2, PostFacts, EventFacts DEF NetworkInv
<1>4. \A i \in DOMAIN events : events[i] # "start"
  BY <1>1 DEF NetworkInv, DriverInv
<1>5. TypeOK'
  <2>1. /\ radio' \in {"idle", "connecting", "joined", "up", "expired"} /\ address' \in BOOLEAN
        /\ radio' \in {"up", "expired"} => address'
        /\ waiting' \in Connection
    BY DEF NetworkInv, TypeOK, GetAddress, Drop, LoseAddress, sessionVars, Aged, Connection
  <2>2. client' \in Connection /\ (client' # "none" <=> client # "none")
    BY <1>1 DEF NetworkInv, TypeOK, Aged, Connection
  <2> QED BY <1>1, <1>3, <2>1, <2>2 DEF NetworkInv, TypeOK
<1>6. DriverInv'
  <2>1. \A i \in DOMAIN events' : (i \in DOMAIN events /\ events'[i] = events[i]) \/ (i = Len(events') /\ events'[i] = e)
    BY <1>3
  <2>2. \A i \in DOMAIN events' : events'[i] # "start"
    BY <1>4, <2>1
  <2>3. \A i \in DOMAIN events : i < Len(events')
    BY <1>3
  <2>4. ASSUME NEW i \in DOMAIN events', events'[i] = "disconnected"
        PROVE  radio' = "idle" /\ \A j \in DOMAIN events' : j > i => events'[j] = "lostIp"
    <3>1. CASE e = "disconnected"
      <4>1. i = Len(events')
        BY <1>1, <2>1, <2>4, <3>1 DEF NetworkInv, DriverInv
      <4> QED BY <1>1, <1>3, <3>1, <4>1
    <3>2. CASE e # "disconnected"
      <4>1. i \in DOMAIN events /\ events[i] = "disconnected"
        BY <2>1, <2>4, <3>2
      <4>2. radio = "idle" /\ e = "lostIp" /\ radio' = "idle"
        BY <1>1, <3>2, <4>1 DEF NetworkInv, DriverInv
      <4> QED BY <2>1, <4>1, <4>2 DEF NetworkInv, DriverInv
    <3> QED BY <3>1, <3>2
  <2>5. ASSUME led = "failed" \/ main = "failed"
        PROVE  radio' = "idle" /\ \A i \in DOMAIN events' : events'[i] = "lostIp"
    BY <1>1, <2>1, <2>5 DEF NetworkInv, DriverInv
  <2> QED BY <1>1, <2>2, <2>4, <2>5 DEF DriverInv
<1>7. EventsInv'
  BY <1>1, <1>3 DEF EventsInv
<1>8. SessionInv'
  <2>1. active /\ client' = "old" => losing \/ (\E l \in Losses : Waits(l)') \/ raced
    <3>1. \A l \in Losses : Waits(l) => Waits(l)'
      BY <1>3
    <3>2. e \in Losses => \E l \in Losses : Waits(l)'
      BY <1>3
    <3>3. LossIsComing => losing \/ \E l \in Losses : Waits(l)
      BY DEF LossIsComing, Waits
    <3> QED BY <1>1, <1>2, <3>1, <3>2, <3>3 DEF NetworkInv, SessionInv, OldSessionWasRaced
  <2>2. (\E l \in Losses : Waits(l)') => LossIsComing'
    BY DEF LossIsComing, Waits
  <2> QED BY <1>1, <2>1, <2>2 DEF NetworkInv, SessionInv, OldSessionWasRaced, LossIsComing
<1> QED BY <1>5, <1>6, <1>7, <1>8 DEF NetworkInv

-----------------------------------------------------------------------------
(* The event loop task *)

\* An event that is handled is the next one, and the rest stays as it was.
LEMMA RestFacts ==
    ASSUME NetworkInv, NEW e \in Events, Handle(e)
    PROVE  /\ \A i \in DOMAIN events' : i + 1 \in DOMAIN events /\ events'[i] = events[i + 1] /\ events'[i] # "start"
           /\ e = "start" => events' = <<>>
           /\ \A i, j \in DOMAIN events' : j > i => j + 1 > i + 1
           /\ events # <<>> /\ 1 \in DOMAIN events /\ events[1] = e
           /\ \A i \in DOMAIN events' : i + 1 > 1
           /\ e # "start" => ~Waits("start")
           /\ events' = <<>> /\ e # "start" => (e = "gotIp" <=> HasAddress)
           /\ events' # <<>> => ~Waits("start") /\ (events'[Len(events')] = "gotIp" <=> HasAddress)
<1>1. /\ Len(events) \in Nat \ {0} /\ Len(events') = Len(events) - 1 /\ events[1] = e
      /\ \A i \in 1..Len(events') : events'[i] = events[i + 1]
      /\ DOMAIN events' = 1..Len(events') /\ (events' = <<>> <=> Len(events) = 1)
      /\ events' # <<>> => events'[Len(events')] = events[Len(events)]
      /\ DOMAIN events = 1..Len(events)
  BY HandleFacts, EventFacts DEF NetworkInv
<1>2. events = <<"start">> <=> Len(events) = 1 /\ events[1] = "start"
  BY EventFacts DEF NetworkInv
<1>3. \A i \in DOMAIN events : events[i] = "start" => i = 1 /\ Len(events) = 1
  BY <1>1, <1>2 DEF NetworkInv, DriverInv
<1>4. \A i \in DOMAIN events' : i + 1 \in DOMAIN events /\ events'[i] = events[i + 1] /\ i + 1 # 1
  BY <1>1
<1>5. \A i \in DOMAIN events' : events'[i] # "start"
  BY <1>3, <1>4
<1>6. e = "start" => events' = <<>>
  BY <1>1, <1>3
<1>7. e # "start" => ~Waits("start")
  BY <1>1, <1>3 DEF Waits
<1>8. events' = <<>> /\ e # "start" => (e = "gotIp" <=> HasAddress)
  BY <1>1, <1>7 DEF NetworkInv, EventsInv
<1>9. events' # <<>> => ~Waits("start") /\ (events'[Len(events')] = "gotIp" <=> HasAddress)
  BY <1>1, <1>6, <1>7 DEF NetworkInv, EventsInv
<1>10. \A i, j \in DOMAIN events' : j > i => j + 1 > i + 1
  BY <1>1
<1> QED BY <1>1, <1>4, <1>5, <1>6, <1>7, <1>8, <1>9, <1>10

LEMMA HandledSession ==
    ASSUME NetworkInv, NEW e \in Events, Handle(e)
    PROVE  SessionInv'
<1>1. /\ ~losing /\ losing' = (e \in Losses /\ main = "done")
      /\ \A f \in Events : Waits(f) => f = e \/ Waits(f)'
  BY LossFacts DEF NetworkInv
<1>2. UNCHANGED <<server, active, client, raced>>
  BY DEF Handle, sessionVars
<1>3. client = "old" => main = "done"
  BY DEF NetworkInv, TypeOK
<1>4. ASSUME active, client = "old", ~raced PROVE LossIsComing'
  <2>1. LossIsComing
    BY <1>4 DEF NetworkInv, SessionInv, OldSessionWasRaced
  <2>2. PICK l \in Losses : Waits(l)
    BY <1>1, <2>1 DEF LossIsComing, Waits
  <2>3. CASE l = e
    BY <1>1, <1>3, <1>4, <2>3 DEF LossIsComing
  <2>4. CASE Waits(l)'
    BY <2>4 DEF LossIsComing, Waits
  <2> QED BY <1>1, <2>2, <2>3, <2>4 DEF Losses, Events
<1> QED BY <1>2, <1>4 DEF NetworkInv, SessionInv, OldSessionWasRaced

LEMMA HandledTypes ==
    ASSUME NetworkInv, NEW e \in Events, Handle(e),
           radio' \in {radio, "connecting"}, radio' # radio => radio = "idle",
           retryCount' \in 0..MaxRetries, isConnected' \in BOOLEAN, cleared' \in BOOLEAN,
           led' \in {"off", "connecting", "connected", "failed"},
           main' \in {"waiting", "connected", "failed", "done"}, main = "done" => main' = "done"
    PROVE  TypeOK'
<1>1. events' \in Seq(Events) /\ Len(events') <= MaxEvents
  BY HandleFacts DEF NetworkInv
<1>2. losing' \in BOOLEAN
  BY DEF Handle
<1> QED BY <1>1, <1>2 DEF NetworkInv, TypeOK, Handle, sessionVars

LEMMA HandleStartInv == ASSUME NetworkInv, HandleStart PROVE NetworkInv'
<1>1. "start" \in Events /\ Handle("start") /\ Connect /\ led' = "connecting" /\ retryCount' = 0
      /\ UNCHANGED <<isConnected, cleared, main>>
  BY DEF Events, HandleStart
<1>2. events' = <<>> /\ DOMAIN events' = {} /\ radio = "idle" /\ ~isConnected /\ main = "waiting"
  BY <1>1, RestFacts DEF NetworkInv, DriverInv
<1>3. TypeOK'
  BY <1>1, HandledTypes, BoundAssumption DEF NetworkInv, TypeOK, Connect
<1>4. DriverInv' /\ EventsInv'
  BY <1>1, <1>2 DEF DriverInv, EventsInv, Connect, HasAddress
<1>5. SessionInv'
  BY <1>1, HandledSession
<1> QED BY <1>3, <1>4, <1>5 DEF NetworkInv

LEMMA HandleDisconnectedInv == ASSUME NetworkInv, HandleDisconnected PROVE NetworkInv'
<1>1. /\ "disconnected" \in Events /\ Handle("disconnected") /\ isConnected' = FALSE /\ cleared' = cleared
      /\ \/ retryCount' \in 0..MaxRetries /\ led' = "connecting" /\ Connect /\ main' = main
         \/ led' = "failed" /\ UNCHANGED <<radio, retryCount>> /\ main' = IF main = "waiting" THEN "failed" ELSE main
  BY BoundAssumption DEF Events, HandleDisconnected, NetworkInv, TypeOK
<1>2. radio = "idle" /\ \A i \in DOMAIN events' : events'[i] = "lostIp"
  BY <1>1, RestFacts DEF NetworkInv, DriverInv
<1>3. TypeOK'
  BY <1>1, <1>2, HandledTypes DEF NetworkInv, TypeOK, Connect
<1>4. DriverInv'
  <2>1. ~(main = "failed")
    BY <1>1, RestFacts DEF NetworkInv, DriverInv
  <2> QED BY <1>1, <1>2, <2>1 DEF DriverInv
<1>5. EventsInv'
  BY <1>1, <1>2, RestFacts DEF EventsInv, HasAddress, Connect
<1>6. SessionInv'
  BY <1>1, HandledSession
<1> QED BY <1>3, <1>4, <1>5, <1>6 DEF NetworkInv

LEMMA HandleLostIpInv == ASSUME NetworkInv, HandleLostIp PROVE NetworkInv'
<1>1. /\ "lostIp" \in Events /\ Handle("lostIp") /\ isConnected' = FALSE
      /\ led' = IF led = "connected" THEN "off" ELSE led
      /\ UNCHANGED <<radio, retryCount, cleared, main>>
  BY DEF Events, HandleLostIp
<1>2. TypeOK'
  BY <1>1, HandledTypes DEF NetworkInv, TypeOK
<1>3. DriverInv'
  BY <1>1, RestFacts DEF NetworkInv, DriverInv
<1>4. EventsInv'
  BY <1>1, RestFacts DEF EventsInv, HasAddress
<1>5. SessionInv'
  BY <1>1, HandledSession
<1> QED BY <1>2, <1>3, <1>4, <1>5 DEF NetworkInv

LEMMA HandleGotIpInv == ASSUME NetworkInv, HandleGotIp PROVE NetworkInv'
<1>1. /\ "gotIp" \in Events /\ Handle("gotIp") /\ isConnected' = TRUE /\ cleared' = FALSE
      /\ led' = "connected" /\ main' = (IF main = "waiting" THEN "connected" ELSE main)
      /\ retryCount' = 0 /\ UNCHANGED radio
  BY DEF Events, HandleGotIp
<1>2. TypeOK'
  <2>1. /\ retryCount' \in 0..MaxRetries /\ isConnected' \in BOOLEAN /\ cleared' \in BOOLEAN
        /\ radio' = radio
    <3>1. retryCount' \in 0..MaxRetries
      BY <1>1, BoundAssumption
    <3>2. isConnected' \in BOOLEAN /\ cleared' \in BOOLEAN
      BY <1>1, Zenon
    <3> QED BY <1>1, <3>1, <3>2
  <2>2. /\ main' \in {"waiting", "connected", "failed", "done"} /\ (main = "done" => main' = "done")
        /\ led' \in {"off", "connecting", "connected", "failed"}
    BY <1>1 DEF NetworkInv, TypeOK
  <2> QED BY <1>1, <2>1, <2>2, HandledTypes
<1>3. DriverInv'
  BY <1>1, RestFacts DEF NetworkInv, DriverInv
<1>4. EventsInv'
  BY <1>1, RestFacts DEF EventsInv, HasAddress
<1>5. SessionInv'
  BY <1>1, HandledSession
<1> QED BY <1>2, <1>3, <1>4, <1>5 DEF NetworkInv

\* tcp_server hears of the loss.
LEMMA TellServerInv == ASSUME NetworkInv, TellServer PROVE NetworkInv'
<1>1. TypeOK'
  <2>1. losing' \in BOOLEAN /\ active' \in BOOLEAN
    BY DEF TellServer
  <2> QED BY <2>1 DEF NetworkInv, TypeOK, TellServer, driverVars, wifiVars
<1>2. DriverInv' /\ EventsInv'
  BY DEF NetworkInv, DriverInv, EventsInv, HasAddress, Waits, TellServer, driverVars, wifiVars
<1>3. SessionInv'
  BY DEF SessionInv, OldSessionWasRaced, TellServer
<1> QED BY <1>1, <1>2, <1>3 DEF NetworkInv

-----------------------------------------------------------------------------
(* The other tasks *)

LEMMA StartServerInv == ASSUME NetworkInv, StartServer PROVE NetworkInv'
<1>1. TypeOK'
  BY DEF NetworkInv, TypeOK, StartServer, driverVars
<1>2. DriverInv'
  BY DEF NetworkInv, DriverInv, StartServer, driverVars
<1>3. EventsInv'
  <2>1. main = "failed" => ~HasAddress
    BY DEF NetworkInv, DriverInv, HasAddress
  <2> QED BY <2>1 DEF NetworkInv, EventsInv, HasAddress, Waits, StartServer, driverVars
<1>4. SessionInv'
  BY DEF NetworkInv, SessionInv, OldSessionWasRaced, StartServer
<1> QED BY <1>1, <1>2, <1>3, <1>4 DEF NetworkInv

LEMMA ClearStatusInv == ASSUME NetworkInv, ClearCredentials PROVE NetworkInv'
<1>1. TypeOK'
  BY DEF NetworkInv, TypeOK, ClearCredentials, driverVars, sessionVars
<1>2. DriverInv' /\ EventsInv'
  BY DEF NetworkInv, DriverInv, EventsInv, HasAddress, Waits, ClearCredentials, driverVars
<1>3. SessionInv'
  BY DEF NetworkInv, SessionInv, OldSessionWasRaced, LossIsComing, ClearCredentials, sessionVars
<1> QED BY <1>1, <1>2, <1>3 DEF NetworkInv

\* The server's task touches nothing of the link.
LEMMA ServerFrame ==
    ASSUME NetworkInv, NEW from, NEW to, ServerMoves(from, to)
    PROVE  /\ DriverInv' /\ EventsInv' /\ (LossIsComing' <=> LossIsComing)
           /\ UNCHANGED <<radio, address, events, losing, retryCount, isConnected, cleared, led, main>>
           /\ server = from /\ server' = to
<1>1. /\ UNCHANGED <<radio, address, events, losing, retryCount, isConnected, cleared, led, main>>
      /\ server = from /\ server' = to
  BY DEF ServerMoves, driverVars, wifiVars
<1> QED BY <1>1 DEF NetworkInv, DriverInv, EventsInv, HasAddress, Waits, LossIsComing

LEMMA IdleServerInv ==
    ASSUME NetworkInv, SeeWifi \/ OpenListener \/ FailToOpen \/ LoopWhileConnected \/ AcceptFails
                       \/ ServeOnce \/ SendFails
    PROVE  NetworkInv'
<1>1. PICK from \in {"wait", "open", "check", "accept", "recv"}, to \in {"open", "check", "wait", "accept", "serve"} :
          /\ ServerMoves(from, to) /\ (from = "recv" <=> to = "serve")
          /\ UNCHANGED <<client, raced>> /\ waiting' \in {waiting, "none"}
          /\ active' = active \/ (active' = FALSE)
  BY DEF SeeWifi, OpenListener, FailToOpen, LoopWhileConnected, AcceptFails, ServeOnce, SendFails, sessionVars
<1>2. /\ DriverInv' /\ EventsInv' /\ (LossIsComing' <=> LossIsComing)
      /\ UNCHANGED <<radio, address, events, losing, retryCount, isConnected, cleared, led, main>>
      /\ server = from /\ server' = to
  BY <1>1, ServerFrame
<1>3. TypeOK'
  <2>1. active' \in BOOLEAN
    BY <1>1 DEF NetworkInv, TypeOK
  <2>2. client' \in Connection /\ waiting' \in Connection /\ raced' \in BOOLEAN
    BY <1>1 DEF NetworkInv, TypeOK, Connection
  <2>3. server' \in {"wait", "open", "check", "accept", "serve"} /\ main = "done"
        /\ (client' # "none" <=> server' = "serve")
    BY <1>1, <1>2 DEF NetworkInv, TypeOK
  <2> QED BY <1>2, <2>1, <2>2, <2>3 DEF NetworkInv, TypeOK
<1>4. SessionInv'
  BY <1>1, <1>2 DEF NetworkInv, SessionInv, OldSessionWasRaced
<1> QED BY <1>2, <1>3, <1>4 DEF NetworkInv

LEMMA AcceptInv == ASSUME NetworkInv, Accept PROVE NetworkInv'
<1>1. /\ DriverInv' /\ EventsInv' /\ (LossIsComing' <=> LossIsComing)
      /\ UNCHANGED <<radio, address, events, losing, retryCount, isConnected, cleared, led, main>>
      /\ server = "accept" /\ server' = "accepted"
  BY ServerFrame DEF Accept
<1>2. TypeOK'
  BY <1>1 DEF NetworkInv, TypeOK, Connection, Accept
<1>3. SessionInv'
  BY <1>1 DEF NetworkInv, SessionInv, OldSessionWasRaced, Accept
<1> QED BY <1>1, <1>2, <1>3 DEF NetworkInv

LEMMA StartSessionInv == ASSUME NetworkInv, StartSession PROVE NetworkInv'
<1>1. /\ DriverInv' /\ EventsInv' /\ (LossIsComing' <=> LossIsComing)
      /\ UNCHANGED <<radio, address, events, losing, retryCount, isConnected, cleared, led, main>>
      /\ server = "accepted" /\ server' = "serve"
  BY ServerFrame DEF StartSession
<1>2. raced' \in BOOLEAN /\ active' = TRUE /\ UNCHANGED <<client, waiting>>
  BY DEF StartSession
<1>3. TypeOK'
  BY <1>1, <1>2 DEF NetworkInv, TypeOK
<1>4. client = "old" => LossIsComing \/ raced'
  BY DEF StartSession, LossIsComing
<1>5. SessionInv'
  BY <1>1, <1>2, <1>4 DEF SessionInv, OldSessionWasRaced
<1> QED BY <1>1, <1>3, <1>5 DEF NetworkInv

LEMMA EndSessionInv ==
    ASSUME NetworkInv, NEW from \in {"serve", "recv"}, EndSession(from) PROVE NetworkInv'
<1>1. /\ DriverInv' /\ EventsInv' /\ (LossIsComing' <=> LossIsComing)
      /\ UNCHANGED <<radio, address, events, losing, retryCount, isConnected, cleared, led, main>>
      /\ server = from /\ server' = "check"
  BY ServerFrame DEF EndSession
<1>2. TypeOK'
  BY <1>1 DEF NetworkInv, TypeOK, Connection, EndSession
<1>3. SessionInv'
  BY DEF SessionInv, OldSessionWasRaced, EndSession
<1> QED BY <1>1, <1>2, <1>3 DEF NetworkInv

LEMMA CheckSessionInv == ASSUME NetworkInv, CheckSession PROVE NetworkInv'
<1>1. CASE ServerMoves("serve", "recv") /\ UNCHANGED sessionVars
  <2>1. /\ DriverInv' /\ EventsInv' /\ (LossIsComing' <=> LossIsComing)
        /\ UNCHANGED <<radio, address, events, losing, retryCount, isConnected, cleared, led, main>>
        /\ server = "serve" /\ server' = "recv"
    BY <1>1, ServerFrame
  <2>2. TypeOK' /\ SessionInv'
    BY <1>1, <2>1 DEF NetworkInv, TypeOK, SessionInv, OldSessionWasRaced, sessionVars
  <2> QED BY <2>1, <2>2 DEF NetworkInv
<1> QED BY <1>1, EndSessionInv DEF CheckSession

LEMMA NetworkNextInv == NetworkInv /\ [Next]_vars => NetworkInv'
<1> SUFFICES ASSUME NetworkInv, [Next]_vars PROVE NetworkInv'
  OBVIOUS
<1>1. CASE Environment
  BY <1>1, SilentInv, PostInv DEF Environment
<1>2. CASE HandleEvent
  BY <1>2, HandleStartInv, HandleDisconnectedInv, HandleLostIpInv, HandleGotIpInv, TellServerInv
  DEF HandleEvent
<1>3. CASE StartServer \/ ClearCredentials
  BY <1>3, StartServerInv, ClearStatusInv
<1>4. CASE ServerStep
  BY <1>4, IdleServerInv, AcceptInv, StartSessionInv, CheckSessionInv, EndSessionInv
  DEF ServerStep, ClientEnds
<1>5. CASE UNCHANGED vars
  BY <1>5 DEF vars, NetworkInv, TypeOK, DriverInv, EventsInv, HasAddress, Waits, SessionInv,
              OldSessionWasRaced, LossIsComing
<1> QED BY <1>1, <1>2, <1>3, <1>4, <1>5 DEF Next

\* What is shown of the link is what the driver last did once all of it is handled, and a
\* session that is older than a loss hears of it, in every behaviour.
THEOREM NetworkCorrect == Spec => []StatusIsTrue
<1>1. NetworkInv => StatusIsTrue
  BY DEF NetworkInv, DriverInv, EventsInv, SessionInv, HasAddress, StatusIsTrue, StatusIsCurrent, Quiet
<1> QED BY <1>1, NetworkInitInv, NetworkNextInv, PTL DEF Spec

-----------------------------------------------------------------------------
(* The answers of USB.  What is on the wire ends with the part of the slot *)
(* that the writer has sent so far, and everything else on it is of older  *)
(* answers.                                                                *)

Sequence(w) == w \in Seq(Units)

\* Every unit of w is of an answer before the i-th.
Before(w, i) == \A k \in 1..Len(w) : w[k][1] < i

\* w ends with unit n of answer i, or has nothing of it yet.
EndsWith(w, i, n) == IF n = 0 THEN Before(w, i) ELSE Len(w) > 0 /\ w[Len(w)] = <<i, n>>

\* AnswersInOrder and SentOf for any sequence of units.
Ordered(w) ==
    \A k \in 1..Len(w) :
        IF k > 1 /\ w[k - 1][1] = w[k][1]
        THEN w[k][2] = w[k - 1][2] + 1
        ELSE /\ w[k][2] = 1
             /\ k > 1 => w[k - 1][1] < w[k][1]

UnitsOf(w, i) == {u[2] : u \in {v \in ToSet(w) : v[1] = i}}

WireType ==
    /\ fifo \in Seq(Units) /\ endpoint \in Seq(Units) /\ received \in Seq(Units)
    /\ Len(fifo) <= FifoSize
    /\ transfer \in {"none", "armed", "complete"}
    /\ transfer # "armed" => endpoint = <<>>

TaskType ==
    /\ burst \in Seq(Sizes) /\ made + Len(burst) <= MaxAnswers
    /\ usb \in {"idle", "command", "queue"}
    /\ made \in 0..MaxAnswers
    /\ sizes \in [1..MaxAnswers -> Sizes \cup {0}]
    /\ IF usb = "queue"
       THEN answer \in Answers /\ answer.id = made /\ answer.size = sizes[made]
       ELSE answer = NoAnswer

\* The slot holds an answer made earlier than the one that waits for the slot.
SlotType ==
    /\ pending \in BOOLEAN
    /\ IF pending
       THEN slot \in Answers /\ slot.id \in 1..made /\ slot.size = sizes[slot.id]
       ELSE slot = NoAnswer
    /\ usb = "queue" /\ pending => slot.id < made

WriterType ==
    /\ tx \in {"sleep", "look", "fill", "flush"}
    /\ LockHeld => pending /\ offset \in 0..slot.size
    /\ ~LockHeld => offset = 0
    /\ tx = "flush" => offset = slot.size

\* The wire ends with what the writer has sent of the slot.
EndInv ==
    /\ Ordered(Wire)
    /\ Before(Wire, made + 1)
    /\ usb = "queue" => Before(Wire, made)
    /\ pending => EndsWith(Wire, slot.id, offset)

\* The n units of answer i are on w.
Whole(w, i, n) == UnitsOf(w, i) = 1..n

\* An answer that is neither waiting nor given up is on the wire as a whole, and the
\* units of the slot that are on the wire are the ones the writer counts.
SentInv ==
    /\ \A i \in 1..made :
           i \in {answer.id, slot.id} \cup refused \cup cut \/ Whole(Wire, i, sizes[i])
    /\ pending => UnitsOf(Wire, slot.id) = 1..offset

UsbInv == WireType /\ TaskType /\ SlotType /\ WriterType /\ EndInv /\ SentInv
-----------------------------------------------------------------------------
(* Sequences of units *)

LEMMA UnitParts == ASSUME NEW u \in Units PROVE u[1] \in 1..MaxAnswers /\ u[2] \in Nat \ {0} /\ u = <<u[1], u[2]>>
BY DEF Units

\* UnitsOf by positions.
LEMMA UnitsAt ==
    ASSUME NEW w, Sequence(w), NEW i
    PROVE  UnitsOf(w, i) = {w[k][2] : k \in {j \in 1..Len(w) : w[j][1] = i}}
<1>1. DOMAIN w = 1..Len(w)
  BY DEF Sequence
<1> QED BY <1>1 DEF UnitsOf, ToSet

LEMMA PartIs ==
    ASSUME NEW i \in 1..MaxAnswers, NEW m \in Nat, NEW n \in Nat
    PROVE  /\ [k \in 1..n |-> <<i, m + k>>] \in Seq(Units)
           /\ Len([k \in 1..n |-> <<i, m + k>>]) = n
<1>1. \A k \in 1..n : <<i, m + k>> \in Units
  BY DEF Units
<1> QED BY <1>1, IsASeq

\* The next n units of answer i.
More(w, i, m, n) == w \o [k \in 1..n |-> <<i, m + k>>]

LEMMA MoreIs ==
    ASSUME NEW w, Sequence(w), NEW i \in 1..MaxAnswers, NEW m \in Nat, NEW n \in Nat
    PROVE  /\ Sequence(More(w, i, m, n)) /\ Len(More(w, i, m, n)) = Len(w) + n
           /\ \A k \in 1..Len(w) : More(w, i, m, n)[k] = w[k]
           /\ \A k \in 1..n : More(w, i, m, n)[Len(w) + k] = <<i, m + k>>
           /\ \A k \in 1..(Len(w) + n) : k \in 1..Len(w) \/ \E j \in 1..n : k = Len(w) + j
<1> DEFINE p == [k \in 1..n |-> <<i, m + k>>]
<1>1. p \in Seq(Units) /\ Len(p) = n /\ \A k \in 1..n : p[k] = <<i, m + k>>
  BY PartIs
<1> HIDE DEF p
<1>2. w \in Seq(Units)
  BY DEF Sequence
<1>3. /\ w \o p \in Seq(Units) /\ Len(w \o p) = Len(w) + n
      /\ \A k \in 1..(Len(w) + n) : (w \o p)[k] = IF k <= Len(w) THEN w[k] ELSE p[k - Len(w)]
  BY <1>1, <1>2, ConcatProperties
<1>4. Len(w) \in Nat
  BY <1>2
<1>5. \A k \in 1..Len(w) : (w \o p)[k] = w[k]
  BY <1>3, <1>4
<1>6. \A k \in 1..n : (w \o p)[Len(w) + k] = <<i, m + k>>
  BY <1>1, <1>3, <1>4
<1>7. \A k \in 1..(Len(w) + n) : k \in 1..Len(w) \/ \E j \in 1..n : k = Len(w) + j
  <2> SUFFICES ASSUME NEW k \in 1..(Len(w) + n), k \notin 1..Len(w)
               PROVE  \E j \in 1..n : k = Len(w) + j
    OBVIOUS
  <2>1. k - Len(w) \in 1..n /\ k = Len(w) + (k - Len(w))
    BY <1>4
  <2> QED BY <2>1
<1>8. More(w, i, m, n) = w \o p
  BY DEF More, p
<1> QED BY <1>3, <1>5, <1>6, <1>7, <1>8 DEF Sequence

\* Going on with the answer the sequence ends with, or with a new one, keeps the order.
LEMMA MoreOrdered ==
    ASSUME NEW w, Sequence(w), NEW i \in 1..MaxAnswers, NEW m \in Nat, NEW n \in Nat \ {0},
           Ordered(w), EndsWith(w, i, m)
    PROVE  Ordered(More(w, i, m, n)) /\ EndsWith(More(w, i, m, n), i, m + n)
<1> DEFINE v == More(w, i, m, n)
<1>0. Len(w) \in Nat
  BY DEF Sequence
<1>1. /\ Sequence(v) /\ Len(v) = Len(w) + n
      /\ \A k \in 1..Len(w) : v[k] = w[k]
      /\ \A k \in 1..n : v[Len(w) + k] = <<i, m + k>>
      /\ \A k \in 1..(Len(w) + n) : k \in 1..Len(w) \/ \E j \in 1..n : k = Len(w) + j
  BY MoreIs, Zenon
<1> HIDE DEF v
<1>2. ASSUME NEW k \in 1..Len(v)
      PROVE  IF k > 1 /\ v[k - 1][1] = v[k][1]
             THEN v[k][2] = v[k - 1][2] + 1
             ELSE v[k][2] = 1 /\ (k > 1 => v[k - 1][1] < v[k][1])
  <2>1. CASE k \in 1..Len(w)
    <3>1. v[k] = w[k]
      BY <1>1, <2>1
    <3>2. k > 1 => k - 1 \in 1..Len(w)
      BY <1>0, <2>1
    <3>3. k > 1 => v[k - 1] = w[k - 1]
      BY <1>1, <3>2
    <3> QED BY <2>1, <3>1, <3>3 DEF Ordered
  <2>2. CASE k = Len(w) + 1
    <3>1. v[k] = <<i, m + 1>>
      BY <1>0, <1>1, <2>2
    <3>2. CASE m = 0
      <4>1. k > 1 => v[k - 1][1] < i
        BY <1>0, <1>1, <2>2, <3>2 DEF EndsWith, Before
      <4>2. k > 1 => v[k - 1][1] \in Nat
        <5>1. k > 1 => v[k - 1] \in Units
          BY <1>0, <1>1 DEF Sequence
        <5> QED BY <5>1, UnitParts
      <4> QED BY <3>1, <3>2, <4>1, <4>2
    <3>3. CASE m # 0
      <4>1. k > 1 /\ v[k - 1] = <<i, m>>
        BY <1>0, <1>1, <2>2, <3>3 DEF EndsWith
      <4> QED BY <3>1, <4>1
    <3> QED BY <3>2, <3>3
  <2>3. CASE k \notin 1..Len(w) /\ k # Len(w) + 1
    <3>1. PICK j \in 1..n : k = Len(w) + j
      BY <1>0, <1>1, <2>3
    <3>2. j > 1 /\ j - 1 \in 1..n /\ k - 1 = Len(w) + (j - 1)
      BY <1>0, <1>1, <2>3, <3>1
    <3>3. v[k] = <<i, m + j>> /\ v[k - 1] = <<i, m + (j - 1)>>
      BY <1>0, <1>1, <3>1, <3>2
    <3> QED BY <3>2, <3>3
  <2> QED BY <2>1, <2>2, <2>3
<1>3. Len(v) > 0 /\ v[Len(v)] = <<i, m + n>> /\ m + n # 0
  <2>1. n \in 1..n /\ Len(v) > 0 /\ m + n # 0
    BY <1>0, <1>1
  <2>2. v[Len(w) + n] = <<i, m + n>>
    BY <1>1, <2>1
  <2> QED BY <1>1, <2>1, <2>2
<1>4. Ordered(v) /\ EndsWith(v, i, m + n)
  BY <1>2, <1>3 DEF Ordered, EndsWith
<1> QED BY <1>4 DEF v

\* They add to the units of that answer and to nobody else's.
LEMMA MoreUnits ==
    ASSUME NEW w, Sequence(w), NEW i \in 1..MaxAnswers, NEW m \in Nat, NEW n \in Nat
    PROVE  /\ UnitsOf(w, i) = 1..m => UnitsOf(More(w, i, m, n), i) = 1..(m + n)
           /\ \A j : j # i => UnitsOf(More(w, i, m, n), j) = UnitsOf(w, j)
           /\ \A j \in Nat : Before(w, j) /\ i < j => Before(More(w, i, m, n), j)
<1> DEFINE v == More(w, i, m, n)
<1>0. Len(w) \in Nat
  BY DEF Sequence
<1>1. /\ Sequence(v) /\ Len(v) = Len(w) + n
      /\ \A k \in 1..Len(w) : v[k] = w[k]
      /\ \A k \in 1..n : v[Len(w) + k] = <<i, m + k>>
      /\ \A k \in 1..(Len(w) + n) : k \in 1..Len(w) \/ \E j \in 1..n : k = Len(w) + j
  BY MoreIs, Zenon
<1> HIDE DEF v
<1>2. \A j : UnitsOf(v, j) = {v[k][2] : k \in {q \in 1..Len(v) : v[q][1] = j}}
  BY <1>0, <1>1, UnitsAt
<1>3. \A j : UnitsOf(w, j) = {w[k][2] : k \in {q \in 1..Len(w) : w[q][1] = j}}
  BY UnitsAt
<1>4. ASSUME NEW j, j # i PROVE UnitsOf(v, j) = UnitsOf(w, j)
  <2>1. ASSUME NEW q \in 1..Len(v), v[q][1] = j PROVE q \in 1..Len(w)
    <3>1. ASSUME NEW p \in 1..n, q = Len(w) + p PROVE FALSE
      <4>1. v[q] = <<i, m + p>>
        BY <1>1, <3>1
      <4> QED BY <1>4, <2>1, <4>1
    <3> QED BY <1>1, <3>1
  <2>2. {q \in 1..Len(v) : v[q][1] = j} = {q \in 1..Len(w) : w[q][1] = j}
    BY <1>0, <1>1, <2>1
  <2> DEFINE S == {q \in 1..Len(w) : w[q][1] = j}
  <2>3. \A q \in S : v[q][2] = w[q][2]
    BY <1>1
  <2>4. UnitsOf(v, j) = {v[q][2] : q \in S} /\ UnitsOf(w, j) = {w[q][2] : q \in S}
    BY <1>2, <1>3, <2>2
  <2> HIDE DEF S
  <2>5. {v[q][2] : q \in S} = {w[q][2] : q \in S}
    BY <2>3
  <2> QED BY <2>4, <2>5
<1>5. ASSUME UnitsOf(w, i) = 1..m PROVE UnitsOf(v, i) = 1..(m + n)
  <2>1. ASSUME NEW x \in UnitsOf(v, i) PROVE x \in 1..(m + n)
    <3>1. PICK k \in 1..Len(v) : v[k][1] = i /\ x = v[k][2]
      BY <1>2, <2>1
    <3>2. CASE k \in 1..Len(w)
      <4>1. x \in UnitsOf(w, i)
        BY <1>0, <1>1, <1>3, <3>1, <3>2
      <4> QED BY <1>5, <4>1
    <3>3. CASE k \notin 1..Len(w)
      <4>1. PICK j \in 1..n : k = Len(w) + j
        BY <1>0, <1>1, <3>3
      <4>2. v[k] = <<i, m + j>>
        BY <1>1, <4>1
      <4> QED BY <3>1, <4>1, <4>2
    <3> QED BY <3>2, <3>3
  <2>2. ASSUME NEW x \in 1..(m + n) PROVE x \in UnitsOf(v, i)
    <3>1. CASE x <= m
      <4>1. x \in UnitsOf(w, i)
        BY <1>5, <3>1
      <4>2. PICK k \in 1..Len(w) : w[k][1] = i /\ x = w[k][2]
        BY <1>3, <4>1
      <4>3. k \in 1..Len(v) /\ v[k][1] = i /\ x = v[k][2]
        BY <1>0, <1>1, <4>2
      <4> QED BY <1>2, <4>3
    <3>2. CASE x > m
      <4>1. x - m \in 1..n /\ m + (x - m) = x
        BY <3>2
      <4>2. v[Len(w) + (x - m)] = <<i, m + (x - m)>>
        BY <1>1, <4>1
      <4>3. v[Len(w) + (x - m)][1] = i /\ v[Len(w) + (x - m)][2] = x
        BY <4>1, <4>2
      <4>4. Len(w) + (x - m) \in 1..Len(v)
        BY <1>0, <1>1, <3>2
      <4> QED BY <1>2, <4>3, <4>4
    <3> QED BY <3>1, <3>2
  <2> QED BY <2>1, <2>2
<1>6. ASSUME NEW j \in Nat, Before(w, j), i < j PROVE Before(v, j)
  <2> SUFFICES ASSUME NEW k \in 1..Len(v) PROVE v[k][1] < j
    BY DEF Before
  <2>1. CASE k \in 1..Len(w)
    BY <1>0, <1>1, <1>6, <2>1 DEF Before
  <2>2. CASE k \notin 1..Len(w)
    <3>1. PICK q \in 1..n : k = Len(w) + q
      BY <1>0, <1>1, <2>2
    <3>2. v[k] = <<i, m + q>>
      BY <1>1, <3>1
    <3> QED BY <1>6, <3>2
  <2> QED BY <2>1, <2>2
<1>7. /\ UnitsOf(w, i) = 1..m => UnitsOf(v, i) = 1..(m + n)
      /\ \A j : j # i => UnitsOf(v, j) = UnitsOf(w, j)
      /\ \A j \in Nat : Before(w, j) /\ i < j => Before(v, j)
  BY <1>4, <1>5, <1>6
<1> QED BY <1>7 DEF v

\* An answer that everything is before has no units yet.
LEMMA BeforeHasNone ==
    ASSUME NEW w, Sequence(w), NEW i \in Nat, Before(w, i)
    PROVE  UnitsOf(w, i) = 1..0
<1>1. \A k \in 1..Len(w) : w[k][1] # i
  BY DEF Before
<1>2. UnitsOf(w, i) = {}
  BY <1>1, UnitsAt
<1> QED BY <1>2

-----------------------------------------------------------------------------
(* The wire *)

LEMMA WireIs == ASSUME WireType PROVE Sequence(Wire)
BY ConcatProperties DEF WireType, Wire, Sequence

\* Arming an endpoint that is not in use moves units along the wire.
LEMMA ArmedKeeps ==
    ASSUME WireType, endpoint = <<>>, Armed(fifo), received' = received
    PROVE  WireType' /\ Wire' = Wire
<1>1. CASE fifo = <<>>
  BY <1>1 DEF Armed, WireType, Wire
<1>2. CASE fifo # <<>>
  <2> DEFINE n == IF Len(fifo) < EndpointSize THEN Len(fifo) ELSE EndpointSize
  <2>1. n \in 1..Len(fifo) /\ Len(fifo) \in Nat
    <3>1. Len(fifo) \in Nat \ {0}
      BY <1>2, EmptySeq, LenProperties DEF WireType
    <3> QED BY UsbAssumption, <3>1 DEF UsbAssumption
  <2>2. endpoint' = SubSeq(fifo, 1, n) /\ fifo' = SubSeq(fifo, n + 1, Len(fifo)) /\ transfer' = "armed"
    BY <1>2 DEF Armed
  <2> HIDE DEF n
  <2>3. /\ endpoint' \in Seq(Units) /\ fifo' \in Seq(Units)
        /\ Len(fifo') <= Len(fifo)
    <3>1. fifo \in Seq(Units)
      BY DEF WireType
    <3>2. SubSeq(fifo, 1, n) \in Seq(Units)
      BY <2>1, <3>1, SubSeqProperties
    <3>3. SubSeq(fifo, n + 1, Len(fifo)) \in Seq(Units) /\ Len(SubSeq(fifo, n + 1, Len(fifo))) <= Len(fifo)
      BY <2>1, <3>1, SubSeqProperties
    <3> QED BY <2>2, <3>2, <3>3
  <2>4. endpoint' \o fifo' = fifo
    <3>1. fifo \in Seq(Units)
      BY DEF WireType
    <3>2. SubSeq(fifo, 1, n) \o SubSeq(fifo, n + 1, Len(fifo)) = SubSeq(fifo, 1, Len(fifo))
      BY <2>1, <3>1, ConcatAdjacentSubSeq
    <3>3. SubSeq(fifo, 1, Len(fifo)) = fifo
      BY <3>1, SubSeqFull
    <3> QED BY <2>2, <3>2, <3>3
  <2>5. received \in Seq(Units) /\ received' = received
    BY DEF WireType
  <2>6. (received \o endpoint') \o fifo' = received \o (endpoint' \o fifo')
    BY <2>3, <2>5, ConcatAssociative
  <2>7. received \o endpoint = received
    BY <2>5, ConcatEmptySeq
  <2>8. Wire' = Wire
    BY <2>4, <2>5, <2>6, <2>7 DEF Wire
  <2>9. Len(fifo') <= FifoSize
    <3>1. Len(fifo) \in Nat /\ Len(fifo') \in Nat /\ Len(fifo) <= FifoSize /\ FifoSize \in Nat
      BY UsbAssumption, <2>3, LenProperties DEF WireType, UsbAssumption
    <3> QED BY <2>3, <3>1
  <2>10. received' \in Seq(Units)
    BY <2>5
  <2>11. transfer' \in {"none", "armed", "complete"} /\ (transfer' # "armed" => endpoint' = <<>>)
    BY <2>2
  <2>12. WireType'
    BY <2>3, <2>9, <2>10, <2>11 DEF WireType
  <2> QED BY <2>8, <2>12
<1> QED BY <1>1, <1>2

LEMMA FlushKeeps ==
    ASSUME WireType, Flush, received' = received
    PROVE  WireType' /\ Wire' = Wire
<1>1. CASE transfer = "none"
  <2>1. endpoint = <<>> /\ Armed(fifo)
    BY <1>1 DEF Flush, WireType
  <2> QED BY <2>1, ArmedKeeps
<1>2. CASE transfer # "none"
  BY <1>2 DEF Flush, WireType, Wire
<1> QED BY <1>1, <1>2

LEMMA HostKeeps ==
    ASSUME WireType, HostReads
    PROVE  WireType' /\ Wire' = Wire
<1>1. /\ received' = received \o endpoint /\ endpoint' = <<>> /\ fifo' = fifo
      /\ transfer' = "complete"
  BY DEF HostReads
<1>2. received' \in Seq(Units)
  BY <1>1, ConcatProperties DEF WireType
<1>3. received' \o endpoint' = received \o endpoint
  BY <1>1, <1>2, ConcatEmptySeq
<1>4. Wire' = Wire
  BY <1>1, <1>3 DEF Wire
<1>5. WireType'
  BY <1>1, <1>2 DEF WireType
<1> QED BY <1>4, <1>5

\* A part put into the FIFO is put on the wire.
LEMMA FillWire ==
    ASSUME WireType, slot \in Answers, offset \in Nat, NEW n \in Nat, n <= Room,
           fifo' = fifo \o Part(slot, offset, n), UNCHANGED <<endpoint, transfer, received>>
    PROVE  WireType' /\ Wire' = More(Wire, slot.id, offset, n)
<1> DEFINE p == Part(slot, offset, n)
<1>1. slot.id \in 1..MaxAnswers /\ fifo \in Seq(Units)
  BY DEF Answers, WireType
<1>2. p \in Seq(Units) /\ Len(p) = n
  BY <1>1, PartIs DEF Part
<1>3. fifo' \in Seq(Units) /\ Len(fifo') = Len(fifo) + n
  BY <1>1, <1>2, ConcatProperties
<1>4. Len(fifo') <= FifoSize
  BY UsbAssumption, <1>1, <1>3 DEF Room, UsbAssumption
<1>5. WireType'
  BY <1>3, <1>4 DEF WireType
<1>6. received \o endpoint \in Seq(Units)
  BY ConcatProperties DEF WireType
<1>7. ((received \o endpoint) \o fifo) \o p = (received \o endpoint) \o (fifo \o p)
  <2> DEFINE sent == received \o endpoint
  <2> HIDE DEF p, sent
  <2>1. p \in Seq(Units) /\ sent \in Seq(Units) /\ fifo \in Seq(Units)
    BY <1>1, <1>2, <1>6 DEF sent
  <2>2. (sent \o fifo) \o p = sent \o (fifo \o p)
    BY <2>1, ConcatAssociative
  <2> QED BY <2>2 DEF sent
<1>8. Wire' = Wire \o p
  BY <1>7 DEF Wire
<1>9. Wire \o p = More(Wire, slot.id, offset, n)
  BY DEF More, Part
<1> QED BY <1>5, <1>8, <1>9

-----------------------------------------------------------------------------
(* Steps *)

LEMMA UsbInitInv == UsbInit => UsbInv
<1> SUFFICES ASSUME UsbInit PROVE UsbInv
  OBVIOUS
<1>1. <<>> \in Seq(Units) /\ <<>> \in Seq(Sizes) /\ Len(<<>>) = 0
  BY EmptySeq
<1>2. Wire = <<>>
  BY <1>1, ConcatEmptySeq DEF UsbInit, Wire
<1>3. WireType
  BY UsbAssumption, <1>1 DEF UsbInit, WireType, UsbAssumption
<1>4. TaskType
  BY UsbAssumption, <1>1 DEF UsbInit, TaskType, UsbAssumption
<1>5. SlotType /\ WriterType
  BY DEF UsbInit, SlotType, WriterType, LockHeld
<1>6. EndInv
  BY <1>1, <1>2 DEF EndInv, Ordered, Before, UsbInit
<1>7. SentInv
  BY DEF SentInv, UsbInit
<1> QED BY <1>3, <1>4, <1>5, <1>6, <1>7 DEF UsbInv

LEMMA WireStays == ASSUME WireType, UNCHANGED wireVars PROVE WireType' /\ Wire' = Wire
BY DEF WireType, wireVars, Wire

\* A step that moves units along the wire or none at all, and nothing else of the invariant.
LEMMA WireStep ==
    ASSUME UsbInv, WireType', Wire' = Wire,
           UNCHANGED <<taskVars, slotVars, tx, offset, cut>>
    PROVE  UsbInv'
<1>1. TaskType'
  BY DEF UsbInv, TaskType, taskVars
<1>2. SlotType'
  BY DEF UsbInv, SlotType, taskVars, slotVars
<1>3. WriterType'
  BY DEF UsbInv, WriterType, LockHeld, slotVars
<1>4. EndInv'
  BY DEF UsbInv, EndInv, taskVars, slotVars
<1>5. SentInv'
  BY DEF UsbInv, SentInv, taskVars, slotVars
<1> QED BY <1>1, <1>2, <1>3, <1>4, <1>5 DEF UsbInv

\* The callback's steps that leave the answers alone.
LEMMA QuietCallback ==
    ASSUME UsbInv, LeaveCallback \/ RetryQueue PROVE UsbInv'
<1>1. WireType' /\ Wire' = Wire
  BY WireStays DEF UsbInv, LeaveCallback, RetryQueue
<1>2. TaskType'
  BY DEF UsbInv, TaskType, LeaveCallback, RetryQueue
<1>3. SlotType'
  <2>1. usb' = "queue" => usb = "queue"
    BY DEF LeaveCallback, RetryQueue
  <2>2. slot' = slot /\ pending' = pending /\ made' = made /\ sizes' = sizes
    BY DEF slotVars, LeaveCallback, RetryQueue
  <2> QED BY <2>1, <2>2 DEF UsbInv, SlotType
<1>4. WriterType'
  BY DEF UsbInv, WriterType, LockHeld, slotVars, txVars, LeaveCallback, RetryQueue
<1>5. EndInv'
  BY <1>1 DEF UsbInv, EndInv, slotVars, txVars, LeaveCallback, RetryQueue
<1>6. SentInv'
  BY <1>1 DEF UsbInv, SentInv, slotVars, txVars, LeaveCallback, RetryQueue
<1> QED BY <1>1, <1>2, <1>3, <1>4, <1>5, <1>6 DEF UsbInv

LEMMA ReceiveInv == ASSUME UsbInv, Receive PROVE UsbInv'
<1>1. WireType' /\ Wire' = Wire
  BY WireStays DEF UsbInv, Receive
<1>2. TaskType'
  <2>1. PICK n \in 1..MaxBurst : \E b \in [1..n -> Sizes] : made + n <= MaxAnswers /\ burst' = b
    BY Zenon DEF Receive
  <2>2. burst' \in Seq(Sizes) /\ Len(burst') = n
    BY <2>1
  <2> QED BY <2>1, <2>2 DEF UsbInv, TaskType, Receive
<1>3. SlotType' /\ WriterType'
  BY DEF UsbInv, TaskType, SlotType, WriterType, LockHeld, slotVars, txVars, Receive
<1>4. EndInv'
  BY <1>1 DEF UsbInv, EndInv, slotVars, txVars, Receive
<1>5. SentInv'
  BY <1>1 DEF UsbInv, SentInv, slotVars, txVars, Receive
<1> QED BY <1>1, <1>2, <1>3, <1>4, <1>5 DEF UsbInv

LEMMA ExecuteInv == ASSUME UsbInv, Execute PROVE UsbInv'
<1>1. WireType' /\ Wire' = Wire
  BY WireStays DEF UsbInv, Execute
<1>2. Len(burst) \in Nat \ {0} /\ Head(burst) \in Sizes /\ Tail(burst) \in Seq(Sizes)
      /\ Len(Tail(burst)) = Len(burst) - 1
  BY HeadTailProperties, EmptySeq, LenProperties DEF UsbInv, TaskType, Execute
<1>3. made \in 0..MaxAnswers /\ made + Len(burst) <= MaxAnswers
      /\ made' = made + 1 /\ burst' = Tail(burst) /\ usb' = "queue"
      /\ answer' = [id |-> made + 1, size |-> Head(burst)]
  BY DEF UsbInv, TaskType, Execute
<1>4. made' \in 1..MaxAnswers /\ made' + Len(burst') <= MaxAnswers /\ MaxAnswers \in Int
  BY <1>2, <1>3, UsbAssumption DEF UsbAssumption
<1>5. answer' \in Answers /\ answer'.id = made'
  BY <1>2, <1>3, <1>4 DEF Answers
<1>6. /\ sizes' \in [1..MaxAnswers -> Sizes \cup {0}] /\ sizes'[made'] = Head(burst)
      /\ \A i \in 1..made : sizes'[i] = sizes[i]
  <2>1. sizes \in [1..MaxAnswers -> Sizes \cup {0}] /\ sizes' = [sizes EXCEPT ![made'] = Head(burst)]
    BY <1>3 DEF UsbInv, TaskType, Execute
  <2>2. \A i \in 1..made : i \in 1..MaxAnswers /\ i # made'
    BY <1>3, <1>4
  <2> QED BY <1>2, <1>4, <2>1, <2>2
<1>7. TaskType'
  BY <1>2, <1>3, <1>4, <1>5, <1>6 DEF TaskType
<1>8. SlotType' /\ WriterType'
  BY <1>3, <1>6 DEF UsbInv, TaskType, SlotType, WriterType, LockHeld, slotVars, txVars, Execute
<1>9. Before(Wire, made + 1) /\ Sequence(Wire)
  BY WireIs DEF UsbInv, EndInv
<1>10. Before(Wire, made + 2)
  <2> SUFFICES ASSUME NEW k \in 1..Len(Wire) PROVE Wire[k][1] < made + 2
    BY DEF Before
  <2>1. Wire[k] \in Units /\ Wire[k][1] < made + 1
    BY <1>9 DEF Sequence, Before
  <2> QED BY <1>3, <2>1, UnitParts
<1>11. EndInv'
  BY <1>1, <1>3, <1>9, <1>10 DEF UsbInv, EndInv, slotVars, txVars, Execute
<1>12. SentInv'
  <2>1. ASSUME NEW i \in 1..made'
        PROVE  i \in {answer'.id, slot'.id} \cup refused' \cup cut' \/ Whole(Wire', i, sizes'[i])
    <3>1. CASE i = made'
      BY <1>5, <3>1
    <3>2. CASE i # made'
      <4>1. i \in 1..made
        BY <1>3, <3>2
      <4>2. answer.id = 0
        BY DEF UsbInv, TaskType, Execute, NoAnswer
      <4>3. i \in {slot.id} \cup refused \cup cut \/ Whole(Wire, i, sizes[i])
        BY <4>1, <4>2 DEF UsbInv, SentInv
      <4> QED BY <1>1, <1>6, <4>1, <4>3 DEF slotVars, txVars, Execute
    <3> QED BY <3>1, <3>2
  <2>2. pending' => UnitsOf(Wire', slot'.id) = 1..offset'
    BY <1>1 DEF UsbInv, SentInv, slotVars, txVars, Execute
  <2> QED BY <2>1, <2>2 DEF SentInv
<1> QED BY <1>1, <1>7, <1>8, <1>11, <1>12 DEF UsbInv

\* The answer goes into the slot, and nothing of it is on the wire yet.
LEMMA QueueInv == ASSUME UsbInv, Queue PROVE UsbInv'
<1>1. WireType' /\ Wire' = Wire
  BY WireStays DEF UsbInv, Queue
<1>2. /\ usb = "queue" /\ answer \in Answers /\ answer.id = made /\ made \in 1..MaxAnswers
      /\ answer.size = sizes[made]
      /\ slot = NoAnswer /\ offset = 0 /\ Before(Wire, made)
  <2>1. usb = "queue" /\ answer \in Answers /\ answer.id = made /\ answer.size = sizes[made]
    BY DEF UsbInv, TaskType, Queue
  <2>2. made \in 1..MaxAnswers
    BY <2>1 DEF Answers
  <2>3. slot = NoAnswer /\ offset = 0 /\ Before(Wire, made)
    BY <2>1 DEF UsbInv, SlotType, WriterType, EndInv, Queue
  <2> QED BY <2>1, <2>2, <2>3
<1>3. /\ slot' = answer /\ pending' = TRUE /\ usb' = "command" /\ answer' = NoAnswer
      /\ made' = made /\ refused' = refused /\ tx' = tx /\ offset' = offset /\ cut' = cut
      /\ burst' = burst /\ sizes' = sizes
  BY DEF Queue, txVars
<1>4. TaskType'
  BY <1>2, <1>3 DEF UsbInv, TaskType
<1>5. SlotType'
  BY <1>2, <1>3 DEF SlotType
<1>6. WriterType'
  BY <1>3 DEF UsbInv, WriterType, LockHeld, Queue
<1>7. EndInv'
  BY <1>1, <1>2, <1>3 DEF UsbInv, EndInv, EndsWith
<1>8. SentInv'
  <2>1. UnitsOf(Wire, made) = 1..0
    BY <1>2, BeforeHasNone, WireIs DEF UsbInv
  <2>2. ASSUME NEW i \in 1..made
        PROVE  i \in {slot'.id} \cup refused \cup cut \/ Whole(Wire, i, sizes[i])
    <3>1. i \in {answer.id, slot.id} \cup refused \cup cut \/ Whole(Wire, i, sizes[i])
      BY DEF UsbInv, SentInv
    <3>2. slot.id # i
      BY <1>2 DEF NoAnswer
    <3> QED BY <1>3, <3>1, <3>2
  <2> QED BY <1>1, <1>2, <1>3, <2>1, <2>2 DEF SentInv
<1> QED BY <1>1, <1>4, <1>5, <1>6, <1>7, <1>8 DEF UsbInv

LEMMA RefuseInv == ASSUME UsbInv, RefuseAnswer PROVE UsbInv'
<1>1. WireType' /\ Wire' = Wire
  BY WireStays DEF UsbInv, RefuseAnswer
<1>2. TaskType'
  BY DEF UsbInv, TaskType, RefuseAnswer
<1>3. SlotType' /\ WriterType'
  BY DEF UsbInv, TaskType, SlotType, WriterType, LockHeld, slotVars, txVars, RefuseAnswer
<1>4. EndInv'
  BY <1>1 DEF UsbInv, EndInv, slotVars, txVars, RefuseAnswer
<1>5. SentInv'
  <2>1. ASSUME NEW i \in 1..made
        PROVE  i \in {answer'.id, slot'.id} \cup refused' \cup cut' \/ Whole(Wire, i, sizes[i])
    BY DEF UsbInv, SentInv, RefuseAnswer, slotVars, txVars
  <2>2. made' = made /\ sizes' = sizes /\ (pending' => UnitsOf(Wire, slot'.id) = 1..offset')
    BY DEF UsbInv, SentInv, RefuseAnswer, slotVars, txVars
  <2> QED BY <1>1, <2>1, <2>2 DEF SentInv
<1> QED BY <1>1, <1>2, <1>3, <1>4, <1>5 DEF UsbInv

\* The writer's steps between answers and between its two loops.
LEMMA QuietWriter ==
    ASSUME UsbInv, Wake \/ StartAnswer \/ NothingPending \/ StartFlush PROVE UsbInv'
<1>1. WireType' /\ Wire' = Wire
  BY WireStays DEF UsbInv, Wake, StartAnswer, NothingPending, StartFlush
<1>2. TaskType'
  BY DEF UsbInv, TaskType, taskVars, Wake, StartAnswer, NothingPending, StartFlush
<1>3. SlotType'
  BY DEF UsbInv, SlotType, taskVars, slotVars, Wake, StartAnswer, NothingPending, StartFlush
<1>4. WriterType' /\ offset' = offset
  <2>1. slot \in Answers => slot.size \in Nat
    BY UsbAssumption DEF Answers, UsbAssumption
  <2> QED BY <2>1 DEF UsbInv, SlotType, WriterType, LockHeld, slotVars, Wake, StartAnswer,
                      NothingPending, StartFlush
<1>5. EndInv'
  BY <1>1, <1>4 DEF UsbInv, EndInv, taskVars, slotVars, Wake, StartAnswer, NothingPending, StartFlush
<1>6. SentInv'
  BY <1>1, <1>4 DEF UsbInv, SentInv, taskVars, slotVars, Wake, StartAnswer, NothingPending, StartFlush
<1> QED BY <1>1, <1>2, <1>3, <1>4, <1>5, <1>6 DEF UsbInv

\* A part of the slot goes on the wire.
LEMMA FillInv == ASSUME UsbInv, Fill PROVE UsbInv'
<1> DEFINE n == IF Room < slot.size - offset THEN Room ELSE slot.size - offset
<1>1. /\ tx = "fill" /\ pending = TRUE /\ slot \in Answers /\ slot.id \in 1..made
      /\ slot.size \in Nat /\ offset \in Nat /\ offset < slot.size /\ Room \in Nat \ {0}
      /\ made \in 0..MaxAnswers /\ slot.id \in 1..MaxAnswers
  <2>1. tx = "fill" /\ pending = TRUE /\ offset \in 0..slot.size
    BY DEF UsbInv, WriterType, SlotType, LockHeld, Fill
  <2>2. slot \in Answers /\ slot.id \in 1..made /\ made \in 0..MaxAnswers
    BY <2>1 DEF UsbInv, SlotType, TaskType
  <2>3. slot.size \in Nat /\ slot.id \in 1..MaxAnswers
    BY UsbAssumption, <2>2 DEF Answers, UsbAssumption
  <2>4. Len(fifo) \in Nat /\ Len(fifo) <= FifoSize /\ FifoSize \in Nat
    BY UsbAssumption, LenProperties DEF UsbInv, WireType, UsbAssumption
  <2>5. Room \in Nat \ {0}
    BY <2>4 DEF Room, Fill
  <2> QED BY <2>1, <2>2, <2>3, <2>5 DEF Fill
<1>2. n \in Nat \ {0} /\ n <= Room /\ offset + n \in 1..slot.size
  BY <1>1
<1>3. /\ fifo' = fifo \o Part(slot, offset, n) /\ offset' = offset + n
      /\ UNCHANGED <<endpoint, transfer, received, burst, usb, answer, made, sizes, refused, slot,
                     pending, tx, cut>>
  BY DEF Fill, slotVars, taskVars
<1> HIDE DEF n
<1>4. WireType' /\ Wire' = More(Wire, slot.id, offset, n)
  BY <1>1, <1>2, <1>3, FillWire DEF UsbInv
<1>5. Sequence(Wire) /\ Ordered(Wire) /\ EndsWith(Wire, slot.id, offset)
  BY <1>1, WireIs DEF UsbInv, EndInv
<1>6. Ordered(Wire') /\ EndsWith(Wire', slot.id, offset + n)
  BY <1>1, <1>2, <1>4, <1>5, MoreOrdered
<1>7. /\ UnitsOf(Wire, slot.id) = 1..offset => UnitsOf(Wire', slot.id) = 1..(offset + n)
      /\ \A j : j # slot.id => UnitsOf(Wire', j) = UnitsOf(Wire, j)
      /\ \A j \in Nat : Before(Wire, j) /\ slot.id < j => Before(Wire', j)
  <2> DEFINE i == slot.id
             w == Wire
             m == offset
  <2>1. i \in 1..MaxAnswers /\ m \in Nat /\ n \in Nat /\ Sequence(w)
    BY <1>1, <1>2, <1>5
  <2>2. Wire' = More(w, i, m, n)
    BY <1>4
  <2> HIDE DEF i, w, m
  <2>3. /\ UnitsOf(w, i) = 1..m => UnitsOf(More(w, i, m, n), i) = 1..(m + n)
        /\ \A j : j # i => UnitsOf(More(w, i, m, n), j) = UnitsOf(w, j)
        /\ \A j \in Nat : Before(w, j) /\ i < j => Before(More(w, i, m, n), j)
    BY <2>1, MoreUnits
  <2>4. /\ UnitsOf(w, i) = 1..m => UnitsOf(Wire', i) = 1..(m + n)
        /\ \A j : j # i => UnitsOf(Wire', j) = UnitsOf(w, j)
        /\ \A j \in Nat : Before(w, j) /\ i < j => Before(Wire', j)
    BY <2>2, <2>3
  <2> QED BY <2>4 DEF i, w, m
<1>8. TaskType'
  BY <1>3 DEF UsbInv, TaskType
<1>9. SlotType'
  BY <1>3 DEF UsbInv, SlotType
<1>10. WriterType'
  BY <1>1, <1>2, <1>3 DEF WriterType, LockHeld
<1>11. EndInv'
  <2>1. Before(Wire', made + 1)
    BY <1>1, <1>7 DEF UsbInv, EndInv
  <2>2. usb = "queue" => Before(Wire', made)
    BY <1>1, <1>7 DEF UsbInv, EndInv, SlotType
  <2> QED BY <1>3, <1>6, <2>1, <2>2 DEF EndInv
<1>12. SentInv'
  <2>1. UnitsOf(Wire', slot.id) = 1..(offset + n)
    BY <1>1, <1>7 DEF UsbInv, SentInv
  <2>2. ASSUME NEW i \in 1..made
        PROVE  i \in {answer.id, slot.id} \cup refused \cup cut \/ Whole(Wire', i, sizes'[i])
    <3>1. CASE i = slot.id
      BY <3>1
    <3>2. CASE i # slot.id
      <4>1. i \in {answer.id, slot.id} \cup refused \cup cut \/ Whole(Wire, i, sizes[i])
        BY DEF UsbInv, SentInv
      <4>2. Whole(Wire, i, sizes[i]) => Whole(Wire', i, sizes'[i])
        BY <1>3, <1>7, <3>2 DEF Whole
      <4> QED BY <4>1, <4>2
    <3> QED BY <3>1, <3>2
  <2> QED BY <1>3, <2>1, <2>2 DEF SentInv
<1> QED BY <1>4, <1>8, <1>9, <1>10, <1>11, <1>12 DEF UsbInv

\* An answer ends whole, or is one of those given up.
LEMMA EndAnswerInv ==
    ASSUME UsbInv, EndAnswer, WireType', Wire' = Wire, UNCHANGED taskVars, LockHeld,
           \/ offset = slot.size /\ cut' = cut
           \/ cut' = cut \cup {slot.id}
    PROVE  UsbInv'
<1>1. /\ slot' = NoAnswer /\ pending' = FALSE /\ tx' = "look" /\ offset' = 0
  BY DEF EndAnswer
<1>2. /\ usb' = usb /\ made' = made /\ answer' = answer /\ refused' = refused /\ burst' = burst
      /\ sizes' = sizes
  BY DEF taskVars
<1>3. TaskType'
  BY <1>2 DEF UsbInv, TaskType
<1>4. SlotType' /\ WriterType'
  BY <1>1 DEF SlotType, WriterType, LockHeld
<1>5. EndInv'
  BY <1>1, <1>2 DEF UsbInv, EndInv
<1>6. SentInv'
  <2>1. ASSUME NEW i \in 1..made
        PROVE  i \in {answer.id} \cup refused \cup cut' \/ Whole(Wire, i, sizes[i])
    <3>1. i \in {answer.id, slot.id} \cup refused \cup cut \/ Whole(Wire, i, sizes[i])
      BY DEF UsbInv, SentInv
    <3>2. CASE i = slot.id /\ offset = slot.size
      <4>1. pending /\ slot.size = sizes[slot.id]
        BY DEF UsbInv, WriterType, SlotType
      <4>2. UnitsOf(Wire, i) = 1..slot.size
        BY <3>2, <4>1 DEF UsbInv, SentInv
      <4> QED BY <3>2, <4>1, <4>2 DEF Whole
    <3> QED BY <3>1, <3>2
  <2> QED BY <1>1, <1>2, <2>1 DEF SentInv
<1> QED BY <1>3, <1>4, <1>5, <1>6 DEF UsbInv

LEMMA GiveUpInv == ASSUME UsbInv, GiveUp PROVE UsbInv'
<1>1. WireType' /\ Wire' = Wire
  BY FlushKeeps DEF UsbInv, GiveUp
<1>2. LockHeld /\ EndAnswer /\ cut' = cut \cup {slot.id} /\ UNCHANGED taskVars
  BY DEF GiveUp, LockHeld
<1> QED BY <1>1, <1>2, EndAnswerInv

LEMMA FinalFlushInv == ASSUME UsbInv, FinalFlush PROVE UsbInv'
<1>1. WireType' /\ Wire' = Wire
  BY FlushKeeps DEF UsbInv, FinalFlush
<1>2. LockHeld /\ offset = slot.size /\ cut' = cut /\ UNCHANGED taskVars
  BY DEF UsbInv, WriterType, FinalFlush, LockHeld
<1>3. CASE EndAnswer
  BY <1>1, <1>2, <1>3, EndAnswerInv
<1>4. CASE UNCHANGED <<tx, offset, slotVars>>
  BY <1>1, <1>2, <1>4, WireStep
<1> QED BY <1>3, <1>4 DEF FinalFlush

LEMMA UsbNextInv == ASSUME UsbInv, [UsbNext]_usbVars PROVE UsbInv'
<1>1. CASE Fill
  BY <1>1, FillInv
<1>2. CASE Wake \/ StartAnswer \/ NothingPending \/ StartFlush
  BY <1>2, QuietWriter
<1>3. CASE FlushFull
  <2>1. WireType' /\ Wire' = Wire
    BY <1>3, FlushKeeps DEF UsbInv, FlushFull
  <2> QED BY <1>3, <2>1, WireStep DEF FlushFull
<1>4. CASE GiveUp \/ FinalFlush
  BY <1>4, GiveUpInv, FinalFlushInv
<1>5. CASE Execute \/ Queue \/ RefuseAnswer \/ Receive
  BY <1>5, ExecuteInv, QueueInv, RefuseInv, ReceiveInv
<1>6. CASE LeaveCallback \/ RetryQueue
  BY <1>6, QuietCallback
<1>7. CASE HostReads
  <2>1. WireType' /\ Wire' = Wire
    BY <1>7, HostKeeps DEF UsbInv
  <2> QED BY <1>7, <2>1, WireStep DEF HostReads, txVars
<1>8. CASE Complete
  <2>1. endpoint = <<>> /\ Armed(fifo) /\ received' = received
    BY <1>8 DEF UsbInv, WireType, Complete
  <2>2. WireType' /\ Wire' = Wire
    BY <2>1, ArmedKeeps DEF UsbInv
  <2> QED BY <1>8, <2>2, WireStep DEF Complete, txVars
<1>9. CASE UNCHANGED usbVars
  <2>1. WireType' /\ Wire' = Wire
    BY <1>9, WireStays DEF UsbInv, usbVars
  <2> QED BY <1>9, <2>1, WireStep DEF usbVars, txVars
<1> QED BY <1>1, <1>2, <1>3, <1>4, <1>5, <1>6, <1>7, <1>8, <1>9 DEF UsbNext, Writer, Callback

\* On a USB port the host reads the answers in the order of the commands, each from its
\* first unit on, and an answer that was not given up is in the slot or on the wire as a
\* whole, for any sizes of answers and buffers and any limit of retries (usb_com_queue_tx,
\* usb_com_write_bytes).
THEOREM AnswersCorrect == UsbSpec => []AnswersAreKept
<1>1. UsbInv => AnswersAreKept
  <2> SUFFICES ASSUME UsbInv PROVE AnswersAreKept
    OBVIOUS
  <2>1. AnswersInOrder
    BY DEF UsbInv, EndInv, Ordered, AnswersInOrder
  <2>2. NoAnswerLost
    BY DEF UsbInv, SentInv, Whole, UnitsOf, NoAnswerLost, SentOf
  <2> QED BY <2>1, <2>2 DEF AnswersAreKept
<1> QED BY <1>1, UsbInitInv, UsbNextInv, PTL DEF UsbSpec
====
