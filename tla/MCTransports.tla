---------------------------- MODULE MCTransports ----------------------------
(***************************************************************************)
(* Network and UsbTransport for TLC.  TCP and USB share no state below the *)
(* commands, so each behaviour moves one of the two.                       *)
(***************************************************************************)
EXTENDS Network, UsbTransport

VARIABLE transport

AllNext ==
    \/ transport = "tcp" /\ Next /\ UNCHANGED <<transport, usbVars>>
    \/ transport = "usb" /\ UsbNext /\ UNCHANGED <<transport, vars>>

Moves(part, A) == transport = part /\ A

\* The fairness of Network and of UsbTransport.
AllFairness ==
    /\ WF_vars(Moves("tcp", HandleEvent)) /\ WF_vars(Moves("tcp", StartServer))
    /\ WF_vars(Moves("tcp", ServerStep)) /\ SF_vars(Moves("tcp", OpenListener))
    /\ WF_vars(Moves("tcp", radio = "connecting" /\ (Join \/ Drop)))
    /\ WF_usbVars(Moves("usb", Writer)) /\ WF_usbVars(Moves("usb", Callback))
    /\ WF_usbVars(Moves("usb", HostReads)) /\ WF_usbVars(Moves("usb", Complete))

AllInit == transport \in {"tcp", "usb"} /\ Init /\ UsbInit

AllSpec == AllInit /\ [][AllNext]_<<transport, vars, usbVars>>

AllFairSpec == AllSpec /\ AllFairness

\* See Network: start-up, sessions and the listener get past every loss.
NetworkComesBack == transport = "tcp" => NetworkRecovers

\* wifi_connection.h:34 says the module "retries failed connects up to three times before
\* giving up for the current startup".
StartupEnds == transport = "tcp" => <>(main = "done")
=============================================================================
