----------------------------- MODULE StatusLed -----------------------------
(***************************************************************************)
(* The USB and Wi-Fi lights: flags that the USB task, the event loop and   *)
(* start-up write one at a time, and a task that reads them one at a time  *)
(* every 50 ms.  No lock is taken.                                         *)
(*                                                                         *)
(* A light is what it shows over time: "dark", "solid", "breath" or        *)
(* "blink" (the duty of one instant is left out), and LEDC takes every     *)
(* duty.                                                                   *)
(***************************************************************************)
EXTENDS Integers, Sequences

CONSTANTS
    MaxRetries,     \* WIFI_CONNECTION_MAX_RETRIES
    MaxEvents       \* bound on the events of each light

VARIABLES
    flags,          \* the volatile flags of s_status_led
    pending,        \* the writes each task has still to make
    boot,           \* where app_main is: "leds", "usb", "wifi", "wait", "done"
    usb, wifi,      \* what each light is to show
    retry_count,    \* s_wifi_connection
    reader,         \* where the LED task is in its pass
    lights,         \* what is shown
    quiet,          \* history: no flag was written since the pass began
    recent,         \* history: states of Wi-Fi that flags read in this pass can be of
    early,          \* history: USB came up before usb_com_init had ended
    events          \* events so far of each light

ledVars == <<flags, pending, boot, usb, wifi, retry_count, reader, lights, quiet, recent, early, events>>

Flags == {"usb_connected", "usb_failed", "wifi_connected", "wifi_connecting", "wifi_failed"}
Tasks == {"main", "tinyusb", "events"}

LedInit ==
    /\ flags = [f \in Flags |-> FALSE] /\ pending = [t \in Tasks |-> <<>>]
    /\ boot = "usb" /\ usb = "dark" /\ wifi = "dark" /\ retry_count = 0
    /\ reader = "usb_failed" /\ lights = [usb |-> "dark", wifi |-> "dark"]
    /\ quiet = TRUE /\ recent = {"dark"} /\ early = FALSE
    /\ events = [usb |-> 0, wifi |-> 0]

(* The setters, as the writes they make. *)

Raise(f) == <<f, TRUE>>
Lower(f) == <<f, FALSE>>

set_usb_connected(v) ==
    IF v THEN <<Raise("usb_connected"), Lower("usb_failed")>> ELSE <<Lower("usb_connected")>>
set_usb_failed(v) ==
    IF v THEN <<Raise("usb_failed"), Lower("usb_connected")>> ELSE <<Lower("usb_failed")>>
set_wifi_connected(v) ==
    IF v THEN <<Raise("wifi_connected"), Lower("wifi_connecting"), Lower("wifi_failed")>>
    ELSE <<Lower("wifi_connected")>>
set_wifi_connecting(v) ==
    IF v THEN <<Raise("wifi_connecting"), Lower("wifi_connected"), Lower("wifi_failed")>>
    ELSE <<Lower("wifi_connecting")>>
set_wifi_failed(v) ==
    IF v THEN <<Raise("wifi_failed"), Lower("wifi_connected"), Lower("wifi_connecting")>>
    ELSE <<Lower("wifi_failed")>>

Write(t) ==
    /\ pending[t] # <<>>
    /\ flags' = [flags EXCEPT ![Head(pending[t])[1]] = Head(pending[t])[2]]
    /\ pending' = [pending EXCEPT ![t] = Tail(@)]
    /\ quiet' = FALSE
    /\ UNCHANGED <<boot, usb, wifi, retry_count, reader, lights, recent, early, events>>

\* Task t goes on to these writes.
Start(t, writes) == pending[t] = <<>> /\ pending' = [pending EXCEPT ![t] = writes]

\* The end of usb_com_init, and the head of wifi_connection_init; the driver runs before either.
BootUsb ==
    /\ boot = "usb" /\ boot' = "wifi"
    /\ Start("main", set_usb_failed(FALSE) \o set_usb_connected(FALSE) \o set_wifi_connected(FALSE)
                     \o set_wifi_connecting(FALSE) \o set_wifi_failed(FALSE))
    /\ UNCHANGED <<flags, usb, wifi, retry_count, reader, lights, quiet, recent, early, events>>

\* wifi_connection_init starts the station, or leaves it when no credentials are set.
BootWifi ==
    /\ boot = "wifi" /\ pending["main"] = <<>>
    /\ boot' \in {"wait", "done"}
    /\ UNCHANGED <<flags, pending, usb, wifi, retry_count, reader, lights, quiet, recent, early, events>>

\* Its wait for the CONNECTED or the FAILED bit ends.
BootEnds ==
    /\ boot = "wait" /\ boot' = "done"
    /\ \/ wifi = "blink" /\ pending["events"] = <<>>
          /\ Start("main", set_wifi_connected(FALSE) \o set_wifi_connecting(FALSE) \o set_wifi_failed(TRUE))
       \/ wifi = "solid" /\ pending["events"] = <<>> /\ UNCHANGED pending
    /\ UNCHANGED <<flags, usb, wifi, retry_count, reader, lights, quiet, recent, early, events>>
-----------------------------------------------------------------------------
(* Events *)

\* ATTACHED, mount or resume; DETACHED, unmount or suspend.
UsbEvent ==
    /\ events.usb < MaxEvents /\ events' = [events EXCEPT !.usb = @ + 1]
    /\ \/ usb' = "solid" /\ Start("tinyusb", set_usb_failed(FALSE) \o set_usb_connected(TRUE))
       \/ usb' = "dark" /\ Start("tinyusb", set_usb_connected(FALSE))
    /\ early' = (usb' = "solid" /\ (boot = "usb" \/ pending["main"] # <<>>))
    /\ UNCHANGED <<flags, boot, wifi, retry_count, reader, lights, quiet, recent>>

WifiEvent(state, retries, writes) ==
    /\ events.wifi < MaxEvents /\ events' = [events EXCEPT !.wifi = @ + 1]
    /\ wifi' = state /\ recent' = recent \cup {state} /\ retry_count' = retries
    /\ Start("events", writes)
    /\ UNCHANGED <<flags, boot, usb, reader, lights, quiet, early>>

StaStart ==
    /\ boot = "wait" /\ wifi = "dark" /\ events.wifi = 0
    /\ WifiEvent("breath", 0, set_wifi_connected(FALSE) \o set_wifi_connecting(TRUE) \o set_wifi_failed(FALSE))

Retry ==
    /\ wifi \in {"breath", "solid", "lost"} /\ retry_count < MaxRetries
    /\ WifiEvent("breath", retry_count + 1,
                 set_wifi_connected(FALSE) \o set_wifi_failed(FALSE) \o set_wifi_connecting(TRUE))

Exhausted ==
    /\ wifi \in {"breath", "solid", "lost"} /\ retry_count >= MaxRetries
    /\ WifiEvent("blink", retry_count,
                 set_wifi_connected(FALSE) \o set_wifi_failed(FALSE) \o set_wifi_connecting(FALSE)
                 \o set_wifi_failed(TRUE))

\* Mutant: the loss of the address does not reach the light.
LostIpUnseen ==
    /\ wifi = "solid"
    /\ WifiEvent("lost", retry_count, <<>>)

LostIp ==
    /\ wifi = "solid"
    /\ WifiEvent("lost", retry_count, set_wifi_connected(FALSE))

GotIp ==
    /\ wifi \in {"breath", "lost"}
    /\ WifiEvent("solid", 0,
                 set_wifi_connecting(FALSE) \o set_wifi_failed(FALSE) \o set_wifi_connected(TRUE))
-----------------------------------------------------------------------------
(* The LED task: status_led_get_duty, one flag after the other *)

Read(flag, next) ==
    /\ reader = flag /\ ~flags[flag]
    /\ reader' = next
    /\ UNCHANGED <<flags, pending, boot, usb, wifi, retry_count, lights, quiet, recent, early, events>>

Show(light, at, next) ==
    /\ at
    /\ reader' = next
    /\ lights' = [lights EXCEPT ![light] =
           CASE reader \in {"usb_failed", "wifi_failed"} -> "blink"
             [] reader \in {"usb_connected", "wifi_connected"} -> "solid"
             [] reader = "wifi_connecting" -> "breath"
             [] OTHER -> "dark"]
    /\ UNCHANGED <<flags, pending, boot, usb, wifi, retry_count, quiet, recent, early, events>>

ReadUsb ==
    \/ Read("usb_failed", "usb_connected") \/ Read("usb_connected", "usb_none")
    \/ Show("usb", reader \in {"usb_failed", "usb_connected"} /\ flags[reader], "wifi_failed")
    \/ Show("usb", reader = "usb_none", "wifi_failed")

ReadWifi ==
    \/ Read("wifi_failed", "wifi_connected") \/ Read("wifi_connected", "wifi_connecting")
    \/ Read("wifi_connecting", "wifi_none")
    \/ Show("wifi", reader \in {"wifi_failed", "wifi_connected", "wifi_connecting"} /\ flags[reader], "delay")
    \/ Show("wifi", reader = "wifi_none", "delay")

\* The next pass.
Delay ==
    /\ reader = "delay" /\ reader' = "usb_failed"
    /\ quiet' = TRUE
    /\ recent' = IF pending["events"] = <<>> /\ pending["main"] = <<>> THEN {wifi} ELSE recent
    /\ UNCHANGED <<flags, pending, boot, usb, wifi, retry_count, lights, early, events>>

LedTask == ReadUsb \/ ReadWifi \/ Delay

LedNext ==
    \/ \E t \in Tasks : Write(t)
    \/ BootUsb \/ BootWifi \/ BootEnds
    \/ UsbEvent
    \/ StaStart \/ Retry \/ Exhausted \/ LostIp \/ GotIp
    \/ LedTask

LedSpec == LedInit /\ [][LedNext]_ledVars
-----------------------------------------------------------------------------
Settled == reader = "delay" /\ quiet /\ \A t \in Tasks : pending[t] = <<>>

\* After a pass over flags nobody wrote meanwhile the lights show what is so, but for a USB
\* that came up before usb_com_init had ended and is shown dark; a pass that tasks write
\* into shows dark or a state of Wi-Fi that is or was so since the flags were last at rest.
LedsTellTheTruth ==
    /\ Settled => /\ lights.usb = usb \/ (early /\ lights.usb = "dark")
                  /\ lights.wifi = IF wifi = "lost" THEN "dark" ELSE wifi
    /\ reader = "delay" => lights.wifi \in recent \cup {"dark"}
=============================================================================
