---------------------------- MODULE UsbTransport ----------------------------
(***************************************************************************)
(* SCPI answers over USB CDC (usb_com.c).  Three parties move an answer:   *)
(*                                                                         *)
(*   - TinyUSB's task runs the receive callback, which executes every      *)
(*     command of a burst in turn and leaves each answer in the only       *)
(*     transmit slot (usb_com_queue_tx);                                   *)
(*   - usb_com_tx_task copies the slot into TinyUSB's FIFO, holding        *)
(*     tx_lock until the whole answer is in it;                            *)
(*   - the endpoint is emptied by the host, but it is TinyUSB's task again *)
(*     that takes note of it and refills it from the FIFO.                 *)
(*                                                                         *)
(* So the writer needs TinyUSB's task to make room, and TinyUSB's task may *)
(* stand in front of tx_lock, which the writer holds.  Only the retry      *)
(* limit of the writer ends that, and it cuts the answer short.            *)
(*                                                                         *)
(* Data.  An answer is its number and its length in units of a part of the *)
(* FIFO; unit <<i, k>> is the k-th of answer i.  tx_lock is taken and      *)
(* given back within one step everywhere but around usb_com_write_bytes,   *)
(* so "the lock is held" is "the writer is inside usb_com_write_bytes".    *)
(***************************************************************************)
EXTENDS Naturals, Sequences, SequencesExt, FiniteSets

CONSTANTS
    FifoSize,    \* units that TinyUSB's transmit FIFO holds
    EndpointSize, \* units that the endpoint buffer holds
    Sizes,       \* lengths of an answer, in units
    MaxBurst,    \* commands the receive callback finds at once
    MaxAnswers,  \* bound on the answers of a behaviour
    RetryLimit,  \* USB_COM_TX_FLUSH_RETRY_LIMIT, USB_COM_TX_QUEUE_WAIT_RETRY_LIMIT
    Prompt       \* retries never run out while someone could still move

ASSUME UsbAssumption ==
    /\ {FifoSize, EndpointSize, MaxBurst, MaxAnswers, RetryLimit} \subseteq Nat \ {0}
    /\ Sizes \subseteq Nat \ {0}
    /\ Prompt \in BOOLEAN

VARIABLES
    burst,       \* lengths of the answers to the commands still to execute
    usb,         \* TinyUSB's task: "idle" in its own loop, "command", "queue"
    usbRetries,  \* retries of usb_com_queue_tx
    answer,      \* the answer usb_com_queue_tx holds
    made,        \* answers made so far
    slot,        \* tx_buffer and tx_length
    pending,     \* tx_pending
    notified,    \* the writer's task notification
    tx,          \* the writer: "sleep", "look", "fill", "flush"
    offset,      \* tx_offset
    txRetries,   \* retries of usb_com_write_bytes
    fifo,        \* units in TinyUSB's FIFO
    endpoint,    \* units in the endpoint buffer
    transfer,    \* the endpoint: "none", "armed" for the host, "complete"
    received,    \* history: units the host has
    sizes,       \* history: how long each answer is, 0 before it is made
    cut,         \* history: answers usb_com_write_bytes gave up on
    refused      \* history: answers usb_com_queue_tx gave up on

taskVars == <<burst, usb, usbRetries, answer, made, sizes, refused>>
slotVars == <<slot, pending, notified>>
txVars == <<tx, offset, txRetries, cut>>
wireVars == <<fifo, endpoint, transfer, received>>
usbVars == <<taskVars, slotVars, txVars, wireVars>>

NoAnswer == [id |-> 0, size |-> 0]
Answers == [id : 1..MaxAnswers, size : Sizes]
MaxSize == CHOOSE n \in Sizes : \A m \in Sizes : m <= n
Units == (1..MaxAnswers) \X (Nat \ {0})

\* Units offset + 1 .. offset + n of an answer.
Part(a, from, n) == [k \in 1..n |-> <<a.id, from + k>>]

\* tx_lock is held across a call only inside usb_com_write_bytes.
LockHeld == tx \in {"fill", "flush"}

Room == FifoSize - Len(fifo)

-----------------------------------------------------------------------------
UsbInit ==
    /\ burst = <<>> /\ usb = "idle" /\ usbRetries = 0 /\ answer = NoAnswer
    /\ made = 0 /\ sizes = [i \in 1..MaxAnswers |-> 0] /\ refused = {}
    /\ slot = NoAnswer /\ pending = FALSE /\ notified = FALSE
    /\ tx = "sleep" /\ offset = 0 /\ txRetries = 0 /\ cut = {}
    /\ fifo = <<>> /\ endpoint = <<>> /\ transfer = "none" /\ received = <<>>

(***************************************************************************)
(* The endpoint.  A flush arms an endpoint that is not in use with what    *)
(* the FIFO holds.  The host empties it; TinyUSB's task learns of it in    *)
(* its own loop and refills it.                                            *)
(***************************************************************************)
Armed(units) ==
    IF units = <<>>
    THEN /\ fifo' = <<>> /\ endpoint' = <<>> /\ transfer' = "none"
    ELSE LET n == IF Len(units) < EndpointSize THEN Len(units) ELSE EndpointSize
         IN  /\ endpoint' = SubSeq(units, 1, n)
             /\ fifo' = SubSeq(units, n + 1, Len(units))
             /\ transfer' = "armed"

Flush ==
    IF transfer = "none"
    THEN Armed(fifo)
    ELSE UNCHANGED <<fifo, endpoint, transfer>>

HostReads ==
    /\ transfer = "armed"
    /\ received' = received \o endpoint
    /\ transfer' = "complete"
    /\ endpoint' = <<>>
    /\ UNCHANGED <<fifo, taskVars, slotVars, txVars>>

Complete ==
    /\ usb = "idle"
    /\ transfer = "complete"
    /\ Armed(fifo)
    /\ UNCHANGED <<received, taskVars, slotVars, txVars>>

(***************************************************************************)
(* TinyUSB's task: the receive callback executes every command it finds    *)
(* and leaves the callback only when it has left every answer in the slot. *)
(***************************************************************************)
Receive ==
    /\ usb = "idle"
    /\ \E n \in 1..MaxBurst : \E b \in [1..n -> Sizes] :
          /\ made + n <= MaxAnswers
          /\ burst' = b
    /\ usb' = "command"
    /\ UNCHANGED <<usbRetries, answer, made, sizes, refused, slotVars, txVars, wireVars>>

Execute ==
    /\ usb = "command" /\ burst # <<>>
    /\ made' = made + 1
    /\ sizes' = [sizes EXCEPT ![made + 1] = Head(burst)]
    /\ answer' = [id |-> made + 1, size |-> Head(burst)]
    /\ burst' = Tail(burst)
    /\ usbRetries' = 0
    /\ usb' = "queue"
    /\ UNCHANGED <<refused, slotVars, txVars, wireVars>>

LeaveCallback ==
    /\ usb = "command" /\ burst = <<>>
    /\ usb' = "idle"
    /\ UNCHANGED <<burst, usbRetries, answer, made, sizes, refused, slotVars, txVars, wireVars>>

\* Mutant: an answer in the slot is overwritten.
QueueOverPending ==
    /\ usb = "queue" /\ ~LockHeld
    /\ slot' = answer
    /\ pending' = TRUE
    /\ notified' = TRUE
    /\ usb' = "command" /\ answer' = NoAnswer
    /\ UNCHANGED <<burst, usbRetries, made, sizes, refused, txVars, wireVars>>

Queue ==
    /\ usb = "queue" /\ ~LockHeld /\ ~pending
    /\ slot' = answer
    /\ pending' = TRUE
    /\ notified' = TRUE
    /\ usb' = "command" /\ answer' = NoAnswer
    /\ UNCHANGED <<burst, usbRetries, made, sizes, refused, txVars, wireVars>>

\* Another answer is in the slot and the writer has not taken the lock yet.
RetryQueue ==
    /\ usb = "queue" /\ ~LockHeld /\ pending
    /\ usbRetries < RetryLimit
    /\ usbRetries' = usbRetries + 1
    /\ UNCHANGED <<burst, usb, answer, made, sizes, refused, slotVars, txVars, wireVars>>

\* The answer is dropped.  The writer can always run here, so this takes a
\* writer that gets no turn for as long as the retries last.
RefuseAnswer ==
    /\ usb = "queue" /\ ~LockHeld /\ pending
    /\ usbRetries = RetryLimit
    /\ ~Prompt
    /\ refused' = refused \union {answer.id}
    /\ usb' = "command" /\ answer' = NoAnswer
    /\ UNCHANGED <<burst, usbRetries, made, sizes, slotVars, txVars, wireVars>>

(***************************************************************************)
(* The writer.                                                             *)
(***************************************************************************)
Wake ==
    /\ tx = "sleep" /\ notified
    /\ notified' = FALSE
    /\ tx' = "look"
    /\ UNCHANGED <<slot, pending, offset, txRetries, cut, taskVars, wireVars>>

StartAnswer ==
    /\ tx = "look" /\ pending
    /\ tx' = "fill" /\ offset' = 0 /\ txRetries' = 0
    /\ UNCHANGED <<cut, slotVars, taskVars, wireVars>>

NothingPending ==
    /\ tx = "look" /\ ~pending
    /\ tx' = "sleep"
    /\ UNCHANGED <<offset, txRetries, cut, slotVars, taskVars, wireVars>>

Fill ==
    /\ tx = "fill" /\ offset < slot.size /\ Room > 0
    /\ LET n == IF Room < slot.size - offset THEN Room ELSE slot.size - offset
       IN  /\ fifo' = fifo \o Part(slot, offset, n)
           /\ offset' = offset + n
    /\ txRetries' = 0
    /\ UNCHANGED <<tx, cut, slotVars, taskVars, endpoint, transfer, received>>

\* The FIFO is full: flush it and try again.
FlushFull ==
    /\ tx = "fill" /\ offset < slot.size /\ Room = 0
    /\ Flush
    /\ txRetries < RetryLimit
    /\ txRetries' = txRetries + 1
    /\ UNCHANGED <<tx, offset, cut, slotVars, taskVars, received>>

\* The FIFO can still move: the host has an armed endpoint to read, or
\* TinyUSB's task is free to refill a completed one.
CanMove == \/ transfer \in {"none", "armed"}
           \/ usb \in {"idle", "command"}

\* tx_pending and tx_length are reset and the lock is given back.
EndAnswer ==
    /\ slot' = NoAnswer
    /\ pending' = FALSE
    /\ tx' = "look" /\ offset' = 0 /\ txRetries' = 0
    /\ UNCHANGED notified

\* Mutant: the retries are not limited.
GiveUpNever ==
    /\ tx = "fill" /\ offset < slot.size /\ Room = 0
    /\ txRetries = RetryLimit
    /\ Flush
    /\ UNCHANGED <<txVars, slotVars, taskVars, received>>

GiveUp ==
    /\ tx = "fill" /\ offset < slot.size /\ Room = 0
    /\ txRetries = RetryLimit
    /\ Prompt => ~CanMove
    /\ Flush
    /\ EndAnswer
    /\ cut' = cut \union {slot.id}
    /\ UNCHANGED <<taskVars, received>>

StartFlush ==
    /\ tx = "fill" /\ offset = slot.size
    /\ tx' = "flush" /\ txRetries' = 0
    /\ UNCHANGED <<offset, cut, slotVars, taskVars, wireVars>>

\* The final flush: done once the FIFO is empty, or given up after the
\* retries.  What is in the FIFO by then still leaves with the endpoint.
FinalFlush ==
    /\ tx = "flush"
    /\ Flush
    /\ \/ /\ fifo' = <<>>
          /\ EndAnswer
       \/ /\ fifo' # <<>>
          /\ txRetries < RetryLimit
          /\ txRetries' = txRetries + 1
          /\ UNCHANGED <<tx, offset, slotVars>>
       \/ /\ fifo' # <<>>
          /\ txRetries = RetryLimit
          /\ Prompt => ~CanMove
          /\ EndAnswer
    /\ UNCHANGED <<cut, taskVars, received>>

-----------------------------------------------------------------------------
Writer == Wake \/ StartAnswer \/ NothingPending \/ Fill \/ FlushFull \/ GiveUp
          \/ StartFlush \/ FinalFlush
Callback == Execute \/ LeaveCallback \/ Queue \/ RetryQueue \/ RefuseAnswer

UsbNext == Writer \/ Callback \/ Receive \/ HostReads \/ Complete

UsbSpec == UsbInit /\ [][UsbNext]_usbVars

(***************************************************************************)
(* Both tasks run at the same priority and yield in every retry, and the   *)
(* host keeps polling the endpoint of an open port.  It need not send.     *)
(***************************************************************************)
UsbFairness ==
    /\ WF_usbVars(Writer)
    /\ WF_usbVars(Callback)
    /\ WF_usbVars(HostReads)
    /\ WF_usbVars(Complete)

UsbFairSpec == UsbSpec /\ UsbFairness

-----------------------------------------------------------------------------
UsbTypeOK ==
    /\ burst \in BoundedSeq(Sizes, MaxBurst)
    /\ usb \in {"idle", "command", "queue"}
    /\ usbRetries \in 0..RetryLimit
    /\ answer \in Answers \union {NoAnswer}
    /\ made \in 0..MaxAnswers
    /\ sizes \in [1..MaxAnswers -> Sizes \union {0}]
    /\ slot \in Answers \union {NoAnswer}
    /\ pending \in BOOLEAN /\ notified \in BOOLEAN
    /\ tx \in {"sleep", "look", "fill", "flush"}
    /\ offset \in 0..slot.size
    /\ txRetries \in 0..RetryLimit
    /\ fifo \in Seq(Units) /\ Len(fifo) <= FifoSize
    /\ endpoint \in Seq(Units) /\ Len(endpoint) <= EndpointSize
    /\ transfer \in {"none", "armed", "complete"}
    /\ received \in Seq(Units)
    /\ cut \subseteq 1..MaxAnswers /\ refused \subseteq 1..MaxAnswers

\* Everything sent so far, oldest first.
Wire == received \o endpoint \o fifo

SentOf(i) == {u[2] : u \in {v \in ToSet(Wire) : v[1] = i}}

\* What the host reads is made of answers in the order of the commands, each
\* from its first unit on and none twice, whatever was cut short
\* (usb_com_write_bytes, usb_com_queue_tx).
AnswersInOrder ==
    \A k \in 1..Len(Wire) :
        IF k > 1 /\ Wire[k - 1][1] = Wire[k][1]
        THEN Wire[k][2] = Wire[k - 1][2] + 1
        ELSE /\ Wire[k][2] = 1
             /\ k > 1 => Wire[k - 1][1] < Wire[k][1]

\* An answer that usb_com_queue_tx took is in the slot, or on the wire with
\* all its units, or one of those the writer gave up on: the slot is never
\* overwritten and the writer never leaves an answer half done in silence.
NoAnswerLost ==
    \A i \in 1..made :
        \/ i \in {answer.id, slot.id} \union refused \union cut
        \/ SentOf(i) = 1..sizes[i]

\* What is on the wire is in order and whole, or known to be given up.
AnswersAreKept == AnswersInOrder /\ NoAnswerLost

\* The receive callback never stands in front of the slot for ever
\* (usb_com_queue_tx waits for tx_lock without a time limit).
CallbackReturns == usb = "queue" ~> usb = "idle"

\* An answer in the slot always finds the writer, awake or woken
\* (xTaskNotifyGive in usb_com_queue_tx, the inner loop of usb_com_tx_task).
SlotIsServed == pending ~> ~pending

\* Whatever was handed to TinyUSB reaches a host that reads, without another
\* answer having to push it (usb_com_write_bytes gives up its final flush).
SentIsReceived ==
    \A n \in 1..(MaxAnswers * MaxSize) : Len(Wire) >= n ~> Len(received) >= n

\* The receive callback and the writer, each of which waits for the other at some
\* point, both come to an end, and the host gets what they sent.
TransmitGoesOn == CallbackReturns /\ SlotIsServed /\ SentIsReceived

\* .doc/scpi-ref.md:91 says "History responses use SCPI definite-length binary
\* blocks": an answer that was started has all the bytes its header promises.
BlocksAreWhole == cut = {}
=============================================================================
