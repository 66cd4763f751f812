----------------------------- MODULE LineInput -----------------------------
(***************************************************************************)
(* How bytes become a command: the line buffers of usb_com and tcp_server, *)
(* and scpi_handler's trim and split into keyword and argument.  A byte is *)
(* a model value of its class; Size is how many the buffer holds.          *)
(***************************************************************************)
EXTENDS Integers, Sequences, SequencesExt

CONSTANTS
    Size,        \* *_COMMAND_BUFFER_SIZE - 1
    MaxLine      \* bound on the bytes a client means without ending its line

ASSUME LineAssumption == {Size, MaxLine} \subseteq Nat

VARIABLES
    transport,   \* "usb" or "tcp": who owns this buffer
    buffer,      \* command_buffer up to command_length
    meant,       \* history: the client's line so far, without the noise its transport filters
    told,        \* history: "Command too long" was answered during this line
    foreign,     \* history: the buffer held another client's bytes when this line began
    outcome      \* what the last byte led to

lineVars == <<transport, buffer, meant, told, foreign, outcome>>

Spaces == {" ", "tab"}
Controls == {"ctrl", "tab"}                 \* outside 0x20..0x7E
LineEnds == {"cr", "lf"}
Bytes == {"a", "'"} \cup Spaces \cup Controls

Nothing == [kind |-> "nothing"]
TooLong == [kind |-> "too long"]

LineTypeOK ==
    /\ transport \in {"usb", "tcp"} /\ told \in BOOLEAN /\ foreign \in BOOLEAN
    /\ buffer \in Seq(Bytes) /\ Len(buffer) <= Size
    /\ meant \in Seq(Bytes) /\ Len(meant) <= MaxLine

LineInit ==
    /\ transport \in {"usb", "tcp"}
    /\ buffer = <<>> /\ meant = <<>> /\ told = FALSE /\ foreign = FALSE /\ outcome = Nothing

\* Where s has a byte outside S, and s without the bytes of S before, or behind, the others.
Others(s, S) == {i \in DOMAIN s : s[i] \notin S}
Lstrip(s, S) == IF Others(s, S) = {} THEN <<>> ELSE SubSeq(s, Min(Others(s, S)), Len(s))
Rstrip(s, S) == IF Others(s, S) = {} THEN <<>> ELSE SubSeq(s, 1, Max(Others(s, S)))

scpi_handler_trim(s) == Rstrip(Lstrip(s, Spaces), Spaces)

Command(keyword, argument) == [kind |-> "command", keyword |-> keyword, argument |-> argument]

\* The keyword ends at the first space; what follows the spaces after it is the argument.
scpi_handler_parse_command(s) ==
    LET gaps == {i \in DOMAIN s : s[i] \in Spaces} IN
    IF gaps = {} THEN Command(s, <<>>)
    ELSE Command(SubSeq(s, 1, Min(gaps) - 1), scpi_handler_trim(SubSeq(s, Min(gaps), Len(s))))

tcp_server_sanitize_command(s) == Lstrip(s, {"'", " "})

\* The command handed on, or nothing when the line is blank.
Handled(s) ==
    LET line == IF transport = "tcp" THEN tcp_server_sanitize_command(s) ELSE s IN
    IF scpi_handler_trim(line) = <<>> THEN Nothing
    ELSE scpi_handler_parse_command(scpi_handler_trim(line))

\* What the receive loop of TCP takes no notice of: control bytes, and ' at the start of line.
Skipped(b, line) == transport = "tcp" /\ (b \in Controls \/ (line = <<>> /\ b = "'"))

\* The client's line grows by b, unless b is noise at that place of it.
Mean(b) ==
    /\ Len(meant) < MaxLine
    /\ meant' = IF Skipped(b, meant) THEN meant ELSE Append(meant, b)

\* Mutant: what does not fit is dropped, and the line executed as far as it did.
PutTruncated(b) ==
    /\ Mean(b)
    /\ buffer' = IF Skipped(b, buffer) \/ Len(buffer) >= Size THEN buffer ELSE Append(buffer, b)
    /\ outcome' = Nothing
    /\ UNCHANGED <<transport, told, foreign>>

\* A byte of a line: over Size the line so far and the byte are given up, with an answer,
\* and what follows is taken for a line of its own.
Put(b) ==
    /\ Mean(b)
    /\ \/ Skipped(b, buffer) /\ UNCHANGED <<buffer, told>> /\ outcome' = Nothing
       \/ /\ ~Skipped(b, buffer) /\ Len(buffer) >= Size
          /\ buffer' = <<>> /\ told' = TRUE /\ outcome' = TooLong
       \/ /\ ~Skipped(b, buffer) /\ Len(buffer) < Size
          /\ buffer' = Append(buffer, b) /\ outcome' = Nothing /\ UNCHANGED told
    /\ UNCHANGED <<transport, foreign>>

\* The client ends its line: USB takes CR or LF, TCP only LF.
End(b) ==
    /\ b = "cr" => transport = "usb"
    /\ outcome' = Handled(buffer)
    /\ buffer' = <<>>
    /\ meant' = <<>> /\ told' = FALSE /\ foreign' = FALSE
    /\ UNCHANGED transport

\* A CR within a TCP line.
IgnoreCR ==
    /\ transport = "tcp"
    /\ outcome' = Nothing
    /\ UNCHANGED <<transport, buffer, meant, told, foreign>>

\* A client goes and the next one begins a line: tcp_server_handle_client starts with an
\* empty buffer, usb_com keeps what it has.
NextClient ==
    /\ buffer' = IF transport = "tcp" THEN <<>> ELSE buffer
    /\ foreign' = (buffer' # <<>>)
    /\ meant' = <<>> /\ told' = FALSE /\ outcome' = Nothing
    /\ UNCHANGED transport

LineNext ==
    \/ \E b \in Bytes : Put(b)
    \/ \E b \in LineEnds : End(b)
    \/ IgnoreCR
    \/ NextClient

LineSpec == LineInit /\ [][LineNext]_lineVars
-----------------------------------------------------------------------------
\* What a reader of the line takes for its command: the bytes between the spaces at its ends,
\* with none around the argument.
IsCommandOf(c, s) ==
    \E i \in 0..Len(s), j \in 0..Len(s) :
        /\ ToSet(SubSeq(s, 1, i)) \subseteq Spaces \cup (IF transport = "tcp" THEN {"'"} ELSE {})
        /\ ToSet(SubSeq(s, j + 1, Len(s))) \subseteq Spaces
        /\ IF c = Nothing THEN i >= j
           ELSE \E gap \in BoundedSeq(Spaces, Len(s)) :
                    /\ SubSeq(s, i + 1, j) = c.keyword \o gap \o c.argument
                    /\ (gap = <<>>) <=> (c.argument = <<>>)
                    /\ ToSet(c.keyword) \cap Spaces = {} /\ c.keyword # <<>>
                    /\ c.argument # <<>> => {Head(c.argument), Last(c.argument)} \cap Spaces = {}

\* usb_com.c and tcp_server.c: a line is executed as the one command it is, or the client has
\* been told that it was too long; what is told so did not fit.  A line after bytes another
\* USB session left unfinished is the exception.
LineIsOneCommand ==
    [][/\ outcome'.kind = "too long" => Len(meant') > Size \/ foreign
       /\ (\E b \in LineEnds : End(b)) =>
              told \/ foreign \/ IsCommandOf(outcome', meant)]_lineVars
=============================================================================
