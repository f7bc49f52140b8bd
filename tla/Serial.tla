------------------------------- MODULE Serial -------------------------------
(***************************************************************************)
(* SerialConnection: the actor that opens the device's port when the USB   *)
(* device appears, writes what FlowControl sends, and hands every line the *)
(* device prints to FlowControl.                                           *)
(*                                                                         *)
(* The reading thread passes lines through an internal PUSH/PULL pair to   *)
(* the actor, which forwards them in order: the two queues are one here.   *)
(* An exception in a handler, all noexcept, ends the process.              *)
(***************************************************************************)
EXTENDS GrblCommands, Sequences

CONSTANT Hwm \* messages a socket pair holds before a send blocks

VARIABLES
    port,       \* serial_port_: none, one to the device, or one whose device is gone
    cut,        \* receive_buffer_ holds the beginning of a line
    fromSerial, \* lines on their way to FlowControl
    input,      \* bytes written and not yet read by the device
    aborted     \* the process has ended

\* A line that starts with the rest of an older one matches no pattern.
Garbled(line) == [kind |-> "text", tag |-> 0]

-----------------------------------------------------------------------------
(* Messages from FlowControl *)

\* connect(): throws when the port no longer exists.
Connect(exists) ==
    /\ ~aborted
    /\ port' = IF exists THEN "open" ELSE "closed"
    /\ aborted' = ~exists
    /\ UNCHANGED <<cut, fromSerial, input>>

\* disconnect(): receive_buffer_ keeps what it holds.
Disconnect ==
    /\ ~aborted
    /\ port' = "closed"
    /\ UNCHANGED <<cut, fromSerial, input, aborted>>

\* transmit(): writing to a port without device throws, and there is no test
\* for a port that is not open.
Transmit(request) ==
    /\ ~aborted
    /\ IF port = "open"
       THEN input' = Append(input, request) /\ UNCHANGED aborted
       ELSE aborted' = TRUE /\ UNCHANGED input
    /\ UNCHANGED <<port, cut, fromSerial>>

-----------------------------------------------------------------------------
(* The reading thread *)

\* read_cb, flush_receive_buffer: a whole line has arrived.
Flush(line) ==
    /\ ~aborted
    /\ port = "open"
    /\ Len(fromSerial) < Hwm
    /\ fromSerial' = Append(fromSerial, IF cut THEN Garbled(line) ELSE line)
    /\ cut' = FALSE
    /\ UNCHANGED <<port, aborted>>

\* The device goes away, perhaps in the middle of a line.
Lose ==
    /\ port' = IF port = "open" THEN "dead" ELSE port
    /\ cut' \in IF port = "open" THEN BOOLEAN ELSE {cut}
    /\ input' = <<>>
    /\ UNCHANGED <<fromSerial, aborted>>

Init ==
    /\ port = "closed"
    /\ cut = FALSE
    /\ fromSerial = <<>>
    /\ input = <<>>
=============================================================================
