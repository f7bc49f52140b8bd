---------------------------- MODULE FlowControl -----------------------------
(***************************************************************************)
(* FlowControl: the actor between a Machine and its serial connection.  It *)
(* counts the bytes of G-code in the device's receive buffer, queues what  *)
(* does not fit, and pairs every line the device prints with the request   *)
(* it answers.                                                             *)
(*                                                                         *)
(* One thread runs it, so a handler is one action; only the loop of run()  *)
(* is cut at every transmission, because the serial thread runs beside it. *)
(* `sending' holds from a handler's call of run() until the loop ends and  *)
(* no other handler starts meanwhile.                                      *)
(***************************************************************************)
EXTENDS GrblCommands, Sequences

CONSTANTS
    Limit,       \* limit_: the bytes of G-code the device may hold
    Hwm,         \* messages a socket pair holds before a send blocks
    ClientCommands, \* the commands clients send
    GcodeSizes,  \* lengths of the G-code lines a client sends
    Lines,       \* lines the device prints
    MaxRequests, \* bound: commands received in a behaviour
    MaxBuffer    \* bound: lines of an unfinished multi-line reply

LineKinds == {"empty", "alarm", "grbl", "oldGrbl", "status", "push", "reply",
              "text"}

ASSUME LimitAssumption == Limit \in Nat
ASSUME HwmAssumption   == Hwm \in Nat \ {0}
ASSUME CommandAssumption == ClientCommands \subseteq Commands
ASSUME SizeAssumption  == GcodeSizes \subseteq Nat
ASSUME LineAssumption  == Lines \subseteq [kind : LineKinds, tag : Nat]
ASSUME BoundAssumption == MaxRequests \in Nat /\ MaxBuffer \in Nat

VARIABLES
    active,    \* active_: requests are queued and counted
    alarm,     \* alarm_: the device has reported an alarm
    incoming,  \* incoming_: requests not yet transmitted
    outgoing,  \* outgoing_: requests transmitted and not yet answered
    realtime,  \* realtime_: the outstanding realtime request
    used,      \* used_: bytes of outstanding planned requests
    sending,   \* run() has a request to transmit
    mode,      \* Classifier::mode_
    buffer,    \* Classifier::buffer_
    received,  \* history: commands received so far, a request's tag
    toParent,  \* socket pair to Machine
    toSerial,  \* socket pair to SerialConnection
    aborted    \* abort() or a failed assertion ended the process

classifier == <<mode, buffer>>
queues     == <<incoming, outgoing, realtime, used>>
sockets    == <<toParent, toSerial>>
vars       == <<active, alarm, queues, sending, classifier, received, sockets,
                aborted>>

-----------------------------------------------------------------------------
(* Requests, lines and messages *)

\* A queued (Command, Bytes).  The tag, the position in arrival order, stands
\* for the bytes: it tells two requests of one length apart.
Request   == [type : Commands, size : Nat, tag : Nat]
NoRequest == [type |-> "Invalid", size |-> 0, tag |-> 0]
Line      == [kind : LineKinds, tag : Nat]

\* Classifier::version: what the first buffered line says.  Only a banner
\* matches the regular expression; a status report leaves 0.0.
Version(line) ==
    CASE line.kind = "grbl"    -> <<1, 1>>
      [] line.kind = "oldGrbl" -> <<0, 8>>
      [] OTHER                 -> <<0, 0>>

InitGrbl(line) == [kind |-> "InitGrbl", version |-> Version(line), lines |-> <<line>>]
GrblPush(line) == [kind |-> "GrblPushReceived", lines |-> <<line>>]
Response(request, lines) ==
    [kind |-> "ResponseReceived", type |-> request.type, tag |-> request.tag,
     lines |-> lines]
Data(request) == [kind |-> "Data", request |-> request]
UsbEvent(event) == [kind |-> event]

ParentMessages ==
    [kind : {"InitGrbl"}, version : Nat \X Nat, lines : Seq(Line)]
    \cup [kind : {"GrblPushReceived"}, lines : Seq(Line)]
    \cup [kind : {"ResponseReceived"}, type : Commands \cup {"Invalid"},
          tag : Nat, lines : Seq(Line)]
UsbEvents == {"USBDeviceAdded", "USBDeviceRemoved"}
SerialMessages == [kind : {"Data"}, request : Request] \cup [kind : UsbEvents]

PlannedSize(request) == IF request.type \in Planned THEN request.size ELSE 0

\* What the answer to a request gives back to the device's buffer.
ReleasedWithoutFlag(request) == request.size
ReleasedNothing(request) == 0
Released(request) == PlannedSize(request)

-----------------------------------------------------------------------------
(* Classifier::operator(): the type of a line, which depends on the mode.  *)
(* A status report is classified as a startup line.                        *)

PushIsReply(line) ==
    CASE line.kind = "empty"                         -> "Empty"
      [] line.kind = "alarm"                         -> "Alarm"
      [] line.kind \in {"grbl", "oldGrbl", "status"} -> "Startup"
      [] line.kind \in {"push", "reply"}             ->
             IF mode = "Help" THEN "MultilineDone" ELSE "Response"
      [] OTHER               -> IF mode = "Help" THEN "Multiline" ELSE "Unknown"

Class(line) ==
    CASE line.kind = "empty"                         -> "Empty"
      [] line.kind = "alarm"                         -> "Alarm"
      [] line.kind \in {"grbl", "oldGrbl", "status"} -> "Startup"
      [] line.kind = "push"  -> IF mode = "Help" THEN "Multiline" ELSE "Push"
      [] line.kind = "reply" -> IF mode = "Help" THEN "MultilineDone" ELSE "Response"
      [] OTHER               -> IF mode = "Help" THEN "Multiline" ELSE "Unknown"

\* The buffered lines once `line' has been classified.
Buffered(line) ==
    IF Class(line) \in {"Alarm", "Startup", "Push", "Response"}
    THEN <<line>>
    ELSE Append(buffer, line)

-----------------------------------------------------------------------------
(* run(): the loop over incoming_ *)

CanSendGreedily ==
    /\ incoming # <<>>
    /\ LET head == Head(incoming) IN
       /\ PlannedSize(head) <= Limit - used
       /\ head.type \in Realtime => realtime = NoRequest

\* The next iteration of the loop passes its early returns.
CanSend ==
    /\ incoming # <<>>
    /\ LET head == Head(incoming) IN
       /\ PlannedSize(head) <= Limit - used
       /\ head.type \in Greedy => outgoing = <<>>
       /\ head.type \in Realtime => realtime = NoRequest

RunInAlarm(clearsAlarm) == sending' = CanSend'
RunOnlyToUnlock(clearsAlarm) == sending' = (clearsAlarm /\ CanSend')
Run(clearsAlarm) == sending' = ((alarm' => clearsAlarm) /\ CanSend')

\* Whether outgoing_.front() is multi-line.  The code also reads the front of
\* an empty deque, memory of which nothing is known.
FrontIsMultiline(queue) ==
    IF queue = <<>> THEN BOOLEAN ELSE {Head(queue).type \in Multiline}

\* One iteration for a request other than a soft reset.
SendRequest ==
    /\ sending /\ ~aborted
    /\ Len(toSerial) < Hwm
    /\ LET head == Head(incoming) IN
       /\ Position(head.type) # "Reset"
       /\ toSerial' = Append(toSerial, Data(head))
       /\ used' = used + PlannedSize(head)
       /\ IF head.type \in Realtime
          THEN realtime' = head /\ UNCHANGED outgoing
          ELSE outgoing' = Append(outgoing, head) /\ UNCHANGED realtime
       /\ incoming' = Tail(incoming)
       /\ \E multiline \in FrontIsMultiline(outgoing') :
              mode' = IF multiline THEN "Help" ELSE mode
       /\ sending' = CanSend'
    /\ UNCHANGED <<active, alarm, buffer, received, toParent, aborted>>

\* One iteration for a soft reset: flow control stops until it is enabled again.
SendReset ==
    /\ sending /\ ~aborted
    /\ Len(toSerial) < Hwm
    /\ Position(Head(incoming).type) = "Reset"
    /\ toSerial' = Append(toSerial, Data(Head(incoming)))
    /\ active' = FALSE
    /\ incoming' = <<>>
    /\ outgoing' = <<>>
    /\ realtime' = NoRequest
    /\ used' = 0
    /\ sending' = FALSE
    /\ UNCHANGED <<alarm, classifier, received, toParent, aborted>>

-----------------------------------------------------------------------------
(* Commands from the parent *)

\* The actor thread is between two handlers.
Ready == ~sending /\ ~aborted

EnableFlowControl ==
    /\ Ready
    /\ active' = TRUE
    /\ UNCHANGED <<alarm, queues, sending, classifier, received, sockets, aborted>>

\* The tag of the command being handled is its position in arrival order.
Arrive == received' = received + 1
Arriving(type, size) == [type |-> type, size |-> size, tag |-> received + 1]

\* process_command: "Reset alarm first".
Refuse(type) ==
    /\ Ready
    /\ alarm /\ type \notin ClearsAlarm
    /\ Arrive
    /\ UNCHANGED <<active, alarm, queues, sending, classifier, sockets, aborted>>

Accepts(type) == Ready /\ (alarm => type \in ClearsAlarm)

\* command_send_message before flow control is enabled.
PassThrough(type, size) ==
    /\ Accepts(type) /\ ~active
    /\ Len(toSerial) < Hwm
    /\ Arrive
    /\ toSerial' = Append(toSerial, Data(Arriving(type, size)))
    /\ UNCHANGED <<active, alarm, queues, sending, classifier, toParent, aborted>>

\* command_send_message while flow control is enabled.
QueuesAlways(type) == Accepts(type)
Queues(type) == Accepts(type) /\ active

\* queue(): assert(bytes.size() <= limit_).
AssertionFails(type, size) ==
    /\ Queues(type)
    /\ size > Limit
    /\ aborted' = TRUE
    /\ Arrive
    /\ UNCHANGED <<active, alarm, queues, sending, classifier, sockets>>

\* queue(): incoming_ with the entry at its place.  A reset empties it first.
PlacedInFront(type, entry) ==
    IF Position(type) = "Reset" THEN entry ELSE entry \o incoming
PlacedKeepingAll(type, entry) ==
    IF Position(type) = "Back" THEN incoming \o entry ELSE entry \o incoming
Placed(type, entry) ==
    CASE Position(type) = "Reset" -> entry
      [] Position(type) = "Front" -> entry \o incoming
      [] Position(type) = "Back"  -> incoming \o entry

\* queue(): an empty request takes no place.
Enqueue(type, size) ==
    /\ Queues(type)
    /\ size <= Limit
    /\ Arrive
    /\ incoming' = Placed(type, IF size > 0 THEN <<Arriving(type, size)>> ELSE <<>>)
    /\ UNCHANGED <<active, alarm, outgoing, realtime, used, classifier, sockets,
                   aborted>>
    /\ Run(type \in ClearsAlarm)

\* command_usb_device_added and _removed: an active queue is emptied.  The
\* realtime request, the alarm and the classifier's mode survive.
ReconnectKeepingQueue(event) ==
    /\ Ready
    /\ Len(toSerial) < Hwm
    /\ toSerial' = Append(toSerial, UsbEvent(event))
    /\ UNCHANGED <<active, alarm, queues, sending, classifier, received,
                   toParent, aborted>>

Reconnect(event) ==
    /\ Ready
    /\ Len(toSerial) < Hwm
    /\ IF active
       THEN incoming' = <<>> /\ outgoing' = <<>> /\ used' = 0
       ELSE UNCHANGED <<incoming, outgoing, used>>
    /\ toSerial' = Append(toSerial, UsbEvent(event))
    /\ UNCHANGED <<active, alarm, realtime, sending, classifier, received,
                   toParent, aborted>>

-----------------------------------------------------------------------------
(* command_data_received: one action per group of line classes *)

ReceiveEmpty(line) ==
    /\ Ready
    /\ Class(line) = "Empty"
    /\ buffer' = <<>>
    /\ UNCHANGED <<active, alarm, queues, sending, mode, received, sockets, aborted>>

ReceiveStartupUnreset(line) ==
    /\ Ready
    /\ Class(line) = "Startup"
    /\ Len(toParent) < Hwm
    /\ toParent' = Append(toParent, InitGrbl(line))
    /\ alarm' = FALSE
    /\ UNCHANGED <<active, queues, sending, classifier, received, toSerial, aborted>>

ReceiveStartup(line) ==
    /\ Ready
    /\ Class(line) = "Startup"
    /\ Len(toParent) < Hwm
    /\ toParent' = Append(toParent, InitGrbl(line))
    /\ mode' = "Normal"
    /\ buffer' = <<>>
    /\ alarm' = FALSE
    /\ UNCHANGED <<active, queues, sending, received, toSerial, aborted>>

ReceivePush(line) ==
    /\ Ready
    /\ Class(line) = "Push"
    /\ Len(toParent) < Hwm
    /\ toParent' = Append(toParent, GrblPush(line))
    /\ buffer' = <<>>
    /\ UNCHANGED <<active, alarm, queues, sending, mode, received, toSerial, aborted>>

ReceiveMultiline(line) ==
    /\ Ready
    /\ Class(line) = "Multiline"
    /\ buffer' = Buffered(line)
    /\ UNCHANGED <<active, alarm, queues, sending, mode, received, sockets, aborted>>

ReceiveAlarm(line) ==
    /\ Ready
    /\ Class(line) = "Alarm"
    /\ mode' = "Normal"
    /\ buffer' = <<>>
    /\ alarm' = TRUE
    /\ UNCHANGED <<active, queues, sending, received, sockets, aborted>>

\* receive(), receive_normal(), response_received(): the line ends the oldest
\* outstanding request, or answers Request{} when there is none.
ReceiveReply(line) ==
    /\ Ready
    /\ Class(line) \in {"Response", "MultilineDone", "Unknown"}
    /\ Len(toParent) < Hwm
    /\ LET answered == IF outgoing = <<>> THEN NoRequest ELSE Head(outgoing) IN
       /\ used' = used - Released(answered)
       /\ outgoing' = IF outgoing = <<>> THEN <<>> ELSE Tail(outgoing)
       /\ toParent' = Append(toParent, Response(answered, Buffered(line)))
    /\ mode' = "Normal"
    /\ buffer' = <<>>
    /\ UNCHANGED <<active, alarm, incoming, realtime, received, toSerial, aborted>>
    /\ Run(FALSE)

ReceiveData(line) ==
    \/ ReceiveEmpty(line)
    \/ ReceiveStartup(line)
    \/ ReceivePush(line)
    \/ ReceiveMultiline(line)
    \/ ReceiveAlarm(line)
    \/ ReceiveReply(line)

SendMessage(type, size) ==
    \/ Refuse(type)
    \/ PassThrough(type, size)
    \/ AssertionFails(type, size)
    \/ Enqueue(type, size)

Loop == SendRequest \/ SendReset

-----------------------------------------------------------------------------
(* The actor in an environment that sends any command and prints any line  *)
(* at any time.                                                            *)

Init ==
    /\ active = FALSE /\ alarm = FALSE
    /\ incoming = <<>> /\ outgoing = <<>>
    /\ realtime = NoRequest /\ used = 0
    /\ sending = FALSE
    /\ mode = "Normal" /\ buffer = <<>>
    /\ received = 0
    /\ toParent = <<>> /\ toSerial = <<>>
    /\ aborted = FALSE

Sizes(type) == IF type \in Planned THEN GcodeSizes ELSE {TextSize(type)}

ClientCommand ==
    /\ received < MaxRequests
    /\ \E type \in ClientCommands : \E size \in Sizes(type) : SendMessage(type, size)

DeviceLine == \E line \in Lines : ReceiveData(line) /\ Len(buffer') <= MaxBuffer

ParentReads ==
    /\ ~aborted /\ toParent # <<>>
    /\ toParent' = Tail(toParent)
    /\ UNCHANGED <<active, alarm, queues, sending, classifier, received,
                   toSerial, aborted>>

SerialReads ==
    /\ ~aborted /\ toSerial # <<>>
    /\ toSerial' = Tail(toSerial)
    /\ UNCHANGED <<active, alarm, queues, sending, classifier, received,
                   toParent, aborted>>

Next ==
    \/ Loop
    \/ ClientCommand
    \/ DeviceLine
    \/ EnableFlowControl
    \/ \E event \in UsbEvents : Reconnect(event)
    \/ ParentReads
    \/ SerialReads

Spec == Init /\ [][Next]_vars

-----------------------------------------------------------------------------
(* What FlowControl implements *)

Window == INSTANCE StreamingWindow
          WITH waiting    <- {incoming[i] : i \in 1..Len(incoming)},
               unanswered <- outgoing,
               last       <- received

-----------------------------------------------------------------------------
(* Properties *)

\* The members hold values of their C++ types.
TypeOK ==
    /\ active \in BOOLEAN /\ alarm \in BOOLEAN
    /\ incoming \in Seq(Request) /\ outgoing \in Seq(Request)
    /\ realtime \in Request \cup {NoRequest}
    /\ used \in Nat
    /\ sending \in BOOLEAN
    /\ mode \in {"Normal", "Help"} /\ buffer \in Seq(Line)
    /\ received \in Nat
    /\ toParent \in Seq(ParentMessages) /\ toSerial \in Seq(SerialMessages)
    /\ aborted \in BOOLEAN

\* Character counting: used_ is the sum of the sizes of the planned requests
\* in outgoing_, and never exceeds limit_, so `limit_ - used_' (both size_t)
\* never wraps.  rest[i] is the sum from the i-th request on.
UsedIsOutstanding ==
    \E rest \in [1..(Len(outgoing) + 1) -> 0..Limit] :
        /\ rest[1] = used
        /\ rest[Len(outgoing) + 1] = 0
        /\ \A i \in 1..Len(outgoing) :
               rest[i] = PlannedSize(outgoing[i]) + rest[i + 1]

\* A request whose reply may be multi-line, or that must find the device idle,
\* is always the oldest outstanding one: nothing else is owed a reply before it.
GreedyIsOldest ==
    \A i \in 2..Len(outgoing) : outgoing[i].type \notin Greedy

\* G-code and the other requests queued at the back go out in the order they
\* arrived, across every insertion at the front, reset and reconnection.
InOrder(queue) ==
    \A i, j \in 1..Len(queue) :
        /\ i < j
        /\ Position(queue[i].type) = "Back"
        /\ Position(queue[j].type) = "Back"
        => queue[i].tag < queue[j].tag
ProgramOrder == InOrder(outgoing \o incoming)

\* While flow control is off nothing is queued, outstanding or counted, so the
\* commands that bypass the queue overtake none and owe it nothing.
NothingHeldWhileInactive ==
    ~active => /\ incoming = <<>> /\ outgoing = <<>>
               /\ realtime = NoRequest /\ used = 0
               /\ ~sending

\* In alarm the loop sends only an unlocking command, or what is queued
\* behind a $X that was already sent.
AlarmHoldsQueue ==
    alarm /\ sending =>
        \/ Head(incoming).type \in ClearsAlarm
        \/ \E i \in 1..Len(outgoing) : outgoing[i].type = "GrblResetAlarm"

\* Between handlers no request waits that could be sent: the end of every
\* reply restarts the queue.  Only the startup line that ends an alarm can
\* leave one behind, because it does not call run().
NoneWaits == Ready /\ ~alarm => ~CanSend
StallOnlyAfterAlarm == [][NoneWaits /\ ~NoneWaits' => alarm /\ ~alarm']_vars

\* The queue with its insertions at the front, the count of bytes and the loop
\* of run() do what StreamingWindow promises.
Streams == Window!Spec

\* The assertion of queue(): a request is no longer than the device's buffer.
RequestsFit == ~aborted

\* The Status case of command_data_received: a status report answers the
\* outstanding realtime request.
StatusAnswersRealtime ==
    [][\A line \in Lines :
          line.kind = "status" /\ realtime # NoRequest /\ ReceiveData(line)
          => realtime' = NoRequest]_vars
=============================================================================
