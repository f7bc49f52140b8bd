--------------------------- MODULE DeviceSession ----------------------------
(***************************************************************************)
(* One device from end to end: the USB scan of Hotplug, the actors Machine,*)
(* FlowControl and SerialConnection with the sockets between them, and the *)
(* device itself.                                                          *)
(*                                                                         *)
(* A client's command is handled by Machine in the step that sends it and  *)
(* the Context takes messages whenever it likes: neither end of those      *)
(* sockets has state that the device's actors observe.                     *)
(*                                                                         *)
(* The device is modelled from what the code expects of it: it executes    *)
(* the bytes it is sent in order, except the realtime ones, and ends the   *)
(* reply to each command with one "ok" or "error:" line.                   *)
(***************************************************************************)
EXTENDS GrblCommands, Sequences

CONSTANTS
    Limit,          \* limit_ of FlowControl
    Hwm,            \* messages a socket pair holds before a send blocks
    ClientCommands, \* the commands clients send
    GcodeSizes,     \* lengths of the G-code lines a client sends
    ResetByte,      \* the byte that restarts the device
    Banners,        \* startup lines of the devices that may be plugged in
    Announcements,  \* kinds of line it prints unasked
    MaxRequests,    \* bound: a client sends while fewer commands were forwarded
    MaxPlugs,       \* bound: times the device is plugged in
    MaxPrinted,     \* bound: lines the device prints unasked
    MaxRestarts     \* bound: times it restarts on its own

ASSUME LimitAssumption == Limit \in Nat
ASSUME HwmAssumption == Hwm \in Nat \ {0}
ASSUME CommandAssumption == ClientCommands \subseteq Commands
ASSUME SizeAssumption == GcodeSizes \subseteq Nat
ASSUME DeviceAssumption ==
    /\ Banners \subseteq {"grbl", "oldGrbl"}
    /\ Announcements \subseteq {"push", "alarm"}
    /\ ResetByte \notin {RealtimeByte(type) : type \in Realtime}

VARIABLES
    active, alarm, incoming, outgoing, realtime, used, sending, mode, buffer,
    received, toParent, toSerial,                              \* FlowControl
    state, name, grblVersion, messageId, toContext, toFlow,    \* Machine
    port, cut, fromSerial, input,                              \* Serial
    aborted,                                                   \* the process
    plugged,   \* the device is connected
    banner,    \* the startup line of the connected device
    known,     \* device_list_ of Hotplug has it
    events,    \* USB events on their way to Machine
    booting,   \* the device has not printed its startup line yet
    midReply,  \* it has printed the first line of a multi-line reply
    locked,    \* it is in alarm
    plugs,     \* times it was plugged in
    printed,   \* lines it has printed unasked
    restarts,  \* times it restarted on its own
    unseen,    \* history: it was unplugged and plugged in again between two scans
    crossed    \* history: FlowControl was still owed a reply when CutsReply

NoName == [kind |-> "none", tag |-> 0]

Flow == INSTANCE FlowControl WITH Lines <- {}, MaxBuffer <- 0
Mach == INSTANCE Machine
Link == INSTANCE Serial

flowVars    == <<active, alarm, incoming, outgoing, realtime, used, sending,
                 mode, buffer, received>>
machineVars == <<state, name, grblVersion, messageId>>
linkVars    == <<port, cut>>
deviceVars  == <<plugged, banner, booting, midReply, locked, plugs, printed,
                 restarts, unseen>>
vars == <<flowVars, machineVars, linkVars, deviceVars, crossed, known, events, toFlow,
          toParent, toSerial, fromSerial, toContext, input, aborted>>

-----------------------------------------------------------------------------
(* The actors: each step takes one message and runs its handler *)

MachineReadsEvent ==
    /\ events # <<>>
    /\ Mach!HandleContext(Head(events))
    /\ events' = Tail(events)
    /\ UNCHANGED <<flowVars, linkVars, deviceVars, crossed, known, toParent,
                   toSerial, fromSerial, input>>

MachineReadsFlow ==
    /\ toParent # <<>>
    /\ Mach!HandleFlow(Head(toParent))
    /\ toParent' = Tail(toParent)
    /\ UNCHANGED <<flowVars, linkVars, deviceVars, crossed, known, events, toSerial,
                   fromSerial, input>>

FlowHandles(msg) ==
    \/ msg.kind = "Send" /\ Flow!SendMessage(msg.type, msg.size)
    \/ msg.kind = "EnableFlowControl" /\ Flow!EnableFlowControl
    \/ msg.kind \in Flow!UsbEvents /\ Flow!Reconnect(msg.kind)

FlowReadsMachine ==
    /\ toFlow # <<>>
    /\ FlowHandles(Head(toFlow))
    /\ toFlow' = Tail(toFlow)
    /\ crossed' = (crossed /\ Head(toFlow).kind # "USBDeviceAdded")
    /\ UNCHANGED <<machineVars, linkVars, deviceVars, known, events, fromSerial,
                   toContext, input>>

\* What a restart has lost of the replies owed shows with its startup line; a status
\* report, taken for one, and an alarm end the mode in which a long reply is read.
Startup(line) == line.kind \in {"grbl", "oldGrbl"}
CutsReply(line) ==
    \/ Startup(line) /\ restarts > 0
    \/ line.kind \in {"status", "alarm"} /\ Head(outgoing).type \in Multiline

FlowReadsSerial ==
    /\ fromSerial # <<>>
    /\ Flow!ReceiveData(Head(fromSerial))
    /\ fromSerial' = Tail(fromSerial)
    /\ crossed' = \/ crossed
                  \/ outgoing # <<>> /\ CutsReply(Head(fromSerial))
    /\ UNCHANGED <<machineVars, linkVars, deviceVars, known, events, toFlow,
                   toContext, input>>

FlowSends ==
    /\ Flow!Loop
    /\ UNCHANGED <<machineVars, linkVars, deviceVars, crossed, known, events,
                   toFlow, fromSerial, toContext, input>>

\* Opening the port restarts the device.
SerialHandles(msg) ==
    \/ /\ msg.kind = "Data"
       /\ Link!Transmit(msg.request)
       /\ UNCHANGED booting
    \/ /\ msg.kind = "USBDeviceAdded"
       /\ Link!Connect(plugged)
       /\ booting' = plugged
    \/ /\ msg.kind = "USBDeviceRemoved"
       /\ Link!Disconnect
       /\ UNCHANGED booting

SerialReadsFlow ==
    /\ toSerial # <<>>
    /\ SerialHandles(Head(toSerial))
    /\ toSerial' = Tail(toSerial)
    /\ UNCHANGED <<flowVars, machineVars, plugged, banner, midReply, locked, plugs,
                   printed, restarts, unseen, crossed, known, events, toFlow, toParent,
                   toContext>>

-----------------------------------------------------------------------------
(* Clients, the context and the USB scan *)

ClientSends ==
    /\ messageId < MaxRequests - 1
    /\ \E type \in ClientCommands :
       \E size \in IF type \in Planned THEN GcodeSizes ELSE {TextSize(type)} :
           Mach!ForwardGrbl(type, size)
    /\ UNCHANGED <<flowVars, linkVars, deviceVars, crossed, known, events, toParent,
                   toSerial, fromSerial, input>>

ContextReads ==
    /\ ~aborted /\ toContext # <<>>
    /\ toContext' = Tail(toContext)
    /\ UNCHANGED <<flowVars, machineVars, linkVars, deviceVars, crossed, known, events,
                   toFlow, toParent, toSerial, fromSerial, input, aborted>>

\* enumerate_usb: what changed since the last scan.
Scan ==
    /\ ~aborted
    /\ plugged # known
    /\ Len(events) < Hwm
    /\ events' = Append(events, [kind |-> IF plugged THEN "USBDeviceAdded"
                                                     ELSE "USBDeviceRemoved"])
    /\ known' = plugged
    /\ UNCHANGED <<flowVars, machineVars, linkVars, deviceVars, crossed, toFlow, toParent,
                   toSerial, fromSerial, toContext, input, aborted>>

-----------------------------------------------------------------------------
(* The device *)

\* What a device prints goes to the serial line.
Prints(kind, tag) ==
    /\ Link!Flush([kind |-> kind, tag |-> tag])
    /\ UNCHANGED <<flowVars, machineVars, crossed, known, events, toFlow, toParent,
                   toSerial, toContext, plugged, banner, plugs, unseen>>

\* What arrives before the startup line is lost.
DeviceBoots ==
    /\ booting
    /\ Prints(banner, 0)
    /\ booting' = FALSE /\ midReply' = FALSE /\ locked' = FALSE
    /\ input' = <<>>
    /\ UNCHANGED <<printed, restarts>>

Running == plugged /\ ~booting

\* A brownout, a watchdog or its reset button.
DeviceRestarts ==
    /\ ~aborted /\ Running /\ port = "open"
    /\ restarts < MaxRestarts
    /\ restarts' = restarts + 1
    /\ booting' = TRUE
    /\ UNCHANGED <<flowVars, machineVars, linkVars, crossed, known, events, toFlow,
                   toParent, toSerial, fromSerial, toContext, input, aborted, plugged, banner,
                   midReply, locked, plugs, printed, unseen>>

\* Out of the input, ahead of what was written before it.
TakesRealtime(i) ==
    /\ Running
    /\ input[i].type \in Realtime \cup {"GrblSoftReset"}
    /\ input' = SubSeq(input, 1, i - 1) \o SubSeq(input, i + 1, Len(input))

DeviceReports ==
    /\ \E i \in 1..Len(input) : TakesRealtime(i) /\ input[i].type = "GrblStatus"
    /\ Prints("status", 0)
    /\ UNCHANGED <<booting, midReply, locked, printed, restarts>>

\* The other realtime bytes have no reply; of the control bytes only ResetByte
\* has an effect.
DeviceObeys ==
    /\ ~aborted
    /\ \E i \in 1..Len(input) :
           /\ TakesRealtime(i) /\ input[i].type # "GrblStatus"
           /\ booting' = (RealtimeByte(input[i].type) = ResetByte)
    /\ UNCHANGED <<flowVars, machineVars, linkVars, crossed, known, events, toFlow,
                   toParent, toSerial, fromSerial, toContext, aborted, plugged, banner,
                   midReply, locked, plugs, printed, restarts, unseen>>

Ordinary(request) == request.type \notin Realtime \cup {"GrblSoftReset"}

DeviceStartsReply ==
    /\ Running /\ input # <<>> /\ ~midReply
    /\ Head(input).type \in Multiline
    /\ Prints("text", Head(input).tag)
    /\ midReply' = TRUE
    /\ UNCHANGED <<booting, locked, printed, restarts, input>>

DeviceReplies ==
    /\ Running /\ input # <<>>
    /\ Ordinary(Head(input))
    /\ Head(input).type \in Multiline => midReply
    /\ Prints("reply", Head(input).tag)
    /\ midReply' = FALSE
    /\ locked' = (locked /\ Head(input).type # "GrblResetAlarm")
    /\ input' = Tail(input)
    /\ UNCHANGED <<booting, printed, restarts>>

DeviceSpeaks ==
    /\ Running /\ ~midReply
    /\ printed < MaxPrinted
    /\ \E kind \in Announcements :
           Prints(kind, 0) /\ locked' = (locked \/ kind = "alarm")
    /\ printed' = printed + 1
    /\ UNCHANGED <<booting, midReply, restarts, input>>

\* Nothing is on its way: the actors are done with what happened before.
Quiet == /\ events = <<>> /\ toFlow = <<>> /\ toParent = <<>>
         /\ toSerial = <<>> /\ fromSerial = <<>> /\ ~sending

\* Plugging in takes longer than the actors need to settle; the scan may
\* still not have seen the device gone.
Plug ==
    /\ ~aborted /\ ~plugged /\ plugs < MaxPlugs
    /\ Quiet
    /\ plugged' = TRUE
    /\ banner' \in Banners
    /\ plugs' = plugs + 1
    /\ unseen' = known
    /\ UNCHANGED <<flowVars, machineVars, linkVars, booting, midReply, locked,
                   printed, restarts, crossed, known, events, toFlow, toParent,
                   toSerial, fromSerial, toContext, input, aborted>>

Unplug ==
    /\ ~aborted /\ plugged
    /\ plugged' = FALSE
    /\ banner' = "none"
    /\ booting' = FALSE /\ midReply' = FALSE /\ locked' = FALSE
    /\ Link!Lose
    /\ UNCHANGED <<flowVars, machineVars, plugs, printed, restarts, unseen, crossed, known,
                   events, toFlow, toParent, toSerial, toContext>>

-----------------------------------------------------------------------------

Init ==
    /\ Flow!Init /\ Mach!Init /\ Link!Init
    /\ plugged = FALSE /\ banner = "none" /\ known = FALSE /\ events = <<>>
    /\ booting = FALSE /\ midReply = FALSE /\ locked = FALSE
    /\ plugs = 0 /\ printed = 0 /\ restarts = 0
    /\ unseen = FALSE /\ crossed = FALSE

Actors ==
    \/ MachineReadsEvent \/ MachineReadsFlow
    \/ FlowReadsMachine \/ FlowReadsSerial \/ FlowSends
    \/ SerialReadsFlow

Device ==
    \/ DeviceBoots \/ DeviceRestarts \/ DeviceReports \/ DeviceObeys
    \/ DeviceStartsReply \/ DeviceReplies \/ DeviceSpeaks

Next ==
    \/ Actors \/ Device
    \/ ClientSends \/ ContextReads \/ Scan
    \/ Plug \/ Unplug

Spec == Init /\ [][Next]_vars

\* Every actor polls all its sockets and takes one message from each that is
\* ready, the scan repeats every 500 ms, and a device that is not busy answers.
ActorFairness ==
    /\ WF_vars(MachineReadsEvent) /\ WF_vars(MachineReadsFlow)
    /\ WF_vars(FlowReadsMachine) /\ WF_vars(FlowReadsSerial) /\ WF_vars(FlowSends)
    /\ WF_vars(SerialReadsFlow)
    /\ WF_vars(ContextReads) /\ WF_vars(Scan)

DeviceFairness ==
    /\ WF_vars(DeviceBoots)
    /\ WF_vars(DeviceReports) /\ WF_vars(DeviceObeys)
    /\ WF_vars(DeviceStartsReply) /\ WF_vars(DeviceReplies)

FairSpec == Spec /\ ActorFairness /\ DeviceFairness

-----------------------------------------------------------------------------
(* Properties *)

\* Every answer that FlowControl gives to Machine ends with the line the
\* device printed for that very request.
Paired(msg) == msg.lines[Len(msg.lines)].tag = msg.tag
AnswersMatch ==
    \A i \in 1..Len(toParent) :
        toParent[i].kind = "ResponseReceived" /\ toParent[i].type # "Invalid"
        => Paired(toParent[i])

\* An answer holds lines that the device printed for its request, and no line of a reply
\* to another: what FlowControl kept of a reply cut short by the removal of its device is
\* gone when the next one answers.  A push that the device prints before its reply, or
\* in a mode read from the front of an empty outgoing_, is kept with it.
OwnLines(msg) ==
    \A j \in 1..Len(msg.lines) : msg.lines[j].kind = "push" \/ msg.lines[j].tag = msg.tag
AnswersHoldOwnLines ==
    \A i \in 1..Len(toParent) :
        toParent[i].kind = "ResponseReceived" /\ toParent[i].type # "Invalid"
        => OwnLines(toParent[i])

\* Machine meets an answer to no request only when nobody is connected.
NoUnsolicited ==
    toParent # <<>> /\ Head(toParent).kind = "ResponseReceived"
    /\ Mach!Unsolicited(Head(toParent))
    => Mach!Drops(state)

\* The device's receive buffer holds what limit_ promises it.  FlowControl does
\* not notice that its device restarts: a reply owed then is awaited for ever,
\* and the following ones go to the wrong requests, until the device is plugged
\* in anew.  A status report or an alarm within a reply has two lines of it taken
\* for the ends of two replies.
SumSizes[q \in Seq(Flow!Request)] ==
    IF q = <<>> THEN 0 ELSE Flow!PlannedSize(Head(q)) + SumSizes[Tail(q)]
BufferNeverOverflows == ~crossed => SumSizes[input] <= Limit

\* The machine is identified by the answer to its own $I.
IdentifiedByVersion ==
    [][state = "Grbl" /\ state' = "Identified"
       => Head(toParent).type = "GrblVersion"]_vars

\* A device of an unsupported version is never written to, whatever clients send, and
\* though active_ is still set from the device before it: FlowControl would pass on all
\* that Machine forwards.  The session before it has settled when it is plugged in.
OldDeviceIsLeftAlone == banner = "oldGrbl" => input = <<>>

\* Once everything has settled, the machine believes its device connected just
\* when the last scan saw it, and the port is open just when it is plugged in:
\* no startup line or event that was on its way leaves them apart.  Only a device
\* that was away between two scans is left with the port of its former self.
SessionFollowsUsb ==
    Quiet /\ ~aborted /\ plugged = known =>
        /\ state # "Disconnected" <=> known
        /\ ~unseen => (port = "open" <=> plugged)

\* Only pulling the plug can end the process: a write or an open that throws
\* finds its device gone, since before the write or the open was handled.
EndsOnlyByUnplugging == [][~aborted /\ aborted' => ~plugged \/ port = "dead"]_vars

\* Nothing more can be asked of a session that is over.
Over == port # "open" \/ aborted

\* A supported device that starts up is identified, unless its startup line is glued to
\* the rest of a line of the connection before.
DeviceIsIdentified == booting /\ banner = "grbl" /\ ~cut ~> state = "Identified" \/ Over

\* Every request that FlowControl accepted is sent, and answered.
QueueDrains == incoming \o outgoing # <<>> ~> incoming \o outgoing = <<>> \/ Over

\* The soft reset, commented `0x18', restarts the device.
SoftResetRestarts ==
    (\E i \in 1..Len(input) : input[i].type = "GrblSoftReset") ~> booting \/ Over

\* "Reset alarm first": commands are accepted again once the device was unlocked.
UnlockEndsAlarm == alarm /\ Running /\ ~locked ~> ~alarm \/ Over
=============================================================================
