------------------------------ MODULE Machine -------------------------------
(***************************************************************************)
(* Machine: the actor that stands for one device.  It follows the device   *)
(* from plugging in to its identification, lets client commands through    *)
(* once the device has said it runs a supported Grbl, and hands answers    *)
(* and pushes on to the context.                                           *)
(*                                                                         *)
(* Every handler is one action on the message it is given; the composition *)
(* takes the message from its socket.  A send blocks while the socket pair *)
(* is full.                                                                *)
(***************************************************************************)
EXTENDS GrblCommands, Sequences

CONSTANTS
    Hwm,   \* messages a socket pair holds before a send blocks
    NoName \* version_ of a machine that has not been identified

VARIABLES
    state,       \* state_
    name,        \* version_: the line that identified the device
    grblVersion, \* grbl_version_
    messageId,   \* message_id_
    toContext,   \* socket pair to the Context
    toFlow,      \* socket pair to FlowControl
    aborted      \* abort() ended the process

identity == <<name, grblVersion>>
vars     == <<state, identity, messageId, toContext, toFlow, aborted>>

States == {"Disconnected", "Connected", "Grbl", "Identified"}

\* State::Grbl > state_ is false.
Ready(s) == s \in {"Grbl", "Identified"}

-----------------------------------------------------------------------------
(* Messages to FlowControl and to the Context *)

Send(type, size)  == [kind |-> "Send", type |-> type, size |-> size]
EnableFlowControl == [kind |-> "EnableFlowControl"]
DeviceIsSupported == [kind |-> "DeviceIsSupported"]

\* (0 == major) && (9 > minor)
Unsupported(version) == version[1] = 0 /\ version[2] < 9

\* A response that no request of FlowControl asked for.
Unsolicited(msg) == msg.type = "Invalid"

-----------------------------------------------------------------------------
(* Events of the device's USB connection *)

UsbDeviceAdded(msg) ==
    /\ ~aborted
    /\ Len(toFlow) < Hwm
    /\ state' = "Connected"
    /\ toFlow' = Append(toFlow, msg)
    /\ UNCHANGED <<identity, messageId, toContext, aborted>>

UsbDeviceRemoved(msg) ==
    /\ ~aborted
    /\ Len(toFlow) < Hwm
    /\ state' = "Disconnected"
    /\ toFlow' = Append(toFlow, msg)
    /\ UNCHANGED <<identity, messageId, toContext, aborted>>

-----------------------------------------------------------------------------
(* Commands *)

\* forward_grbl: dropped until the device is known to run Grbl.
ForwardAlways(s) == TRUE
Forwards(s) == Ready(s)

ForwardGrbl(type, size) ==
    /\ ~aborted
    /\ IF Forwards(state)
       THEN /\ Len(toFlow) < Hwm
            /\ toFlow' = Append(toFlow, Send(type, size))
            /\ messageId' = messageId + 1
       ELSE UNCHANGED <<toFlow, messageId>>
    /\ UNCHANGED <<state, identity, toContext, aborted>>

\* command_init_grbl: the version is stored even when it is refused.
InitUnsupported(msg) ==
    /\ ~aborted
    /\ Unsupported(msg.version)
    /\ grblVersion' = msg.version
    /\ UNCHANGED <<state, name, messageId, toContext, toFlow, aborted>>

\* command_init_grbl: enable flow control, then ask for the version.
AskWithoutEnabling == <<Send("GrblVersion", TextSize("GrblVersion"))>>
EnableAndAsk == <<EnableFlowControl, Send("GrblVersion", TextSize("GrblVersion"))>>

InitSupported(msg) ==
    /\ ~aborted
    /\ ~Unsupported(msg.version)
    /\ Len(toFlow) + 1 < Hwm
    /\ grblVersion' = msg.version
    /\ state' = "Grbl"
    /\ toFlow' = toFlow \o EnableAndAsk
    /\ messageId' = messageId + 1
    /\ UNCHANGED <<name, toContext, aborted>>

-----------------------------------------------------------------------------
(* Answers and pushes from FlowControl *)

PushReceived(msg) ==
    /\ ~aborted
    /\ Len(toContext) < Hwm
    /\ toContext' = Append(toContext, msg)
    /\ UNCHANGED <<state, identity, messageId, toFlow, aborted>>

\* command_response_received, nobody is connected: the answer is dropped.
DropsNothing(s) == FALSE
Drops(s) == s \in {"Disconnected", "Connected"}

DropResponse ==
    /\ ~aborted
    /\ Drops(state)
    /\ UNCHANGED vars

\* process_response_version: whatever is answered first names the machine.
ResponseVersion(msg) ==
    /\ ~aborted
    /\ state = "Grbl"
    /\ Len(toContext) < Hwm
    /\ name' = Head(msg.lines)
    /\ toContext' = Append(toContext, DeviceIsSupported)
    /\ state' = "Identified"
    /\ UNCHANGED <<grblVersion, messageId, toFlow, aborted>>

\* process_response
Response(msg) ==
    /\ ~aborted
    /\ ~Drops(state) /\ state # "Grbl"
    /\ ~Unsolicited(msg)
    /\ Len(toContext) < Hwm
    /\ toContext' = Append(toContext, msg)
    /\ UNCHANGED <<state, identity, messageId, toFlow, aborted>>

\* process_response: an answer of type Command::Invalid ends the process.
ResponseAborts(msg) ==
    /\ ~aborted
    /\ ~Drops(state) /\ state # "Grbl"
    /\ Unsolicited(msg)
    /\ aborted' = TRUE
    /\ UNCHANGED <<state, identity, messageId, toContext, toFlow>>

-----------------------------------------------------------------------------

Init ==
    /\ state = "Disconnected"
    /\ name = NoName
    /\ grblVersion = <<0, 0>>
    /\ messageId = -1
    /\ toContext = <<>> /\ toFlow = <<>>

\* The handler of a message from FlowControl.
HandleFlow(msg) ==
    \/ msg.kind = "InitGrbl" /\ (InitSupported(msg) \/ InitUnsupported(msg))
    \/ msg.kind = "GrblPushReceived" /\ PushReceived(msg)
    \/ msg.kind = "ResponseReceived" /\ (\/ DropResponse
                                         \/ ResponseVersion(msg)
                                         \/ Response(msg)
                                         \/ ResponseAborts(msg))

\* The handler of a message from the context.
HandleContext(msg) ==
    \/ msg.kind = "USBDeviceAdded" /\ UsbDeviceAdded(msg)
    \/ msg.kind = "USBDeviceRemoved" /\ UsbDeviceRemoved(msg)
    \/ msg.kind = "Send" /\ ForwardGrbl(msg.type, msg.size)
=============================================================================
