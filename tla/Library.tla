------------------------------ MODULE Library -------------------------------
(***************************************************************************)
(* The library above its devices: Hotplug, the Context, the Machine of     *)
(* every device and the clients, joined by sockets.                        *)
(*                                                                         *)
(* A Machine is reduced to what the Context observes of it: its state_ and *)
(* what it writes of its own description.  Which lines its device prints,  *)
(* and when, is left open: a startup line, an answer or a push may come as *)
(* soon as the port was opened once, also long after the device is gone.   *)
(* The Context takes a client's request in the step that sends it.         *)
(***************************************************************************)
EXTENDS Naturals, Sequences, FiniteSets

CONSTANTS
    Devices,     \* serial numbers
    Clients,     \* identities of client sockets
    Hwm,         \* messages a socket holds
    MaxPlugs,    \* bound: times a device is plugged in
    MaxMessages  \* bound: requests of clients and lines of devices, but for
                 \* those that identify a device

\* One host; a scan puts its devices in a list.
ASSUME LibraryAssumption == IsFiniteSet(Devices) /\ Hwm \in Nat

VARIABLES
    present, deviceList, events,                               \* Hotplug
    devices, deviceSubscribers, machineSubscribers,            \* Context
    recognized, toMachine, toClient, lost,
    connection, \* per device: its machine's state_
    grblVersion,\* per device: its machine's grbl_version_, supported or not
    opened,     \* devices whose port was opened: their lines may come
    toContext,  \* per device: socket pair from its Machine
    view,       \* per client: the devices it believes to be listed
    overtaken,  \* history: devices whose announcement came after their removal
    late,       \* history: machines woken by a startup line while Disconnected
    restarted,  \* history: machines that read a startup line while Identified
    plugs,      \* times a device was plugged in
    messages    \* requests of clients and lines of devices sent

Usb == INSTANCE Hotplug
Ctx == INSTANCE Context

usbVars     == <<present, deviceList, events>>
contextVars == <<devices, deviceSubscribers, machineSubscribers, recognized,
                 toMachine, toClient, lost>>
machineVars == <<connection, grblVersion, opened>>
history     == <<overtaken, late, restarted>>
counters    == <<plugs, messages>>
vars == <<usbVars, contextVars, machineVars, toContext, view, history, counters>>

-----------------------------------------------------------------------------
(* Hotplug and the Context *)

Scan ==
    /\ Usb!EnumerateUsb
    /\ UNCHANGED <<contextVars, machineVars, toContext, view, history, counters>>

\* The announcement of a device comes from its Machine, the report of its
\* removal from Hotplug: the one may be on its way while the other is handled.
Announcing(device) ==
    \E i \in 1..Len(toContext[device]) : toContext[device][i] = "DeviceIsSupported"
Removing(device) ==
    \E i \in 1..Len(toMachine[device]) : toMachine[device][i].kind = "USBDeviceRemoved"

ContextReadsUsb ==
    /\ events # <<>>
    /\ LET msg == Head(events) IN
       \/ /\ msg.kind = "USBDeviceAdded" /\ Ctx!UsbDeviceAdded(msg.device)
          /\ UNCHANGED overtaken
       \/ /\ msg.kind = "USBDeviceRemoved" /\ Ctx!UsbDeviceRemoved(msg.device)
          /\ overtaken' = IF Announcing(msg.device) THEN overtaken \cup {msg.device}
                                                   ELSE overtaken \ {msg.device}
    /\ events' = Tail(events)
    /\ UNCHANGED <<present, deviceList, machineVars, toContext, view, late, restarted,
                   counters>>

ContextReadsMachine(device) ==
    /\ toContext[device] # <<>>
    /\ LET kind == Head(toContext[device]) IN
       \/ kind = "DeviceIsSupported" /\ Ctx!SupportDevice(device)
       \/ /\ kind \in {"ResponseReceived", "GrblPushReceived"}
          /\ Ctx!ForwardToSubscriber(device, kind)
    /\ toContext' = [toContext EXCEPT ![device] = Tail(@)]
    /\ UNCHANGED <<usbVars, machineVars, view, history, counters>>

ClientRequests(client) ==
    /\ messages < MaxMessages
    /\ messages' = messages + 1
    /\ \/ Ctx!ListDevices(client)
       \/ \E first \in Devices : \E others \in SUBSET (Devices \ {first}) :
              Ctx!Subscribe(client, first, others)
       \/ \E unwanted \in SUBSET Devices : Ctx!Unsubscribe(client, unwanted)
       \/ \E device \in Devices : Ctx!ForwardToMachine(client, device)
    /\ UNCHANGED <<usbVars, machineVars, toContext, view, history, plugs>>

-----------------------------------------------------------------------------
(* The machines *)

Answer(device, kind) ==
    /\ Len(toContext[device]) < Hwm
    /\ toContext' = [toContext EXCEPT ![device] = Append(@, kind)]

\* A command goes on to FlowControl or, before a startup line, nowhere.
MachineHandles(device, msg) ==
    \/ /\ msg.kind = "USBDeviceAdded"
       /\ connection' = [connection EXCEPT ![device] = "Connected"]
       /\ opened' = opened \cup {device}
       /\ late' = late \ {device} /\ restarted' = restarted \ {device}
    \/ /\ msg.kind = "USBDeviceRemoved"
       /\ connection' = [connection EXCEPT ![device] = "Disconnected"]
       /\ late' = late \ {device} /\ restarted' = restarted \ {device}
       /\ UNCHANGED opened
    \/ /\ msg.kind = "Command"
       /\ UNCHANGED <<connection, opened, late, restarted>>

MachineReads(device) ==
    /\ toMachine[device] # <<>>
    /\ MachineHandles(device, Head(toMachine[device]))
    /\ toMachine' = [toMachine EXCEPT ![device] = Tail(@)]
    /\ UNCHANGED <<usbVars, devices, deviceSubscribers, machineSubscribers,
                   recognized, toClient, lost, grblVersion, toContext, view,
                   overtaken, counters>>

\* command_init_grbl, in whatever state: the version is written first, then
\* refused or not.  The device has started up, has restarted of its own accord,
\* or has sent a status report, whose version is not supported.
StartupLine(device, version) ==
    /\ device \in opened
    /\ grblVersion' = [grblVersion EXCEPT ![device] = version]
    /\ connection' = IF version = "supported"
                     THEN [connection EXCEPT ![device] = "Grbl"] ELSE connection
    /\ late' = IF connection[device] = "Disconnected" /\ version = "supported"
               THEN late \cup {device} ELSE late
    /\ restarted' = IF connection[device] = "Identified"
                    THEN restarted \cup {device} ELSE restarted
    /\ UNCHANGED <<usbVars, contextVars, opened, toContext, view, overtaken, plugs>>

\* The line that opening the port makes the device print, and any other.
DeviceStarts(device) ==
    /\ connection[device] = "Connected"
    /\ StartupLine(device, "supported")
    /\ UNCHANGED messages
DeviceReports(device) ==
    /\ messages < MaxMessages
    /\ messages' = messages + 1
    /\ \E version \in {"supported", "unsupported"} : StartupLine(device, version)

\* process_response_version: the first answer after a startup line.
MachineIdentifies(device) ==
    /\ connection[device] = "Grbl"
    /\ Answer(device, "DeviceIsSupported")
    /\ connection' = [connection EXCEPT ![device] = "Identified"]
    /\ overtaken' = IF Removing(device) \/ device \in late
                    THEN overtaken \cup {device} ELSE overtaken
    /\ UNCHANGED <<usbVars, contextVars, grblVersion, opened, view, late, restarted,
                   counters>>

\* An answer while Disconnected or Connected is dropped; a push never is.
MachineForwards(device) ==
    /\ device \in opened
    /\ messages < MaxMessages
    /\ \/ connection[device] = "Identified" /\ Answer(device, "ResponseReceived")
       \/ Answer(device, "GrblPushReceived")
    /\ messages' = messages + 1
    /\ UNCHANGED <<usbVars, contextVars, machineVars, view, history, plugs>>

-----------------------------------------------------------------------------
(* Clients and devices *)

\* What a client makes of a message about the list of devices.
Believed(believed, msg) ==
    CASE msg.kind = "ListDevicesReply"  -> msg.devices
      [] msg.kind = "PushDeviceAdded"   -> believed \cup {msg.device}
      [] msg.kind = "PushDeviceRemoved" -> believed \ {msg.device}
      [] OTHER                          -> believed

ClientReads(client) ==
    /\ toClient[client] # <<>>
    /\ view' = [view EXCEPT ![client] = Believed(@, Head(toClient[client]))]
    /\ toClient' = [toClient EXCEPT ![client] = Tail(@)]
    /\ UNCHANGED <<usbVars, devices, deviceSubscribers, machineSubscribers,
                   recognized, toMachine, lost, machineVars, toContext,
                   history, counters>>

Plug(device) ==
    /\ plugs < MaxPlugs
    /\ device \notin present
    /\ present' = present \cup {device}
    /\ plugs' = plugs + 1
    /\ UNCHANGED <<deviceList, events, contextVars, machineVars, toContext, view,
                   history, messages>>

Unplug(device) ==
    /\ device \in present
    /\ present' = present \ {device}
    /\ UNCHANGED <<deviceList, events, contextVars, machineVars, toContext, view,
                   history, counters>>

-----------------------------------------------------------------------------

Init ==
    /\ Usb!Init /\ Ctx!Init
    /\ connection = [d \in Devices |-> "Disconnected"]
    /\ grblVersion = [d \in Devices |-> "unsupported"]
    /\ opened = {}
    /\ toContext = [d \in Devices |-> <<>>]
    /\ view = [c \in Clients |-> {}]
    /\ overtaken = {} /\ late = {} /\ restarted = {}
    /\ plugs = 0 /\ messages = 0

Next ==
    \/ Scan \/ ContextReadsUsb
    \/ \E device \in Devices :
           \/ ContextReadsMachine(device)
           \/ MachineReads(device) \/ MachineIdentifies(device) \/ MachineForwards(device)
           \/ DeviceStarts(device) \/ DeviceReports(device)
           \/ Plug(device) \/ Unplug(device)
    \/ \E client \in Clients : ClientRequests(client) \/ ClientReads(client)

\* The scan repeats, every actor polls its sockets, clients read what they are
\* sent and a connected device starts up and answers.
FairSpec ==
    /\ Init /\ [][Next]_vars
    /\ WF_vars(Scan) /\ WF_vars(ContextReadsUsb)
    /\ \A device \in Devices :
           /\ WF_vars(ContextReadsMachine(device)) /\ WF_vars(MachineReads(device))
           /\ WF_vars(DeviceStarts(device)) /\ WF_vars(MachineIdentifies(device))
    /\ \A client \in Clients : WF_vars(ClientReads(client))

-----------------------------------------------------------------------------
(* Properties *)

\* A client that has listed the devices and read all it was sent, of which
\* the router dropped nothing, knows exactly which devices are recognized.
ViewMatches ==
    \A c \in deviceSubscribers :
        toClient[c] = <<>> /\ c \notin lost => view[c] = recognized

\* When no report is on its way, a machine believes its device connected if
\* the last list of USB devices has it, and disconnected if not, however plugging,
\* scans and the actors interleave; but a startup line that is handled after the
\* removal makes command_init_grbl wake the machine of a device that is gone.
Reported(device) == toMachine[device] = <<>> /\ events = <<>>
MachineFollowsUsb ==
    \A d \in Devices :
        Reported(d) =>
            IF d \in deviceList THEN connection[d] # "Disconnected"
                               ELSE connection[d] = "Disconnected" \/ d \in late

\* A device that is gone stays listed only if its removal overtook its own
\* announcement, between the Machine's socket and Hotplug's, or if its machine
\* was woken by a late startup line: command_support_device lists the device
\* without asking whether it is still there.
Settled(device) == events = <<>> /\ ~Announcing(device)
GhostsWereOvertaken ==
    \A d \in recognized \ deviceList : Settled(d) => d \in overtaken

\* Describe reads the version of a listed device on the Context's thread, without
\* a lock.  The only machines that write it meanwhile (in command_init_grbl or
\* process_response_version) are those whose device restarts or reports its status
\* after it was identified, and those whose announcement came after the removal:
\* no reconnection of a device and no order of its reports adds to these.
WritesDescription(device) ==
    DeviceStarts(device) \/ DeviceReports(device) \/ MachineIdentifies(device)
RacesOnlyOnRestart ==
    [][\A d \in recognized :
          WritesDescription(d) => d \in restarted' \cup overtaken]_vars

\* A device that stays plugged in gets listed.
PresentIsRecognized ==
    \A d \in Devices : d \in present ~> d \in recognized \/ d \notin present
=============================================================================
