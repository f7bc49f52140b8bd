------------------------------ MODULE Context -------------------------------
(***************************************************************************)
(* Context: the actor that clients talk to.  It owns one Machine per       *)
(* device ever seen, keeps the list of the recognized ones, and routes     *)
(* commands to machines and their answers and pushes to clients.           *)
(*                                                                         *)
(* Every handler is one action on the message it is given.  A send to a    *)
(* machine blocks while the socket pair is full; a message to a client     *)
(* whose queue is full is dropped, as a ROUTER socket does.                *)
(***************************************************************************)
EXTENDS Naturals, Sequences

CONSTANTS
    Devices,  \* serial numbers
    Clients,  \* identities of client sockets
    Hwm       \* messages a socket holds

VARIABLES
    devices,            \* keys of devices_: the machines that were created
    deviceSubscribers,  \* device_subscribers_
    machineSubscribers, \* machine_subscribers_
    recognized,         \* recognized_devices_
    toMachine,          \* per device: socket pair to its Machine
    toClient,           \* per client: what the router has sent it
    lost                \* clients the router dropped a message to (history)

registry == <<devices, recognized>>
audience == <<deviceSubscribers, machineSubscribers>>
outputs  == <<toMachine, toClient, lost>>
vars     == <<registry, audience, outputs>>

-----------------------------------------------------------------------------
(* Sockets *)

CanForward(device) == Len(toMachine[device]) < Hwm

Forward(device, msg) == toMachine' = [toMachine EXCEPT ![device] = Append(@, msg)]

\* router_.send of one message to each of some clients.
Route(clients, msg) ==
    /\ toClient' = [c \in Clients |->
                       IF c \in clients /\ Len(toClient[c]) < Hwm
                       THEN Append(toClient[c], msg)
                       ELSE toClient[c]]
    /\ lost' = lost \cup {c \in clients : Len(toClient[c]) = Hwm}

DeviceMessage(kind, device) == [kind |-> kind, device |-> device]
ListReply == [kind |-> "ListDevicesReply", devices |-> recognized]

-----------------------------------------------------------------------------
(* Events of Hotplug *)

\* find_or_create(Operation::Add)
AddedOnce(device) ==
    /\ CanForward(device)
    /\ devices' = devices \cup {device}
    /\ IF device \in devices
       THEN UNCHANGED toMachine
       ELSE Forward(device, [kind |-> "USBDeviceAdded"])
    /\ UNCHANGED <<recognized, audience, toClient, lost>>

UsbDeviceAdded(device) ==
    /\ CanForward(device)
    /\ devices' = devices \cup {device}
    /\ Forward(device, [kind |-> "USBDeviceAdded"])
    /\ UNCHANGED <<recognized, audience, toClient, lost>>

\* find_or_create(Operation::Remove): a machine that does not exist yet is
\* created even so.
RemovedUnlisted(device) ==
    /\ CanForward(device)
    /\ Route(deviceSubscribers, DeviceMessage("PushDeviceRemoved", device))
    /\ devices' = devices \cup {device}
    /\ Forward(device, [kind |-> "USBDeviceRemoved"])
    /\ UNCHANGED <<recognized, audience>>

UsbDeviceRemoved(device) ==
    /\ CanForward(device)
    /\ Route(deviceSubscribers, DeviceMessage("PushDeviceRemoved", device))
    /\ devices' = devices \cup {device}
    /\ recognized' = recognized \ {device}
    /\ Forward(device, [kind |-> "USBDeviceRemoved"])
    /\ UNCHANGED audience

-----------------------------------------------------------------------------
(* Messages of a Machine *)

\* command_support_device; a device that is recognized already is announced
\* once more.  Operation::MustExist holds: the sender is one of devices_.
SupportDevice(device) ==
    /\ device \in devices
    /\ recognized' = recognized \cup {device}
    /\ Route(deviceSubscribers, DeviceMessage("PushDeviceAdded", device))
    /\ UNCHANGED <<devices, audience, toMachine>>

\* forward_to_subscriber: answers and pushes go to every subscriber.
ForwardToSubscriber(device, kind) ==
    /\ Route(machineSubscribers[device], DeviceMessage(kind, device))
    /\ UNCHANGED <<registry, audience, toMachine>>

-----------------------------------------------------------------------------
(* Requests of clients *)

ListDevices(client) ==
    /\ deviceSubscribers' = deviceSubscribers \cup {client}
    /\ Route({client}, ListReply)
    /\ UNCHANGED <<registry, machineSubscribers, toMachine>>

\* command_subscribe: to the first argument, and no longer to the others.
Subscribe(client, first, others) ==
    /\ machineSubscribers' =
           [d \in Devices |->
               IF d \in others THEN machineSubscribers[d] \ {client}
               ELSE IF d = first THEN machineSubscribers[d] \cup {client}
               ELSE machineSubscribers[d]]
    /\ UNCHANGED <<registry, deviceSubscribers, outputs>>

Unsubscribe(client, unwanted) ==
    /\ machineSubscribers' =
           [d \in Devices |-> IF d \in unwanted THEN machineSubscribers[d] \ {client}
                                                ELSE machineSubscribers[d]]
    /\ UNCHANGED <<registry, deviceSubscribers, outputs>>

\* forward_to_machine: a command subscribes its sender, even to a device that
\* does not exist.
ForwardToMachine(client, device) ==
    /\ device \in devices => CanForward(device)
    /\ machineSubscribers' = [machineSubscribers EXCEPT ![device] = @ \cup {client}]
    /\ IF device \in devices
       THEN Forward(device, [kind |-> "Command"])
       ELSE UNCHANGED toMachine
    /\ UNCHANGED <<registry, deviceSubscribers, toClient, lost>>

Init ==
    /\ devices = {} /\ recognized = {}
    /\ deviceSubscribers = {}
    /\ machineSubscribers = [d \in Devices |-> {}]
    /\ toMachine = [d \in Devices |-> <<>>]
    /\ toClient = [c \in Clients |-> <<>>]
    /\ lost = {}
=============================================================================
