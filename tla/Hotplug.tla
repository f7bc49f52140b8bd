------------------------------ MODULE Hotplug -------------------------------
(***************************************************************************)
(* Hotplug: the thread that lists the USB devices every 500 ms and reports *)
(* to the Context what changed since the last list.  A device is known by  *)
(* its serial number; a change that is undone, or a device that is back on *)
(* another port, between two lists goes unseen.                            *)
(***************************************************************************)
EXTENDS FiniteSets, SequencesExt

CONSTANT Hwm \* messages the socket to the Context holds before a send blocks

VARIABLES
    present,    \* the connected devices that have a serial port
    deviceList, \* device_list_: those of the last list
    events      \* socket to the Context

Event(kind, device) == [kind |-> kind, device |-> device]

Events(kind, devices) ==
    LET order == SetToSeq(devices)
    IN  [i \in 1..Len(order) |-> Event(kind, order[i])]

\* enumerate_usb: additions, then removals.
AddedOnly == Events("USBDeviceAdded", present \ deviceList)
Changes == Events("USBDeviceAdded", present \ deviceList)
           \o Events("USBDeviceRemoved", deviceList \ present)

EnumerateUsb ==
    /\ present # deviceList
    /\ Len(events) + Len(Changes) <= Hwm
    /\ events' = events \o Changes
    /\ deviceList' = present
    /\ UNCHANGED present

Init ==
    /\ present = {}
    /\ deviceList = {}
    /\ events = <<>>
=============================================================================
