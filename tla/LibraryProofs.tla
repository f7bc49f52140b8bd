--------------------------- MODULE LibraryProofs ----------------------------
(***************************************************************************)
(* What the Context, the machines and the clients believe, for any number  *)
(* of devices and clients.                                                 *)
(*                                                                         *)
(* Each of them hears of a device by messages that wait in a socket.  The  *)
(* invariants speak of what the receiver will believe once it has read     *)
(* them all: every message that is wrong by now is followed by one that is *)
(* right, and where no right one waits the receiver believes the right     *)
(* thing already.                                                          *)
(***************************************************************************)
EXTENDS Library, FiniteSetTheorems, SequenceTheorems, TLAPS

\* Every wrong message of a sequence is corrected by a later one.
Corrected(seq, wrong, right) ==
    \A i \in 1..Len(seq) :
        seq[i] \in wrong => \E j \in 1..Len(seq) : i < j /\ seq[j] \in right

Lacks(seq, messages_) == \A i \in 1..Len(seq) : seq[i] \notin messages_

-----------------------------------------------------------------------------
(* Sockets *)

\* A right message corrects all before it.
LEMMA AppendRight ==
    ASSUME NEW S, NEW seq \in Seq(S), NEW wrong, NEW right, NEW m \in S,
           m \in right, m \notin wrong
    PROVE  /\ Corrected(Append(seq, m), wrong, right)
           /\ ~Lacks(Append(seq, m), right)
  <1>1. /\ Len(seq) \in Nat /\ Len(Append(seq, m)) = Len(seq) + 1
        /\ Append(seq, m)[Len(seq) + 1] = m
    OBVIOUS
  <1>2. Len(seq) + 1 \in 1..Len(Append(seq, m))
    BY <1>1
  <1>3. \A i \in 1..Len(Append(seq, m)) : i < Len(seq) + 1 \/ i = Len(seq) + 1
    BY <1>1
  <1> QED BY <1>1, <1>2, <1>3 DEF Corrected, Lacks

\* A message about something else corrects nothing and spoils nothing.
LEMMA AppendOther ==
    ASSUME NEW S, NEW seq \in Seq(S), NEW wrong, NEW right, NEW m \in S,
           m \notin right, m \notin wrong, Corrected(seq, wrong, right)
    PROVE  /\ Corrected(Append(seq, m), wrong, right)
           /\ Lacks(Append(seq, m), right) => Lacks(seq, right)
  <1>1. /\ Len(seq) \in Nat /\ Len(Append(seq, m)) = Len(seq) + 1
        /\ Append(seq, m)[Len(seq) + 1] = m
        /\ \A i \in 1..Len(seq) : Append(seq, m)[i] = seq[i]
    OBVIOUS
  <1>2. \A i \in 1..Len(Append(seq, m)) : i \in 1..Len(seq) \/ i = Len(seq) + 1
    BY <1>1
  <1>3. \A i \in 1..Len(seq) : i \in 1..Len(Append(seq, m))
    BY <1>1
  <1> QED BY <1>1, <1>2, <1>3 DEF Corrected, Lacks

\* Reading a message; a wrong one is read only while a right one waits.
LEMMA TakeHead ==
    ASSUME NEW S, NEW seq \in Seq(S), NEW wrong, NEW right,
           seq # <<>>, Corrected(seq, wrong, right)
    PROVE  /\ Corrected(Tail(seq), wrong, right)
           /\ Lacks(Tail(seq), right) =>
                  /\ Head(seq) \notin wrong
                  /\ Head(seq) \in right \/ Lacks(seq, right)
  <1>1. /\ Len(seq) \in Nat \ {0} /\ Head(seq) = seq[1]
        /\ Len(Tail(seq)) = Len(seq) - 1
        /\ \A i \in 1..Len(Tail(seq)) : Tail(seq)[i] = seq[i + 1]
    BY HeadTailProperties
  <1>2. \A i \in 1..Len(seq) :
            i = 1 \/ /\ i - 1 \in 1..Len(Tail(seq))
                     /\ seq[i] = Tail(seq)[i - 1]
    BY <1>1
  <1>3. \A i \in 1..Len(Tail(seq)) : i + 1 \in 1..Len(seq)
    BY <1>1
  <1>4. Corrected(Tail(seq), wrong, right)
    <2> SUFFICES ASSUME NEW i \in 1..Len(Tail(seq)), Tail(seq)[i] \in wrong
                 PROVE  \E j \in 1..Len(Tail(seq)) : i < j /\ Tail(seq)[j] \in right
      BY DEF Corrected
    <2>1. PICK j \in 1..Len(seq) : i + 1 < j /\ seq[j] \in right
      BY <1>1, <1>3 DEF Corrected
    <2>2. j - 1 \in 1..Len(Tail(seq)) /\ Tail(seq)[j - 1] \in right /\ i < j - 1
      BY <2>1, <1>2
    <2> QED BY <2>2
  <1>5. ASSUME Lacks(Tail(seq), right), Head(seq) \in wrong
        PROVE  FALSE
    <2>1. PICK j \in 1..Len(seq) : 1 < j /\ seq[j] \in right
      BY <1>1, <1>5 DEF Corrected
    <2> QED BY <2>1, <1>2, <1>5 DEF Lacks
  <1>6. ASSUME Lacks(Tail(seq), right), Head(seq) \notin right
        PROVE  Lacks(seq, right)
    BY <1>1, <1>2, <1>6 DEF Lacks
  <1> QED BY <1>4, <1>5, <1>6

\* Several messages at once.
LEMMA ConcatOther ==
    ASSUME NEW S, NEW seq \in Seq(S), NEW more \in Seq(S), NEW wrong, NEW right,
           Lacks(more, wrong), Lacks(more, right), Corrected(seq, wrong, right)
    PROVE  /\ Corrected(seq \o more, wrong, right)
           /\ Lacks(seq \o more, right) => Lacks(seq, right)
  <1>1. /\ Len(seq) \in Nat /\ Len(more) \in Nat
        /\ Len(seq \o more) = Len(seq) + Len(more)
        /\ \A i \in 1..Len(seq) : (seq \o more)[i] = seq[i]
        /\ \A i \in 1..Len(seq \o more) :
               i \in 1..Len(seq) \/ /\ i - Len(seq) \in 1..Len(more)
                                    /\ (seq \o more)[i] = more[i - Len(seq)]
    BY ConcatProperties
  <1>2. \A i \in 1..Len(seq) : i \in 1..Len(seq \o more)
    BY <1>1
  <1> QED BY <1>1, <1>2 DEF Corrected, Lacks

LEMMA ConcatRight ==
    ASSUME NEW S, NEW seq \in Seq(S), NEW more \in Seq(S), NEW wrong, NEW right,
           Lacks(more, wrong), ~Lacks(more, right)
    PROVE  /\ Corrected(seq \o more, wrong, right)
           /\ ~Lacks(seq \o more, right)
  <1>1. /\ Len(seq) \in Nat /\ Len(more) \in Nat
        /\ Len(seq \o more) = Len(seq) + Len(more)
        /\ \A i \in 1..Len(more) : (seq \o more)[i + Len(seq)] = more[i]
        /\ \A i \in 1..Len(seq \o more) :
               i \in 1..Len(seq) \/ /\ i - Len(seq) \in 1..Len(more)
                                    /\ (seq \o more)[i] = more[i - Len(seq)]
    BY ConcatProperties
  <1>2. PICK k \in 1..Len(more) : more[k] \in right
    BY DEF Lacks
  <1>3. /\ k + Len(seq) \in 1..Len(seq \o more)
        /\ (seq \o more)[k + Len(seq)] \in right
    BY <1>1, <1>2
  <1>4. \A i \in 1..Len(seq \o more) :
            (seq \o more)[i] \in wrong => i < k + Len(seq)
    BY <1>1 DEF Lacks
  <1> QED BY <1>3, <1>4 DEF Corrected, Lacks

-----------------------------------------------------------------------------
(* The invariant *)

UsbEvent == [kind : {"USBDeviceAdded", "USBDeviceRemoved"}, device : Devices]
MachineMessage == [kind : {"USBDeviceAdded", "USBDeviceRemoved", "Command"}]
ClientMessage ==
    [kind : {"ListDevicesReply"}, devices : SUBSET Devices]
    \cup [kind : {"PushDeviceAdded", "PushDeviceRemoved",
                  "ResponseReceived", "GrblPushReceived"},
          device : Devices]

TypeOK ==
    /\ present \in SUBSET Devices /\ deviceList \in SUBSET Devices
    /\ events \in Seq(UsbEvent)
    /\ deviceSubscribers \in SUBSET Clients
    /\ recognized \in SUBSET Devices
    /\ toMachine \in [Devices -> Seq(MachineMessage)]
    /\ toClient \in [Clients -> Seq(ClientMessage)]
    /\ connection \in [Devices -> {"Disconnected", "Connected", "Grbl", "Identified"}]
    /\ toContext \in [Devices -> Seq({"DeviceIsSupported", "ResponseReceived",
                                     "GrblPushReceived"})]
    /\ view \in [Clients -> SUBSET Devices]

\* A message longer than the socket is lost, never half of it.
WithinHwm == \A c \in Clients : Len(toClient[c]) <= Hwm

\* What would be reported of a device now, and what would be wrong.
Report(d) == IF d \in deviceList THEN "USBDeviceAdded" ELSE "USBDeviceRemoved"
Misreport(d) == IF d \in deviceList THEN "USBDeviceRemoved" ELSE "USBDeviceAdded"

\* The Machine's belief is the last list's, but for a late startup line.
Follows(d) == IF d \in deviceList THEN connection[d] # "Disconnected"
                                 ELSE connection[d] = "Disconnected" \/ d \in late

\* The Context has been, or will be, told the truth; once no report waits for
\* the Context, the same holds of the Machine.
MachineHears(d) ==
    /\ Corrected(toMachine[d], {[kind |-> Misreport(d)]}, {[kind |-> Report(d)]})
    /\ Lacks(toMachine[d], {[kind |-> Report(d)]}) => Follows(d)
ContextHears(d) ==
    Corrected(events, {Usb!Event(Misreport(d), d)}, {Usb!Event(Report(d), d)})
Unreported(d) == Lacks(events, {Usb!Event(Report(d), d)})
Hears(d) == ContextHears(d) /\ (Unreported(d) => MachineHears(d))

\* Listed, or about to be, though the Context was told that it is gone.
Ghost(d) ==
    Unreported(d) /\ d \notin deviceList /\ (d \in recognized \/ Announcing(d))
GhostsExplained == \A d \in Devices : Ghost(d) => d \in overtaken

\* The messages that tell a client that a device is listed, or is not.
Listing(d) ==
    {m \in ClientMessage : \/ m.kind = "ListDevicesReply" /\ d \in m.devices
                           \/ m.kind = "PushDeviceAdded" /\ m.device = d}
Unlisting(d) ==
    {m \in ClientMessage : \/ m.kind = "ListDevicesReply" /\ d \notin m.devices
                           \/ m.kind = "PushDeviceRemoved" /\ m.device = d}
Right(d) == IF d \in recognized THEN Listing(d) ELSE Unlisting(d)
Wrong(d) == IF d \in recognized THEN Unlisting(d) ELSE Listing(d)

ClientHears(c, d) ==
    /\ Corrected(toClient[c], Wrong(d), Right(d))
    /\ Lacks(toClient[c], Right(d)) => (d \in view[c] <=> d \in recognized)
ClientsHear ==
    \A c \in deviceSubscribers \ lost : \A d \in Devices : ClientHears(c, d)

IInv ==
    /\ TypeOK /\ WithinHwm
    /\ \A d \in Devices : Hears(d)
    /\ GhostsExplained
    /\ ClientsHear

-----------------------------------------------------------------------------
(* What a scan reports *)

LEMMA CardinalityOfUsb ==
    ASSUME NEW S
    PROVE  Usb!Cardinality(S) = Cardinality(S)
  BY DEF Cardinality, Usb!Cardinality

LEMMA OrderCoversSet ==
    ASSUME NEW S, IsFiniteSet(S)
    PROVE  /\ Usb!SetToSeq(S) \in Seq(S)
           /\ Usb!IsInjective(Usb!SetToSeq(S))
           /\ \A s \in S : \E i \in 1..Len(Usb!SetToSeq(S)) : Usb!SetToSeq(S)[i] = s
  <1> DEFINE n == Cardinality(S)
  <1>1. n \in Nat /\ ExistsBijection(1..n, S)
    BY FS_CardinalityType
  <1>2. PICK f \in Bijection(1..n, S) : TRUE
    BY <1>1 DEF ExistsBijection
  <1>3. f \in [1..n -> S] /\ Usb!IsInjective(f)
    BY <1>2 DEF Bijection, Injection, IsInjective, Usb!IsInjective
  <1>4. /\ Usb!SetToSeq(S) \in [1..n -> S]
        /\ Usb!IsInjective(Usb!SetToSeq(S))
    BY <1>3, CardinalityOfUsb DEF Usb!SetToSeq
  <1>5. Usb!SetToSeq(S) \in Injection(1..n, S)
    BY <1>4 DEF Injection, IsInjective, Usb!IsInjective
  <1>6. IsFiniteSet(1..n) /\ Cardinality(1..n) = n
    BY <1>1, FS_Interval
  <1>7. Usb!SetToSeq(S) \in Surjection(1..n, S)
    BY <1>5, <1>6, FS_Injection
  <1>8. Usb!SetToSeq(S) \in Seq(S) /\ Len(Usb!SetToSeq(S)) = n
    BY <1>1, <1>4
  <1> QED BY <1>4, <1>7, <1>8 DEF Surjection

LEMMA EventsOfSet ==
    ASSUME NEW kind \in {"USBDeviceAdded", "USBDeviceRemoved"},
           NEW S \in SUBSET Devices, IsFiniteSet(S)
    PROVE  /\ Usb!Events(kind, S) \in Seq(UsbEvent)
           /\ \A d \in S : ~Lacks(Usb!Events(kind, S), {Usb!Event(kind, d)})
           /\ \A other, d : other # kind \/ d \notin S
                             => Lacks(Usb!Events(kind, S), {Usb!Event(other, d)})
  <1> DEFINE order == Usb!SetToSeq(S)
             seq == Usb!Events(kind, S)
  <1>1. /\ order \in Seq(S)
        /\ \A s \in S : \E i \in 1..Len(order) : order[i] = s
    BY OrderCoversSet
  <1> HIDE DEF order
  <1>2. seq = [i \in 1..Len(order) |-> Usb!Event(kind, order[i])]
    BY DEF Usb!Events, order
  <1> HIDE DEF seq
  <1>3. /\ Len(order) \in Nat
        /\ \A i \in 1..Len(order) : order[i] \in S
    BY <1>1
  <1>4. \A i \in 1..Len(order) : /\ seq[i] = [kind |-> kind, device |-> order[i]]
                                 /\ seq[i] \in UsbEvent
    BY <1>2, <1>3 DEF Usb!Event, UsbEvent
  <1>5. seq \in Seq(UsbEvent) /\ Len(seq) = Len(order)
    <2>1. seq \in [1..Len(order) -> UsbEvent]
      BY <1>2, <1>4
    <2> QED BY <2>1, <1>3
  <1>6. ASSUME NEW d \in S
        PROVE  ~Lacks(seq, {Usb!Event(kind, d)})
    <2>1. PICK i \in 1..Len(order) : order[i] = d
      BY <1>1
    <2>2. seq[i] = Usb!Event(kind, d)
      BY <2>1, <1>4 DEF Usb!Event
    <2> QED BY <2>2, <1>5 DEF Lacks
  <1>7. ASSUME NEW other, NEW d, other # kind \/ d \notin S
        PROVE  Lacks(seq, {Usb!Event(other, d)})
    <2>1. ASSUME NEW i \in 1..Len(seq), seq[i] = Usb!Event(other, d)
          PROVE  FALSE
      <3> i \in 1..Len(order)
        BY <1>5
      <3>0. seq[i] = [kind |-> kind, device |-> order[i]] /\ order[i] \in S
        BY <1>3, <1>4
      <3>1. seq[i].kind = kind /\ seq[i].device = order[i] /\ order[i] \in S
        BY <3>0
      <3>2. seq[i].kind = other /\ seq[i].device = d
        BY <2>1 DEF Usb!Event
      <3> QED BY <3>1, <3>2, <1>7
    <2> QED BY <2>1 DEF Lacks
  <1> QED BY <1>5, <1>6, <1>7 DEF seq

LEMMA LacksBoth ==
    ASSUME NEW S, NEW seq \in Seq(S), NEW more \in Seq(S), NEW messages_
    PROVE  Lacks(seq \o more, messages_) <=> Lacks(seq, messages_) /\ Lacks(more, messages_)
  <1>1. /\ Len(seq) \in Nat /\ Len(more) \in Nat
        /\ Len(seq \o more) = Len(seq) + Len(more)
        /\ \A i \in 1..Len(seq) : (seq \o more)[i] = seq[i] /\ i \in 1..Len(seq \o more)
        /\ \A i \in 1..Len(more) : /\ (seq \o more)[i + Len(seq)] = more[i]
                                   /\ i + Len(seq) \in 1..Len(seq \o more)
        /\ \A i \in 1..Len(seq \o more) :
               i \in 1..Len(seq) \/ /\ i - Len(seq) \in 1..Len(more)
                                    /\ (seq \o more)[i] = more[i - Len(seq)]
    BY ConcatProperties
  <1> QED BY <1>1 DEF Lacks

\* A scan reports each device that came or went, as what it is now, and
\* nothing of the others.
LEMMA ChangesReported ==
    ASSUME TypeOK
    PROVE  /\ Usb!Changes \in Seq(UsbEvent)
           /\ \A d \in present \ deviceList :
                  /\ ~Lacks(Usb!Changes, {Usb!Event("USBDeviceAdded", d)})
                  /\ Lacks(Usb!Changes, {Usb!Event("USBDeviceRemoved", d)})
           /\ \A d \in deviceList \ present :
                  /\ ~Lacks(Usb!Changes, {Usb!Event("USBDeviceRemoved", d)})
                  /\ Lacks(Usb!Changes, {Usb!Event("USBDeviceAdded", d)})
           /\ \A d : (d \in present <=> d \in deviceList)
                     => /\ Lacks(Usb!Changes, {Usb!Event("USBDeviceAdded", d)})
                        /\ Lacks(Usb!Changes, {Usb!Event("USBDeviceRemoved", d)})
  <1> DEFINE came == Usb!Events("USBDeviceAdded", present \ deviceList)
             went == Usb!Events("USBDeviceRemoved", deviceList \ present)
  <1>1. /\ present \ deviceList \in SUBSET Devices
        /\ deviceList \ present \in SUBSET Devices
    BY DEF TypeOK
  <1>2. IsFiniteSet(present \ deviceList) /\ IsFiniteSet(deviceList \ present)
    BY <1>1, FS_Subset, LibraryAssumption
  <1>3. /\ came \in Seq(UsbEvent)
        /\ \A d \in present \ deviceList : ~Lacks(came, {Usb!Event("USBDeviceAdded", d)})
        /\ \A other, d : other # "USBDeviceAdded" \/ d \notin present \ deviceList
                         => Lacks(came, {Usb!Event(other, d)})
    BY <1>1, <1>2, EventsOfSet
  <1>4. /\ went \in Seq(UsbEvent)
        /\ \A d \in deviceList \ present : ~Lacks(went, {Usb!Event("USBDeviceRemoved", d)})
        /\ \A other, d : other # "USBDeviceRemoved" \/ d \notin deviceList \ present
                         => Lacks(went, {Usb!Event(other, d)})
    BY <1>1, <1>2, EventsOfSet
  <1>5. Usb!Changes = came \o went
    BY DEF Usb!Changes
  <1> HIDE DEF came, went
  <1>6. Usb!Changes \in Seq(UsbEvent)
    BY <1>3, <1>4, <1>5, ConcatProperties
  <1>7. \A m : Lacks(Usb!Changes, m) <=> Lacks(came, m) /\ Lacks(went, m)
    BY <1>3, <1>4, <1>5, LacksBoth
  <1> QED BY <1>3, <1>4, <1>6, <1>7

-----------------------------------------------------------------------------
(* What a step leaves alone *)

LEMMA HearsKept ==
    ASSUME \A d \in Devices : Hears(d),
           UNCHANGED <<deviceList, events, toMachine>>,
           \A d \in Devices : Follows(d) => Follows(d)'
    PROVE  \A d \in Devices : Hears(d)'
  BY DEF Hears, ContextHears, Unreported, MachineHears, Report, Misreport

LEMMA FollowsKept ==
    ASSUME UNCHANGED <<deviceList, connection, late>>
    PROVE  \A d : Follows(d) => Follows(d)'
  BY DEF Follows

LEMMA GhostsKept ==
    ASSUME GhostsExplained, UNCHANGED <<deviceList, events, recognized, overtaken>>,
           \A d \in Devices : Announcing(d)' => Announcing(d)
    PROVE  GhostsExplained'
  BY DEF GhostsExplained, Ghost, Unreported, Report

LEMMA ClientsKept ==
    ASSUME WithinHwm, ClientsHear,
           UNCHANGED <<deviceSubscribers, recognized, toClient, lost, view>>
    PROVE  WithinHwm' /\ ClientsHear'
  BY DEF WithinHwm, ClientsHear, ClientHears, Right, Wrong, Listing, Unlisting

\* The Context reads a message of a Machine.
LEMMA AnnouncementRead ==
    ASSUME TypeOK, NEW device \in Devices, toContext[device] # <<>>,
           toContext' = [toContext EXCEPT ![device] = Tail(@)]
    PROVE  /\ toContext' \in [Devices -> Seq({"DeviceIsSupported", "ResponseReceived",
                                             "GrblPushReceived"})]
           /\ \A d \in Devices : Announcing(d)' => Announcing(d)
  <1>1. toContext' \in [Devices -> Seq({"DeviceIsSupported", "ResponseReceived",
                                       "GrblPushReceived"})]
    BY DEF TypeOK
  <1>2. ASSUME NEW d \in Devices, Announcing(d)' PROVE Announcing(d)
    <2>1. CASE d # device
      BY <1>2, <2>1 DEF Announcing, TypeOK
    <2>2. CASE d = device
      <3>1. toContext[d] \in Seq({"DeviceIsSupported", "ResponseReceived", "GrblPushReceived"})
        BY DEF TypeOK
      <3>2. toContext'[d] = Tail(toContext[d])
        BY <2>2 DEF TypeOK
      <3>3. PICK i \in 1..Len(Tail(toContext[d])) : Tail(toContext[d])[i] = "DeviceIsSupported"
        BY <1>2, <3>2 DEF Announcing
      <3>4. i + 1 \in 1..Len(toContext[d]) /\ toContext[d][i + 1] = "DeviceIsSupported"
        BY <2>2, <3>1, <3>3, HeadTailProperties
      <3> QED BY <3>4 DEF Announcing
    <2> QED BY <2>1, <2>2
  <1> QED BY <1>1, <1>2

\* The socket to a Machine takes a command.
LEMMA CommandKeepsHears ==
    ASSUME TypeOK, \A d \in Devices : Hears(d), NEW device \in Devices,
           Ctx!Forward(device, [kind |-> "Command"]),
           UNCHANGED <<deviceList, events, connection, late>>
    PROVE  /\ toMachine' \in [Devices -> Seq(MachineMessage)]
           /\ \A d \in Devices : Hears(d)'
  <1> DEFINE m == [kind |-> "Command"]
  <1>1. /\ toMachine \in [Devices -> Seq(MachineMessage)]
        /\ m \in MachineMessage
        /\ toMachine' = [toMachine EXCEPT ![device] = Append(@, m)]
    BY DEF TypeOK, MachineMessage, Ctx!Forward
  <1>2. Append(toMachine[device], m) \in Seq(MachineMessage)
    BY <1>1
  <1>3. toMachine' \in [Devices -> Seq(MachineMessage)]
    BY <1>1, <1>2
  <1>4. ASSUME NEW d \in Devices, MachineHears(d) PROVE MachineHears(d)'
    <2>1. CASE d # device
      BY <1>1, <1>4, <2>1 DEF MachineHears, Report, Misreport, Follows
    <2>2. CASE d = device
      <3>1. toMachine[d] \in Seq(MachineMessage) /\ toMachine'[d] = Append(toMachine[d], m)
        BY <1>1, <2>2
      <3>2. m \notin {[kind |-> Misreport(d)]} /\ m \notin {[kind |-> Report(d)]}
        BY DEF Report, Misreport
      <3> HIDE DEF m
      <3>3. /\ Corrected(toMachine'[d], {[kind |-> Misreport(d)]}, {[kind |-> Report(d)]})
            /\ Lacks(toMachine'[d], {[kind |-> Report(d)]})
                   => Lacks(toMachine[d], {[kind |-> Report(d)]})
        BY <1>1, <1>4, <3>1, <3>2, AppendOther DEF MachineHears
      <3> QED BY <1>4, <3>3 DEF MachineHears, Report, Misreport, Follows
    <2> QED BY <2>1, <2>2
  <1>5. \A d \in Devices : Hears(d)'
    BY <1>4 DEF Hears, ContextHears, Unreported, Report, Misreport
  <1> QED BY <1>3, <1>5

\* The router appends a message to the queue of a client or counts it as lost.
LEMMA RouteAppends ==
    ASSUME TypeOK, WithinHwm, NEW clients, NEW msg \in ClientMessage,
           Ctx!Route(clients, msg)
    PROVE  /\ toClient' \in [Clients -> Seq(ClientMessage)]
           /\ WithinHwm'
           /\ lost \subseteq lost'
           /\ \A c \in Clients \ clients : toClient'[c] = toClient[c]
           /\ \A c \in Clients : c \in clients /\ c \notin lost'
                                 => toClient'[c] = Append(toClient[c], msg)
  <1>1. /\ toClient \in [Clients -> Seq(ClientMessage)]
        /\ toClient' = [c \in Clients |->
                           IF c \in clients /\ Len(toClient[c]) < Hwm
                           THEN Append(toClient[c], msg)
                           ELSE toClient[c]]
        /\ lost' = lost \cup {c \in clients : Len(toClient[c]) = Hwm}
    BY DEF TypeOK, Ctx!Route
  <1>2. ASSUME NEW c \in Clients
        PROVE  /\ Append(toClient[c], msg) \in Seq(ClientMessage)
               /\ Len(Append(toClient[c], msg)) = Len(toClient[c]) + 1
               /\ Len(toClient[c]) \in Nat /\ Len(toClient[c]) <= Hwm
    BY <1>1 DEF WithinHwm
  <1>3. ASSUME NEW c \in Clients
        PROVE  toClient'[c] = IF c \in clients /\ Len(toClient[c]) < Hwm
                              THEN Append(toClient[c], msg)
                              ELSE toClient[c]
    BY <1>1
  <1>4. ASSUME NEW c \in Clients
        PROVE  toClient'[c] \in Seq(ClientMessage) /\ Len(toClient'[c]) <= Hwm
    BY <1>1, <1>2, <1>3, LibraryAssumption
  <1>5. toClient' \in [Clients -> Seq(ClientMessage)]
    BY <1>1, <1>4
  <1>6. WithinHwm'
    BY <1>4 DEF WithinHwm
  <1>7. \A c \in Clients : c \in clients /\ c \notin lost'
                         => toClient'[c] = Append(toClient[c], msg)
    BY <1>1, <1>2, <1>3, LibraryAssumption
  <1> QED BY <1>1, <1>3, <1>5, <1>6, <1>7

\* Answers and pushes of a Machine tell a client nothing of the list.
LEMMA OthersKeepClients ==
    ASSUME TypeOK, WithinHwm, ClientsHear, NEW clients,
           NEW device \in Devices, NEW kind \in {"ResponseReceived", "GrblPushReceived"},
           Ctx!Route(clients, Ctx!DeviceMessage(kind, device)),
           UNCHANGED <<deviceSubscribers, recognized, view>>
    PROVE  /\ toClient' \in [Clients -> Seq(ClientMessage)]
           /\ WithinHwm' /\ ClientsHear'
  <1> DEFINE m == Ctx!DeviceMessage(kind, device)
  <1>1. m \in ClientMessage /\ m.kind = kind
    BY DEF Ctx!DeviceMessage, ClientMessage
  <1> HIDE DEF m
  <1>2. /\ toClient' \in [Clients -> Seq(ClientMessage)]
        /\ WithinHwm'
        /\ lost \subseteq lost'
        /\ \A c \in Clients \ clients : toClient'[c] = toClient[c]
        /\ \A c \in Clients : c \in clients /\ c \notin lost'
                              => toClient'[c] = Append(toClient[c], m)
    BY <1>1, RouteAppends DEF m
  <1>3. ASSUME NEW c \in deviceSubscribers \ lost', NEW d \in Devices
        PROVE  ClientHears(c, d)'
    <2>1. c \in Clients /\ ClientHears(c, d)
      BY <1>2, <1>3 DEF TypeOK, ClientsHear
    <2>2. UNCHANGED <<Right(d), Wrong(d), view[c]>>
      BY DEF Right, Wrong, Listing, Unlisting
    <2>3. CASE c \notin clients
      BY <1>2, <2>1, <2>2, <2>3 DEF ClientHears
    <2>4. CASE c \in clients
      <3>1. m \notin Right(d) /\ m \notin Wrong(d)
        BY <1>1 DEF Right, Wrong, Listing, Unlisting
      <3>2. toClient[c] \in Seq(ClientMessage) /\ toClient'[c] = Append(toClient[c], m)
        BY <1>2, <1>3, <2>1, <2>4 DEF TypeOK
      <3>3. /\ Corrected(toClient'[c], Wrong(d), Right(d))
            /\ Lacks(toClient'[c], Right(d)) => Lacks(toClient[c], Right(d))
        BY <1>1, <2>1, <3>1, <3>2, AppendOther DEF ClientHears
      <3> QED BY <2>1, <2>2, <3>3 DEF ClientHears
    <2> QED BY <2>3, <2>4
  <1> QED BY <1>2, <1>3 DEF ClientsHear

-----------------------------------------------------------------------------
(* One lemma for each kind of step *)

LEMMA ScanStep ==
    ASSUME IInv, Scan
    PROVE  IInv'
  <1> USE DEF IInv
  <1> DEFINE all == Usb!Changes
  <1>1. /\ events' = events \o all
        /\ deviceList' = present
        /\ UNCHANGED <<present, contextVars, connection, late, toContext, view, overtaken>>
    BY DEF Scan, Usb!EnumerateUsb, machineVars, history
  <1>2. /\ all \in Seq(UsbEvent)
        /\ \A d \in present \ deviceList :
               /\ ~Lacks(all, {Usb!Event("USBDeviceAdded", d)})
               /\ Lacks(all, {Usb!Event("USBDeviceRemoved", d)})
        /\ \A d \in deviceList \ present :
               /\ ~Lacks(all, {Usb!Event("USBDeviceRemoved", d)})
               /\ Lacks(all, {Usb!Event("USBDeviceAdded", d)})
        /\ \A d : (d \in present <=> d \in deviceList)
                  => /\ Lacks(all, {Usb!Event("USBDeviceAdded", d)})
                     /\ Lacks(all, {Usb!Event("USBDeviceRemoved", d)})
    BY ChangesReported
  <1> HIDE DEF all
  <1>3. TypeOK'
    BY <1>1, <1>2, ConcatProperties DEF TypeOK, contextVars
  <1>4. ASSUME NEW d \in Devices PROVE Hears(d)'
    <2>1. events \in Seq(UsbEvent)
      BY DEF TypeOK
    <2>2. CASE d \in present <=> d \in deviceList
      <3>1. UNCHANGED <<Report(d), Misreport(d)>>
        BY <1>1, <2>2 DEF Report, Misreport
      <3>2. /\ Lacks(all, {Usb!Event(Report(d), d)})
            /\ Lacks(all, {Usb!Event(Misreport(d), d)})
        BY <1>2, <2>2 DEF Report, Misreport
      <3>3. /\ Corrected(events', {Usb!Event(Misreport(d), d)}, {Usb!Event(Report(d), d)})
            /\ Lacks(events', {Usb!Event(Report(d), d)})
                   => Lacks(events, {Usb!Event(Report(d), d)})
        BY <1>1, <1>2, <2>1, <3>2, ConcatOther DEF Hears, ContextHears
      <3> QED BY <1>1, <2>2, <3>1, <3>3
              DEF Hears, ContextHears, Unreported, MachineHears, Follows, contextVars
    <2>3. CASE ~(d \in present <=> d \in deviceList)
      <3>1. /\ ~Lacks(all, {Usb!Event(Report(d)', d)})
            /\ Lacks(all, {Usb!Event(Misreport(d)', d)})
        BY <1>1, <1>2, <2>3 DEF Report, Misreport
      <3>2. /\ Corrected(events', {Usb!Event(Misreport(d)', d)}, {Usb!Event(Report(d)', d)})
            /\ ~Lacks(events', {Usb!Event(Report(d)', d)})
        BY <1>1, <1>2, <2>1, <3>1, ConcatRight
      <3> QED BY <3>2 DEF Hears, ContextHears, Unreported
    <2> QED BY <2>2, <2>3
  <1>5. GhostsExplained'
    <2> SUFFICES ASSUME NEW d \in Devices, Ghost(d)'
                 PROVE  d \in overtaken'
      BY DEF GhostsExplained
    <2>1. d \notin present /\ Lacks(events \o all, {Usb!Event("USBDeviceRemoved", d)})
      BY <1>1 DEF Ghost, Unreported, Report
    <2>2. /\ Lacks(events, {Usb!Event("USBDeviceRemoved", d)})
          /\ Lacks(all, {Usb!Event("USBDeviceRemoved", d)})
      BY <1>2, <2>1, LacksBoth DEF TypeOK
    <2>3. d \notin deviceList
      BY <1>2, <2>1, <2>2
    <2>4. Ghost(d)
      BY <1>1, <2>2, <2>3 DEF Ghost, Unreported, Report, Announcing, contextVars
    <2> QED BY <1>1, <2>4 DEF GhostsExplained
  <1>6. WithinHwm' /\ ClientsHear'
    BY <1>1, ClientsKept DEF contextVars
  <1> QED BY <1>3, <1>4, <1>5, <1>6

\* The Context passes a report on to the Machine of the device.
LEMMA ReportPassedOn ==
    ASSUME TypeOK, \A d \in Devices : Hears(d), events # <<>>,
           NEW device \in Devices, NEW kind,
           Head(events) = Usb!Event(kind, device),
           kind \in {"USBDeviceAdded", "USBDeviceRemoved"},
           events' = Tail(events),
           Ctx!Forward(device, [kind |-> kind]),
           UNCHANGED <<deviceList, connection, late>>
    PROVE  /\ toMachine' \in [Devices -> Seq(MachineMessage)]
           /\ events' \in Seq(UsbEvent)
           /\ \A d \in Devices : Hears(d)'
  <1> DEFINE m == [kind |-> kind]
  <1>1. /\ toMachine \in [Devices -> Seq(MachineMessage)]
        /\ m \in MachineMessage
        /\ toMachine' = [toMachine EXCEPT ![device] = Append(@, m)]
        /\ events \in Seq(UsbEvent)
    BY DEF TypeOK, MachineMessage, Ctx!Forward
  <1>2. Append(toMachine[device], m) \in Seq(MachineMessage)
    BY <1>1
  <1>3. toMachine' \in [Devices -> Seq(MachineMessage)]
    BY <1>1, <1>2
  <1>4. events' \in Seq(UsbEvent)
    BY <1>1
  <1>5. ASSUME NEW d \in Devices PROVE Hears(d)'
    <2>1. UNCHANGED <<Report(d), Misreport(d)>>
      BY DEF Report, Misreport
    <2>2. /\ Corrected(events', {Usb!Event(Misreport(d), d)}, {Usb!Event(Report(d), d)})
          /\ Lacks(events', {Usb!Event(Report(d), d)}) =>
                 /\ Head(events) # Usb!Event(Misreport(d), d)
                 /\ \/ Head(events) = Usb!Event(Report(d), d)
                    \/ Lacks(events, {Usb!Event(Report(d), d)})
      <3>1. Corrected(events, {Usb!Event(Misreport(d), d)}, {Usb!Event(Report(d), d)})
        BY DEF Hears, ContextHears
      <3> QED BY <1>1, <3>1, TakeHead
    <2>3. ASSUME Lacks(events', {Usb!Event(Report(d), d)})
          PROVE  MachineHears(d)'
      <3>1. CASE d # device
        <4>1. Head(events) # Usb!Event(Report(d), d)
          BY <3>1 DEF Usb!Event
        <4>2. MachineHears(d)
          BY <2>2, <2>3, <4>1 DEF Hears, Unreported
        <4> QED BY <1>1, <2>1, <3>1, <4>2 DEF MachineHears, Follows
      <3>2. CASE d = device
        <4>1. kind # Misreport(d)
          BY <2>2, <2>3, <3>2
        <4>2. kind = Report(d)
          BY <4>1 DEF Report, Misreport
        <4>3. /\ toMachine[d] \in Seq(MachineMessage)
              /\ toMachine'[d] = Append(toMachine[d], m)
              /\ m \in {[kind |-> Report(d)]} /\ m \notin {[kind |-> Misreport(d)]}
          BY <1>1, <3>2, <4>2 DEF Report, Misreport
        <4> HIDE DEF m
        <4>4. /\ Corrected(toMachine'[d], {[kind |-> Misreport(d)]}, {[kind |-> Report(d)]})
              /\ ~Lacks(toMachine'[d], {[kind |-> Report(d)]})
          BY <1>1, <4>3, AppendRight
        <4> QED BY <2>1, <4>4 DEF MachineHears
      <3> QED BY <3>1, <3>2
    <2> QED BY <2>1, <2>2, <2>3 DEF Hears, ContextHears, Unreported
  <1> QED BY <1>3, <1>4, <1>5

\* The Context tells its clients that a device is listed, or no longer.
LEMMA NewsReachesClients ==
    ASSUME TypeOK, WithinHwm, ClientsHear, NEW device \in Devices,
           NEW kind \in {"PushDeviceAdded", "PushDeviceRemoved"},
           Ctx!Route(deviceSubscribers, Ctx!DeviceMessage(kind, device)),
           recognized' = IF kind = "PushDeviceAdded" THEN recognized \cup {device}
                                                    ELSE recognized \ {device},
           UNCHANGED <<deviceSubscribers, view>>
    PROVE  /\ toClient' \in [Clients -> Seq(ClientMessage)]
           /\ recognized' \in SUBSET Devices
           /\ WithinHwm' /\ ClientsHear'
  <1> DEFINE m == Ctx!DeviceMessage(kind, device)
  <1>1. m \in ClientMessage /\ m.kind = kind /\ m.device = device
    BY DEF Ctx!DeviceMessage, ClientMessage
  <1> HIDE DEF m
  <1>2. /\ toClient' \in [Clients -> Seq(ClientMessage)]
        /\ WithinHwm'
        /\ lost \subseteq lost'
        /\ \A c \in Clients : c \in deviceSubscribers /\ c \notin lost'
                              => toClient'[c] = Append(toClient[c], m)
    BY <1>1, RouteAppends DEF m
  <1>3. recognized' \in SUBSET Devices
    BY DEF TypeOK
  <1>4. ASSUME NEW c \in deviceSubscribers \ lost', NEW d \in Devices
        PROVE  ClientHears(c, d)'
    <2>1. c \in Clients /\ ClientHears(c, d)
      BY <1>2, <1>4 DEF TypeOK, ClientsHear
    <2>2. toClient[c] \in Seq(ClientMessage) /\ toClient'[c] = Append(toClient[c], m)
      BY <1>2, <1>4, <2>1 DEF TypeOK
    <2>3. CASE d # device
      <3>1. /\ UNCHANGED <<Right(d), Wrong(d), view[c]>>
            /\ d \in recognized' <=> d \in recognized
        BY <2>3 DEF Right, Wrong, Listing, Unlisting
      <3>2. m \notin Right(d) /\ m \notin Wrong(d)
        BY <1>1, <2>3 DEF Right, Wrong, Listing, Unlisting
      <3>3. /\ Corrected(toClient'[c], Wrong(d), Right(d))
            /\ Lacks(toClient'[c], Right(d)) => Lacks(toClient[c], Right(d))
        BY <1>1, <2>1, <2>2, <3>2, AppendOther DEF ClientHears
      <3> QED BY <2>1, <3>1, <3>3 DEF ClientHears
    <2>4. CASE d = device
      <3>1. m \in Right(d)' /\ m \notin Wrong(d)'
        BY <1>1, <2>4 DEF Right, Wrong, Listing, Unlisting
      <3>2. /\ Corrected(toClient'[c], Wrong(d)', Right(d)')
            /\ ~Lacks(toClient'[c], Right(d)')
        BY <1>1, <2>2, <3>1, AppendRight
      <3> QED BY <3>2 DEF ClientHears
    <2> QED BY <2>3, <2>4
  <1> QED BY <1>2, <1>3, <1>4 DEF ClientsHear

LEMMA ContextReadsUsbStep ==
    ASSUME IInv, ContextReadsUsb
    PROVE  IInv'
  <1> USE DEF IInv
  <1> DEFINE device == Head(events).device
  <1>1. /\ events # <<>> /\ events' = Tail(events) /\ Head(events) \in UsbEvent
        /\ UNCHANGED <<present, deviceList, connection, late, toContext, view>>
    BY DEF ContextReadsUsb, TypeOK, machineVars
  <1>2. device \in Devices
    BY <1>1 DEF UsbEvent
  <1>3. CASE Head(events).kind = "USBDeviceAdded"
    <2>1. Head(events) = Usb!Event("USBDeviceAdded", device)
      BY <1>1, <1>3 DEF UsbEvent, Usb!Event
    <2>2. Ctx!UsbDeviceAdded(device) /\ UNCHANGED overtaken
      BY <1>3 DEF ContextReadsUsb
    <2> HIDE DEF device
    <2>3. /\ Ctx!Forward(device, [kind |-> "USBDeviceAdded"])
          /\ UNCHANGED <<recognized, deviceSubscribers, toClient, lost>>
      BY <2>2 DEF Ctx!UsbDeviceAdded, Ctx!audience
    <2>4. /\ toMachine' \in [Devices -> Seq(MachineMessage)]
          /\ events' \in Seq(UsbEvent)
          /\ \A d \in Devices : Hears(d)'
      BY <1>1, <1>2, <2>1, <2>3, ReportPassedOn
    <2>5. TypeOK'
      BY <1>1, <2>3, <2>4 DEF TypeOK
    <2>6. GhostsExplained'
      <3> SUFFICES ASSUME NEW d \in Devices, Ghost(d)'
                   PROVE  d \in overtaken
        BY <2>2 DEF GhostsExplained
      <3>1. d \notin deviceList /\ Lacks(events', {Usb!Event("USBDeviceRemoved", d)})
        BY <1>1 DEF Ghost, Unreported, Report
      <3>2. Corrected(events, {Usb!Event("USBDeviceAdded", d)}, {Usb!Event("USBDeviceRemoved", d)})
        BY <3>1 DEF Hears, ContextHears, Report, Misreport
      <3>3. \/ Head(events) = Usb!Event("USBDeviceRemoved", d)
            \/ Lacks(events, {Usb!Event("USBDeviceRemoved", d)})
        BY <1>1, <3>1, <3>2, TakeHead DEF TypeOK
      <3>4. Lacks(events, {Usb!Event("USBDeviceRemoved", d)})
        BY <2>1, <3>3 DEF Usb!Event
      <3>5. Ghost(d)
        BY <1>1, <2>3, <3>1, <3>4 DEF Ghost, Unreported, Report, Announcing
      <3> QED BY <3>5 DEF GhostsExplained
    <2>7. WithinHwm' /\ ClientsHear'
      BY <1>1, <2>3, ClientsKept
    <2> QED BY <2>4, <2>5, <2>6, <2>7
  <1>4. CASE Head(events).kind = "USBDeviceRemoved"
    <2>1. Head(events) = Usb!Event("USBDeviceRemoved", device)
      BY <1>1, <1>4 DEF UsbEvent, Usb!Event
    <2>2. /\ Ctx!UsbDeviceRemoved(device)
          /\ overtaken' = IF Announcing(device) THEN overtaken \cup {device}
                                               ELSE overtaken \ {device}
      BY <1>4 DEF ContextReadsUsb
    <2> HIDE DEF device
    <2>3. /\ Ctx!Forward(device, [kind |-> "USBDeviceRemoved"])
          /\ Ctx!Route(deviceSubscribers, Ctx!DeviceMessage("PushDeviceRemoved", device))
          /\ recognized' = recognized \ {device}
          /\ UNCHANGED deviceSubscribers
      BY <2>2 DEF Ctx!UsbDeviceRemoved, Ctx!audience
    <2>4. /\ toMachine' \in [Devices -> Seq(MachineMessage)]
          /\ events' \in Seq(UsbEvent)
          /\ \A d \in Devices : Hears(d)'
      BY <1>1, <1>2, <2>1, <2>3, ReportPassedOn
    <2>5. /\ toClient' \in [Clients -> Seq(ClientMessage)]
          /\ recognized' \in SUBSET Devices
          /\ WithinHwm' /\ ClientsHear'
      <3>1. recognized' = IF "PushDeviceRemoved" = "PushDeviceAdded"
                          THEN recognized \cup {device} ELSE recognized \ {device}
        BY <2>3
      <3> QED BY <1>1, <1>2, <2>3, <3>1, NewsReachesClients
    <2>6. TypeOK'
      BY <1>1, <2>3, <2>4, <2>5 DEF TypeOK
    <2>7. GhostsExplained'
      <3> SUFFICES ASSUME NEW d \in Devices, Ghost(d)'
                   PROVE  d \in overtaken'
        BY DEF GhostsExplained
      <3>1. d \notin deviceList /\ Lacks(events', {Usb!Event("USBDeviceRemoved", d)})
        BY <1>1 DEF Ghost, Unreported, Report
      <3>2. CASE d = device
        BY <1>1, <2>2, <2>3, <3>2 DEF Ghost, Announcing
      <3>3. CASE d # device
        <4>1. Corrected(events, {Usb!Event("USBDeviceAdded", d)},
                                {Usb!Event("USBDeviceRemoved", d)})
          BY <3>1 DEF Hears, ContextHears, Report, Misreport
        <4>2. \/ Head(events) = Usb!Event("USBDeviceRemoved", d)
              \/ Lacks(events, {Usb!Event("USBDeviceRemoved", d)})
          BY <1>1, <3>1, <4>1, TakeHead DEF TypeOK
        <4>3. Lacks(events, {Usb!Event("USBDeviceRemoved", d)})
          BY <2>1, <3>3, <4>2 DEF Usb!Event
        <4>4. Ghost(d)
          BY <1>1, <2>3, <3>1, <4>3 DEF Ghost, Unreported, Report, Announcing
        <4> QED BY <2>2, <3>3, <4>4 DEF GhostsExplained
      <3> QED BY <3>2, <3>3
    <2> QED BY <2>4, <2>5, <2>6, <2>7
  <1> QED BY <1>1, <1>3, <1>4 DEF UsbEvent

LEMMA ContextReadsMachineStep ==
    ASSUME IInv, NEW device \in Devices, ContextReadsMachine(device)
    PROVE  IInv'
  <1> USE DEF IInv
  <1> DEFINE kind == Head(toContext[device])
  <1>1. /\ toContext[device] # <<>>
        /\ toContext' = [toContext EXCEPT ![device] = Tail(@)]
        /\ UNCHANGED <<present, deviceList, events, connection, late, view, overtaken>>
    BY DEF ContextReadsMachine, usbVars, machineVars, history
  <1>2. toContext' \in [Devices -> Seq({"DeviceIsSupported", "ResponseReceived",
                                       "GrblPushReceived"})]
    BY <1>1, AnnouncementRead
  <1>3. \A d \in Devices : Announcing(d)' => Announcing(d)
    BY <1>1, AnnouncementRead
  <1>4. CASE kind = "DeviceIsSupported"
    <2>1. Ctx!SupportDevice(device)
      BY <1>4 DEF ContextReadsMachine
    <2>2. /\ Ctx!Route(deviceSubscribers, Ctx!DeviceMessage("PushDeviceAdded", device))
          /\ recognized' = recognized \cup {device}
          /\ UNCHANGED <<deviceSubscribers, toMachine>>
      BY <2>1 DEF Ctx!SupportDevice, Ctx!audience
    <2>3. /\ toClient' \in [Clients -> Seq(ClientMessage)]
          /\ recognized' \in SUBSET Devices
          /\ WithinHwm' /\ ClientsHear'
      <3>1. recognized' = IF "PushDeviceAdded" = "PushDeviceAdded"
                          THEN recognized \cup {device} ELSE recognized \ {device}
        BY <2>2
      <3> QED BY <1>1, <2>2, <3>1, NewsReachesClients
    <2>4. TypeOK'
      BY <1>1, <1>2, <2>2, <2>3 DEF TypeOK
    <2>5. \A d \in Devices : Hears(d)'
      BY <1>1, <2>2, HearsKept, FollowsKept
    <2>6. Announcing(device)
      <3>1. /\ Len(toContext[device]) \in Nat \ {0}
            /\ toContext[device][1] = "DeviceIsSupported"
        BY <1>1, <1>4, HeadTailProperties DEF TypeOK
      <3> QED BY <3>1 DEF Announcing
    <2>7. GhostsExplained'
      BY <1>1, <1>3, <2>2, <2>6 DEF GhostsExplained, Ghost, Unreported, Report
    <2> QED BY <2>3, <2>4, <2>5, <2>7
  <1>5. CASE kind \in {"ResponseReceived", "GrblPushReceived"}
    <2>1. Ctx!ForwardToSubscriber(device, kind)
      BY <1>5 DEF ContextReadsMachine
    <2> HIDE DEF kind
    <2>2. /\ Ctx!Route(machineSubscribers[device], Ctx!DeviceMessage(kind, device))
          /\ UNCHANGED <<recognized, deviceSubscribers, toMachine>>
      BY <2>1 DEF Ctx!ForwardToSubscriber, Ctx!registry, Ctx!audience
    <2>3. /\ toClient' \in [Clients -> Seq(ClientMessage)]
          /\ WithinHwm' /\ ClientsHear'
      BY <1>1, <1>5, <2>2, OthersKeepClients
    <2>4. TypeOK'
      BY <1>1, <1>2, <2>2, <2>3 DEF TypeOK
    <2>5. \A d \in Devices : Hears(d)'
      BY <1>1, <2>2, HearsKept, FollowsKept
    <2>6. GhostsExplained'
      BY <1>1, <1>3, <2>2, GhostsKept
    <2> QED BY <2>3, <2>4, <2>5, <2>6
  <1> QED BY <1>4, <1>5 DEF ContextReadsMachine

LEMMA ClientRequestsStep ==
    ASSUME IInv, NEW client \in Clients, ClientRequests(client)
    PROVE  IInv'
  <1> USE DEF IInv
  <1>1. UNCHANGED <<present, deviceList, events, connection, late, toContext, view,
                    overtaken>>
    BY DEF ClientRequests, usbVars, machineVars, history
  <1>2. \A d \in Devices : Announcing(d)' => Announcing(d)
    BY <1>1 DEF Announcing
  <1>3. CASE Ctx!ListDevices(client)
    <2> DEFINE m == Ctx!ListReply
    <2>1. /\ deviceSubscribers' = deviceSubscribers \cup {client}
          /\ Ctx!Route({client}, m)
          /\ UNCHANGED <<recognized, toMachine>>
      BY <1>3 DEF Ctx!ListDevices, Ctx!registry
    <2>2. m \in ClientMessage /\ m.kind = "ListDevicesReply" /\ m.devices = recognized
      BY DEF Ctx!ListReply, ClientMessage, TypeOK
    <2> HIDE DEF m
    <2>3. /\ toClient' \in [Clients -> Seq(ClientMessage)]
          /\ WithinHwm'
          /\ lost \subseteq lost'
          /\ \A c \in Clients \ {client} : toClient'[c] = toClient[c]
          /\ client \notin lost' => toClient'[client] = Append(toClient[client], m)
      BY <2>1, <2>2, RouteAppends
    <2>4. TypeOK'
      BY <1>1, <2>1, <2>3 DEF TypeOK
    <2>5. ASSUME NEW c \in deviceSubscribers' \ lost', NEW d \in Devices
          PROVE  ClientHears(c, d)'
      <3>1. /\ UNCHANGED <<Right(d), Wrong(d), view[c]>>
            /\ d \in recognized' <=> d \in recognized
        BY <1>1, <2>1 DEF Right, Wrong, Listing, Unlisting
      <3>2. CASE c # client
        <4>1. c \in Clients /\ ClientHears(c, d)
          BY <2>1, <2>3, <2>5, <3>2 DEF TypeOK, ClientsHear
        <4> QED BY <2>3, <3>1, <3>2, <4>1 DEF ClientHears
      <3>3. CASE c = client
        <4>1. m \in Right(d) /\ m \notin Wrong(d)
          BY <2>2 DEF Right, Wrong, Listing, Unlisting
        <4>2. toClient[c] \in Seq(ClientMessage) /\ toClient'[c] = Append(toClient[c], m)
          BY <2>3, <2>5, <3>3 DEF TypeOK
        <4>3. Corrected(toClient'[c], Wrong(d), Right(d)) /\ ~Lacks(toClient'[c], Right(d))
          BY <2>2, <4>1, <4>2, AppendRight
        <4> QED BY <3>1, <4>3 DEF ClientHears
      <3> QED BY <3>2, <3>3
    <2>6. \A d \in Devices : Hears(d)'
      BY <1>1, <2>1, HearsKept, FollowsKept
    <2>7. GhostsExplained'
      BY <1>1, <1>2, <2>1, GhostsKept
    <2> QED BY <2>3, <2>4, <2>5, <2>6, <2>7 DEF ClientsHear
  <1>4. CASE \/ \E first \in Devices : \E others \in SUBSET (Devices \ {first}) :
                    Ctx!Subscribe(client, first, others)
             \/ \E unwanted \in SUBSET Devices : Ctx!Unsubscribe(client, unwanted)
    <2>1. UNCHANGED <<recognized, deviceSubscribers, toMachine, toClient, lost>>
      BY <1>4 DEF Ctx!Subscribe, Ctx!Unsubscribe, Ctx!registry, Ctx!outputs
    <2>2. TypeOK'
      BY <1>1, <2>1 DEF TypeOK
    <2> QED BY <1>1, <1>2, <2>1, <2>2, HearsKept, FollowsKept, GhostsKept, ClientsKept
  <1>5. ASSUME NEW device \in Devices, Ctx!ForwardToMachine(client, device)
        PROVE  IInv'
    <2>1. UNCHANGED <<recognized, deviceSubscribers, toClient, lost>>
      BY <1>5 DEF Ctx!ForwardToMachine, Ctx!registry
    <2>2. GhostsExplained' /\ WithinHwm' /\ ClientsHear'
      BY <1>1, <1>2, <2>1, GhostsKept, ClientsKept
    <2>3. CASE UNCHANGED toMachine
      <3>1. TypeOK'
        BY <1>1, <2>1, <2>3 DEF TypeOK
      <3> QED BY <1>1, <2>2, <2>3, <3>1, HearsKept, FollowsKept
    <2>4. CASE Ctx!Forward(device, [kind |-> "Command"])
      <3>1. /\ toMachine' \in [Devices -> Seq(MachineMessage)]
            /\ \A d \in Devices : Hears(d)'
        BY <1>1, <2>4, CommandKeepsHears
      <3>2. TypeOK'
        BY <1>1, <2>1, <3>1 DEF TypeOK
      <3> QED BY <2>2, <3>1, <3>2
    <2> QED BY <1>5, <2>3, <2>4 DEF Ctx!ForwardToMachine
  <1> QED BY <1>3, <1>4, <1>5 DEF ClientRequests

LEMMA MachineReadsStep ==
    ASSUME IInv, NEW device \in Devices, MachineReads(device)
    PROVE  IInv'
  <1> USE DEF IInv
  <1> DEFINE seq == toMachine[device]
             kind == Head(toMachine[device]).kind
  <1>1. /\ seq # <<>>
        /\ MachineHandles(device, Head(seq))
        /\ toMachine' = [toMachine EXCEPT ![device] = Tail(@)]
        /\ UNCHANGED <<present, deviceList, events, deviceSubscribers, recognized,
                       toClient, lost, toContext, view, overtaken>>
    BY DEF MachineReads, usbVars
  <1>2. seq \in Seq(MachineMessage) /\ Head(seq) \in MachineMessage
    BY <1>1 DEF TypeOK
  <1>3. /\ toMachine' \in [Devices -> Seq(MachineMessage)]
        /\ toMachine'[device] = Tail(seq)
        /\ \A d \in Devices \ {device} : toMachine'[d] = toMachine[d]
    BY <1>1, <1>2 DEF TypeOK
  <1>4. /\ connection' \in [Devices -> {"Disconnected", "Connected", "Grbl", "Identified"}]
        /\ \A d \in Devices \ {device} :
               connection'[d] = connection[d] /\ (d \in late => d \in late')
        /\ kind = "USBDeviceAdded" => connection'[device] # "Disconnected"
        /\ kind = "USBDeviceRemoved" => connection'[device] = "Disconnected"
        /\ kind = "Command" => connection' = connection /\ late' = late
    <2> HIDE DEF seq
    <2>1. connection \in [Devices -> {"Disconnected", "Connected", "Grbl", "Identified"}]
      BY DEF TypeOK
    <2> QED BY <1>1, <2>1 DEF MachineHandles, seq
  <1>5. \A d \in Devices : Announcing(d)' => Announcing(d)
    BY <1>1 DEF Announcing
  <1>6. TypeOK'
    BY <1>1, <1>3, <1>4 DEF TypeOK
  <1>7. ASSUME NEW d \in Devices, MachineHears(d) PROVE MachineHears(d)'
    <2>1. UNCHANGED <<Report(d), Misreport(d)>>
      BY <1>1 DEF Report, Misreport
    <2>2. CASE d # device
      BY <1>1, <1>3, <1>4, <1>7, <2>1, <2>2 DEF MachineHears, Follows
    <2>3. CASE d = device
      <3>1. /\ Corrected(toMachine'[d], {[kind |-> Misreport(d)]}, {[kind |-> Report(d)]})
            /\ Lacks(toMachine'[d], {[kind |-> Report(d)]}) =>
                   /\ Head(seq) # [kind |-> Misreport(d)]
                   /\ \/ Head(seq) = [kind |-> Report(d)]
                      \/ Lacks(seq, {[kind |-> Report(d)]})
        BY <1>1, <1>2, <1>3, <1>7, <2>3, TakeHead DEF MachineHears
      <3>2. ASSUME Lacks(toMachine'[d], {[kind |-> Report(d)]})
            PROVE  Follows(d)'
        <4>1. Head(seq) = [kind |-> kind] /\ kind # Misreport(d)
          BY <1>2, <3>1, <3>2 DEF MachineMessage
        <4>2. CASE kind = "Command"
          <5>1. Head(seq) # [kind |-> Report(d)]
            BY <4>2 DEF Report
          <5> QED BY <1>4, <1>7, <2>3, <1>1, <3>1, <3>2, <4>2, <5>1 DEF MachineHears, Follows
        <4>3. CASE kind = Report(d)
          BY <1>1, <1>4, <2>3, <4>3 DEF Report, Follows
        <4> QED BY <1>2, <4>1, <4>2, <4>3 DEF MachineMessage, Report, Misreport
      <3> QED BY <1>1, <2>1, <3>1, <3>2 DEF MachineHears
    <2> QED BY <2>2, <2>3
  <1>8. \A d \in Devices : Hears(d)'
    BY <1>1, <1>7 DEF Hears, ContextHears, Unreported, Report, Misreport
  <1>9. GhostsExplained' /\ WithinHwm' /\ ClientsHear'
    BY <1>1, <1>5, GhostsKept, ClientsKept
  <1> QED BY <1>6, <1>8, <1>9

LEMMA MachineIdentifiesStep ==
    ASSUME IInv, NEW device \in Devices, MachineIdentifies(device)
    PROVE  IInv'
  <1> USE DEF IInv
  <1>1. /\ connection[device] = "Grbl"
        /\ toContext' = [toContext EXCEPT ![device] = Append(@, "DeviceIsSupported")]
        /\ connection' = [connection EXCEPT ![device] = "Identified"]
        /\ overtaken' = IF Removing(device) \/ device \in late
                        THEN overtaken \cup {device} ELSE overtaken
        /\ UNCHANGED <<present, deviceList, events, deviceSubscribers, recognized,
                       toMachine, toClient, lost, view, late>>
    BY DEF MachineIdentifies, Answer, usbVars, contextVars
  <1>2. toContext' \in [Devices -> Seq({"DeviceIsSupported", "ResponseReceived",
                                       "GrblPushReceived"})]
    <2>1. toContext[device] \in Seq({"DeviceIsSupported", "ResponseReceived",
                                    "GrblPushReceived"})
      BY DEF TypeOK
    <2>2. Append(toContext[device], "DeviceIsSupported")
              \in Seq({"DeviceIsSupported", "ResponseReceived", "GrblPushReceived"})
      BY <2>1
    <2> QED BY <1>1, <2>2 DEF TypeOK
  <1>3. TypeOK'
    BY <1>1, <1>2 DEF TypeOK
  <1>4. \A d \in Devices : Hears(d)'
    <2>1. \A d \in Devices : connection'[d] # "Disconnected" <=> connection[d] # "Disconnected"
      BY <1>1 DEF TypeOK
    <2>2. \A d \in Devices : Follows(d) => Follows(d)'
      BY <1>1, <2>1 DEF Follows
    <2> QED BY <1>1, <2>2, HearsKept
  <1>5. GhostsExplained'
    <2> SUFFICES ASSUME NEW d \in Devices, Ghost(d)' PROVE d \in overtaken'
      BY DEF GhostsExplained
    <2>1. CASE d # device
      <3>1. Announcing(d)' => Announcing(d)
        BY <1>1, <2>1 DEF Announcing, TypeOK
      <3> QED BY <1>1, <3>1 DEF GhostsExplained, Ghost, Unreported, Report
    <2>2. CASE d = device
      <3>1. Unreported(d) /\ d \notin deviceList
        BY <1>1 DEF Ghost, Unreported, Report
      <3>2. ~Lacks(toMachine[d], {[kind |-> "USBDeviceRemoved"]}) \/ d \in late
        BY <1>1, <2>2, <3>1 DEF Hears, MachineHears, Report, Follows
      <3>3. Removing(device) \/ device \in late
        BY <2>2, <3>2 DEF Lacks, Removing
      <3> QED BY <1>1, <2>2, <3>3
    <2> QED BY <2>1, <2>2
  <1>6. WithinHwm' /\ ClientsHear'
    BY <1>1, ClientsKept
  <1> QED BY <1>3, <1>4, <1>5, <1>6

\* A startup line wakes no machine but as one that is late.
LEMMA StartupLineStep ==
    ASSUME IInv, NEW device \in Devices,
           DeviceStarts(device) \/ DeviceReports(device)
    PROVE  IInv'
  <1> USE DEF IInv
  <1>1. PICK version : StartupLine(device, version)
    BY DEF DeviceStarts, DeviceReports
  <1>2. /\ connection' = IF version = "supported"
                         THEN [connection EXCEPT ![device] = "Grbl"] ELSE connection
        /\ late' = IF connection[device] = "Disconnected" /\ version = "supported"
                   THEN late \cup {device} ELSE late
        /\ UNCHANGED <<present, deviceList, events, deviceSubscribers, recognized,
                       toMachine, toClient, lost, toContext, view, overtaken>>
    BY <1>1 DEF StartupLine, usbVars, contextVars
  <1>3. TypeOK' /\ \A d \in Devices : Announcing(d)' => Announcing(d)
    BY <1>2 DEF TypeOK, Announcing
  <1>4. \A d \in Devices : Follows(d) => Follows(d)'
    BY <1>2 DEF Follows, TypeOK
  <1> QED BY <1>2, <1>3, <1>4, HearsKept, GhostsKept, ClientsKept

LEMMA MachineForwardsStep ==
    ASSUME IInv, NEW device \in Devices, MachineForwards(device)
    PROVE  IInv'
  <1> USE DEF IInv
  <1>1. PICK kind \in {"ResponseReceived", "GrblPushReceived"} : Answer(device, kind)
    BY DEF MachineForwards
  <1>2. /\ toContext' = [toContext EXCEPT ![device] = Append(@, kind)]
        /\ UNCHANGED <<present, deviceList, events, deviceSubscribers, recognized,
                       toMachine, toClient, lost, connection, late, view, overtaken>>
    BY <1>1 DEF MachineForwards, Answer, usbVars, contextVars, machineVars, history
  <1>3. toContext[device] \in Seq({"DeviceIsSupported", "ResponseReceived", "GrblPushReceived"})
    BY DEF TypeOK
  <1>4. toContext' \in [Devices -> Seq({"DeviceIsSupported", "ResponseReceived",
                                       "GrblPushReceived"})]
    BY <1>2, <1>3 DEF TypeOK
  <1>5. \A d \in Devices : Announcing(d)' => Announcing(d)
    BY <1>2, <1>3 DEF Announcing, TypeOK
  <1>6. TypeOK'
    BY <1>2, <1>4 DEF TypeOK
  <1> QED BY <1>2, <1>5, <1>6, HearsKept, FollowsKept, GhostsKept, ClientsKept

LEMMA ClientReadsStep ==
    ASSUME IInv, NEW client \in Clients, ClientReads(client)
    PROVE  IInv'
  <1> USE DEF IInv
  <1> DEFINE m == Head(toClient[client])
  <1>1. /\ toClient[client] # <<>>
        /\ view' = [view EXCEPT ![client] = Believed(@, m)]
        /\ toClient' = [toClient EXCEPT ![client] = Tail(@)]
        /\ UNCHANGED <<present, deviceList, events, deviceSubscribers, recognized,
                       toMachine, lost, connection, late, toContext, overtaken>>
    BY DEF ClientReads, usbVars, machineVars, history
  <1>2. toClient[client] \in Seq(ClientMessage) /\ m \in ClientMessage
    BY <1>1 DEF TypeOK
  <1> HIDE DEF m
  <1>3. Believed(view[client], m) \in SUBSET Devices
    BY <1>2 DEF Believed, ClientMessage, TypeOK
  <1>4. TypeOK'
    BY <1>1, <1>2, <1>3 DEF TypeOK
  <1>5. WithinHwm'
    <2>1. Len(Tail(toClient[client])) <= Len(toClient[client])
      BY <1>1, <1>2, HeadTailProperties
    <2>2. \A c \in Clients : /\ Len(toClient'[c]) <= Len(toClient[c])
                             /\ Len(toClient[c]) \in Nat /\ Len(toClient'[c]) \in Nat
      BY <1>1, <1>4, <2>1 DEF TypeOK
    <2> QED BY <2>2, LibraryAssumption DEF WithinHwm
  <1>6. ASSUME NEW c \in deviceSubscribers \ lost, NEW d \in Devices
        PROVE  ClientHears(c, d)'
    <2>1. c \in Clients /\ ClientHears(c, d)
      BY <1>6 DEF TypeOK, ClientsHear
    <2>2. /\ UNCHANGED <<Right(d), Wrong(d)>>
          /\ d \in recognized' <=> d \in recognized
      BY <1>1 DEF Right, Wrong, Listing, Unlisting
    <2>3. CASE c # client
      <3>1. toClient'[c] = toClient[c] /\ view'[c] = view[c]
        BY <1>1, <2>1, <2>3 DEF TypeOK
      <3> QED BY <2>1, <2>2, <3>1 DEF ClientHears
    <2>4. CASE c = client
      <3>1. toClient'[c] = Tail(toClient[c]) /\ view'[c] = Believed(view[c], m)
        BY <1>1, <2>1, <2>4 DEF TypeOK
      <3>2. /\ Corrected(Tail(toClient[c]), Wrong(d), Right(d))
            /\ Lacks(Tail(toClient[c]), Right(d)) =>
                   m \notin Wrong(d) /\ (m \in Right(d) \/ Lacks(toClient[c], Right(d)))
        BY <1>1, <1>2, <2>1, <2>4, TakeHead DEF ClientHears, m
      <3>3. m \in Right(d) => (d \in Believed(view[c], m) <=> d \in recognized)
        BY <1>2 DEF Right, Listing, Unlisting, Believed, ClientMessage
      <3>4. m \notin Right(d) /\ m \notin Wrong(d)
               => (d \in Believed(view[c], m) <=> d \in view[c])
        BY <1>2 DEF Right, Wrong, Listing, Unlisting, Believed, ClientMessage
      <3> QED BY <2>1, <2>2, <3>1, <3>2, <3>3, <3>4 DEF ClientHears
    <2> QED BY <2>3, <2>4
  <1>7. ClientsHear'
    BY <1>1, <1>6 DEF ClientsHear
  <1>8. \A d \in Devices : Announcing(d)' => Announcing(d)
    BY <1>1 DEF Announcing
  <1> QED BY <1>1, <1>4, <1>5, <1>7, <1>8, HearsKept, FollowsKept, GhostsKept

LEMMA CableStep ==
    ASSUME IInv, NEW device \in Devices, Plug(device) \/ Unplug(device)
    PROVE  IInv'
  <1> USE DEF IInv
  <1>1. /\ present' \in SUBSET Devices
        /\ UNCHANGED <<deviceList, events, deviceSubscribers, recognized, toMachine,
                       toClient, lost, connection, late, toContext, view, overtaken>>
    BY DEF Plug, Unplug, contextVars, machineVars, history, TypeOK
  <1>2. TypeOK' /\ \A d \in Devices : Announcing(d)' => Announcing(d)
    BY <1>1 DEF TypeOK, Announcing
  <1> QED BY <1>1, <1>2, HearsKept, FollowsKept, GhostsKept, ClientsKept

LEMMA InitEstablishes ==
    ASSUME Init
    PROVE  IInv
  <1>1. /\ deviceList = {} /\ present = {} /\ events = <<>>
        /\ recognized = {} /\ deviceSubscribers = {}
        /\ toMachine = [d \in Devices |-> <<>>]
        /\ toClient = [c \in Clients |-> <<>>]
        /\ connection = [d \in Devices |-> "Disconnected"]
        /\ toContext = [d \in Devices |-> <<>>]
        /\ view = [c \in Clients |-> {}]
    BY DEF Init, Usb!Init, Ctx!Init
  <1>2. \A S : <<>> \in Seq(S)
    OBVIOUS
  <1>3. TypeOK
    BY <1>1, <1>2 DEF TypeOK
  <1>4. WithinHwm
    BY <1>1, LibraryAssumption DEF WithinHwm
  <1>5. \A d \in Devices : Hears(d)
    BY <1>1 DEF Hears, ContextHears, Unreported, MachineHears, Follows, Corrected, Lacks
  <1>6. GhostsExplained /\ ClientsHear
    BY <1>1 DEF GhostsExplained, Ghost, Announcing, ClientsHear
  <1> QED BY <1>3, <1>4, <1>5, <1>6 DEF IInv

LEMMA NextPreserves ==
    ASSUME IInv, [Next]_vars
    PROVE  IInv'
  <1>1. CASE Scan
    BY <1>1, ScanStep
  <1>2. CASE ContextReadsUsb
    BY <1>2, ContextReadsUsbStep
  <1>3. ASSUME NEW device \in Devices, ContextReadsMachine(device)
        PROVE  IInv'
    BY <1>3, ContextReadsMachineStep
  <1>4. ASSUME NEW device \in Devices, MachineReads(device)
        PROVE  IInv'
    BY <1>4, MachineReadsStep
  <1>5. ASSUME NEW device \in Devices, MachineIdentifies(device)
        PROVE  IInv'
    BY <1>5, MachineIdentifiesStep
  <1>6. ASSUME NEW device \in Devices, MachineForwards(device)
        PROVE  IInv'
    BY <1>6, MachineForwardsStep
  <1>7. ASSUME NEW device \in Devices, Plug(device) \/ Unplug(device)
        PROVE  IInv'
    BY <1>7, CableStep
  <1>8. ASSUME NEW client \in Clients, ClientRequests(client)
        PROVE  IInv'
    BY <1>8, ClientRequestsStep
  <1>9. ASSUME NEW client \in Clients, ClientReads(client)
        PROVE  IInv'
    BY <1>9, ClientReadsStep
  <1>10. CASE UNCHANGED vars
    <2>1. UNCHANGED <<present, deviceList, events, deviceSubscribers, recognized,
                      toMachine, toClient, lost, connection, late, toContext, view,
                      overtaken>>
      BY <1>10 DEF vars, usbVars, contextVars, machineVars, history
    <2>2. TypeOK' /\ \A d \in Devices : Announcing(d)' => Announcing(d)
      BY <2>1 DEF IInv, TypeOK, Announcing
    <2> QED BY <2>1, <2>2, HearsKept, FollowsKept, GhostsKept, ClientsKept DEF IInv
  <1>11. ASSUME NEW device \in Devices, DeviceStarts(device) \/ DeviceReports(device)
         PROVE  IInv'
    BY <1>11, StartupLineStep
  <1> QED
    BY <1>1, <1>2, <1>3, <1>4, <1>5, <1>6, <1>7, <1>8, <1>9, <1>10, <1>11 DEF Next

-----------------------------------------------------------------------------
(* Theorems *)

THEOREM Invariance == FairSpec => []IInv
  <1>1. Init => IInv
    BY InitEstablishes
  <1>2. IInv /\ [Next]_vars => IInv'
    BY NextPreserves
  <1> QED BY <1>1, <1>2, PTL DEF FairSpec

\* The machines follow USB: once no report is on its way to the Context or to
\* the machine of a device, the machine's belief is the last list's, unless a
\* startup line that command_init_grbl handled after the removal woke it.
THEOREM MachinesFollowUsb == FairSpec => []MachineFollowsUsb
  <1>1. IInv => MachineFollowsUsb
    <2> SUFFICES ASSUME IInv, NEW d \in Devices, Reported(d)
                 PROVE  Follows(d)
      BY DEF MachineFollowsUsb, Follows
    <2>1. \A m : Lacks(<<>>, m)
      BY DEF Lacks
    <2> QED BY <2>1 DEF IInv, Hears, Unreported, MachineHears, Reported
  <1> QED BY <1>1, Invariance, PTL

\* command_support_device lists a device that is gone only when its removal
\* overtook its announcement, or when a late startup line woke its machine.
THEOREM GhostsOnlyByOvertaking == FairSpec => []GhostsWereOvertaken
  <1>1. IInv => GhostsWereOvertaken
    <2> SUFFICES ASSUME IInv, NEW d \in recognized \ deviceList, Settled(d)
                 PROVE  d \in overtaken
      BY DEF GhostsWereOvertaken
    <2>1. d \in Devices
      BY DEF IInv, TypeOK
    <2>2. \A m : Lacks(<<>>, m)
      BY DEF Lacks
    <2>3. Ghost(d)
      BY <2>2 DEF Ghost, Unreported, Settled
    <2> QED BY <2>1, <2>3 DEF IInv, GhostsExplained
  <1> QED BY <1>1, Invariance, PTL

\* A subscribed client that has read everything, and to whom the router dropped
\* nothing, knows exactly recognized_devices_.
THEOREM ClientsKnowTheList == FairSpec => []ViewMatches
  <1>1. IInv => ViewMatches
    <2> SUFFICES ASSUME IInv, NEW c \in deviceSubscribers, toClient[c] = <<>>, c \notin lost
                 PROVE  view[c] = recognized
      BY DEF ViewMatches
    <2>1. \A m : Lacks(<<>>, m)
      BY DEF Lacks
    <2>2. \A d \in Devices : d \in view[c] <=> d \in recognized
      BY <2>1 DEF IInv, ClientsHear, ClientHears
    <2>3. view[c] \in SUBSET Devices /\ recognized \in SUBSET Devices
      BY DEF IInv, TypeOK
    <2> QED BY <2>2, <2>3
  <1> QED BY <1>1, Invariance, PTL

-----------------------------------------------------------------------------
(* A Machine writes the description of a listed device only if the device   *)
(* restarts.  What has to be shown is that a machine whose device is listed *)
(* does not go back to Connected.  It would if two additions reached it     *)
(* with no removal between them; the invariant says that the reports of a   *)
(* device alternate on the whole way from the scan to the machine.          *)

\* Between two occurrences of a message there is another one.
Separated(seq, msg, between) ==
    \A i, j \in 1..Len(seq) :
        i < j /\ seq[i] = msg /\ seq[j] = msg
        => \E k \in 1..Len(seq) : i < k /\ k < j /\ seq[k] = between

\* The message occurs, and the other one not before it.
Leads(seq, msg, other) ==
    \E i \in 1..Len(seq) : /\ seq[i] = msg
                           /\ \A k \in 1..Len(seq) : k < i => seq[k] # other

Added(d)   == Usb!Event("USBDeviceAdded", d)
Removed(d) == Usb!Event("USBDeviceRemoved", d)
Add    == [kind |-> "USBDeviceAdded"]
Remove == [kind |-> "USBDeviceRemoved"]

\* The machine has handled no addition since the last removal.
Idle(d) == connection[d] = "Disconnected" \/ d \in late

\* Having read all it was sent the machine is idle.
EndsIdle(d) ==
    /\ Corrected(toMachine[d], {Add}, {Remove})
    /\ Lacks(toMachine[d], {Remove}) => Idle(d)

Alternates(d) ==
    /\ Separated(events, Added(d), Removed(d))
    /\ Leads(events, Added(d), Removed(d)) => EndsIdle(d)
    /\ Separated(toMachine[d], Add, Remove)
    /\ Leads(toMachine[d], Add, Remove) => Idle(d)

\* A device that is listed, or about to be, while its machine was told that it is
\* gone, will be, or has not identified it for the first time.
Untimely(d) ==
    /\ Removing(d) \/ Idle(d) \/ (connection[d] # "Identified" /\ d \notin restarted)
    /\ d \in recognized \/ Announcing(d)

OrderInv == \A d \in Devices : Alternates(d) /\ (Untimely(d) => d \in overtaken)

-----------------------------------------------------------------------------
(* Sockets *)

\* Any other message at the end changes neither.
LEMMA OtherAtEnd ==
    ASSUME NEW S, NEW seq \in Seq(S), NEW m \in S, NEW msg, NEW other,
           m # msg, Separated(seq, msg, other)
    PROVE  /\ Separated(Append(seq, m), msg, other)
           /\ Leads(Append(seq, m), msg, other) => Leads(seq, msg, other)
  <1>1. /\ Len(seq) \in Nat /\ Len(Append(seq, m)) = Len(seq) + 1
        /\ Append(seq, m)[Len(seq) + 1] = m
        /\ \A i \in 1..Len(seq) : Append(seq, m)[i] = seq[i]
    OBVIOUS
  <1>2. \A i \in 1..Len(Append(seq, m)) : i \in 1..Len(seq) \/ i = Len(seq) + 1
    BY <1>1
  <1>3. \A i \in 1..Len(seq) : i \in 1..Len(Append(seq, m))
    BY <1>1
  <1>4. Separated(Append(seq, m), msg, other)
    BY <1>1, <1>2, <1>3 DEF Separated
  <1>5. Leads(Append(seq, m), msg, other) => Leads(seq, msg, other)
    BY <1>1, <1>2, <1>3 DEF Leads
  <1> QED BY <1>4, <1>5

\* Several messages at once, with the message in question among them only where
\* the sequence before ends without it.
LEMMA SeveralAtEnd ==
    ASSUME NEW S, NEW seq \in Seq(S), NEW more \in Seq(S), NEW msg, NEW other,
           Separated(seq, msg, other), Separated(more, msg, other),
           Lacks(more, {msg}) \/ Corrected(seq, {msg}, {other})
    PROVE  /\ Separated(seq \o more, msg, other)
           /\ Leads(seq \o more, msg, other) =>
                  \/ Leads(seq, msg, other)
                  \/ ~Lacks(more, {msg}) /\ Lacks(seq, {other})
  <1> DEFINE n == Len(seq)
             all == seq \o more
  <1>1. /\ n \in Nat /\ Len(more) \in Nat
        /\ Len(all) = n + Len(more)
        /\ \A i \in 1..n : all[i] = seq[i]
        /\ \A i \in 1..Len(more) : all[i + n] = more[i]
    BY ConcatProperties
  <1> HIDE DEF all, n
  <1>2. \A i \in 1..Len(all) :
            \/ i \in 1..n /\ all[i] = seq[i]
            \/ i > n /\ i - n \in 1..Len(more) /\ all[i] = more[i - n]
    BY <1>1
  <1>3. /\ \A i \in 1..n : i \in 1..Len(all)
        /\ \A i \in 1..Len(more) : i + n \in 1..Len(all)
    BY <1>1
  <1>4. ASSUME NEW i \in 1..Len(all), NEW j \in 1..Len(all),
               i < j, all[i] = msg, all[j] = msg
        PROVE  \E k \in 1..Len(all) : i < k /\ k < j /\ all[k] = other
    <2>1. CASE j \in 1..n
      <3>1. i \in 1..n
        BY <1>1, <1>4, <2>1
      <3>2. PICK k \in 1..n : i < k /\ k < j /\ seq[k] = other
        BY <1>1, <1>4, <2>1, <3>1 DEF Separated, n
      <3> QED BY <1>1, <1>3, <3>2
    <2>2. CASE i \in 1..n /\ j > n
      <3>1. j - n \in 1..Len(more) /\ more[j - n] = msg
        BY <1>1, <1>2, <1>4, <2>2
      <3>2. Corrected(seq, {msg}, {other})
        BY <3>1 DEF Lacks
      <3>3. seq[i] = msg
        BY <1>1, <1>4, <2>2
      <3>4. PICK k \in 1..n : i < k /\ seq[k] = other
        BY <2>2, <3>2, <3>3 DEF Corrected, n
      <3> QED BY <1>1, <1>3, <2>2, <3>4
    <2>3. CASE i > n /\ j > n
      <3>1. /\ i - n \in 1..Len(more) /\ more[i - n] = msg
            /\ j - n \in 1..Len(more) /\ more[j - n] = msg
            /\ i - n < j - n
        BY <1>1, <1>2, <1>4, <2>3
      <3>2. PICK k \in 1..Len(more) : i - n < k /\ k < j - n /\ more[k] = other
        BY <3>1 DEF Separated
      <3>3. k + n \in 1..Len(all) /\ all[k + n] = other /\ i < k + n /\ k + n < j
        BY <1>1, <1>3, <3>2
      <3> QED BY <3>3
    <2> QED BY <1>1, <1>2, <1>4, <2>1, <2>2, <2>3
  <1>5. ASSUME Leads(all, msg, other), ~Leads(seq, msg, other)
        PROVE  ~Lacks(more, {msg}) /\ Lacks(seq, {other})
    <2>1. PICK i \in 1..Len(all) : /\ all[i] = msg
                                  /\ \A k \in 1..Len(all) : k < i => all[k] # other
      BY <1>5 DEF Leads
    <2>2. CASE i \in 1..n
      <3>1. seq[i] = msg /\ \A k \in 1..n : k < i => seq[k] # other
        BY <1>1, <1>3, <2>1, <2>2
      <3> QED BY <1>5, <2>2, <3>1 DEF Leads, n
    <2>3. CASE i > n /\ i - n \in 1..Len(more) /\ all[i] = more[i - n]
      <3>1. \A k \in 1..n : seq[k] # other
        BY <1>1, <1>3, <2>1, <2>3
      <3> QED BY <2>1, <2>3, <3>1 DEF Lacks, n
    <2> QED BY <1>2, <2>2, <2>3
  <1> QED BY <1>4, <1>5 DEF Separated, all

\* Reading the first message.
LEMMA FirstRead ==
    ASSUME NEW S, NEW seq \in Seq(S), seq # <<>>, NEW msg, NEW other,
           msg # other, Separated(seq, msg, other)
    PROVE  /\ Separated(Tail(seq), msg, other)
           /\ Head(seq) = msg => Leads(seq, msg, other) /\ ~Leads(Tail(seq), msg, other)
           /\ Leads(Tail(seq), msg, other) => Head(seq) = other \/ Leads(seq, msg, other)
  <1> DEFINE rest == Tail(seq)
  <1>1. /\ Len(seq) \in Nat \ {0} /\ Head(seq) = seq[1]
        /\ Len(rest) = Len(seq) - 1
        /\ \A i \in 1..Len(rest) : rest[i] = seq[i + 1]
    BY HeadTailProperties
  <1> HIDE DEF rest
  <1>2. \A i \in 1..Len(seq) :
            i = 1 \/ (i - 1 \in 1..Len(rest) /\ seq[i] = rest[i - 1])
    BY <1>1
  <1>3. \A i \in 1..Len(rest) : i + 1 \in 1..Len(seq)
    BY <1>1
  <1>4. Separated(rest, msg, other)
    <2> SUFFICES ASSUME NEW i \in 1..Len(rest), NEW j \in 1..Len(rest),
                        i < j, rest[i] = msg, rest[j] = msg
                 PROVE  \E k \in 1..Len(rest) : i < k /\ k < j /\ rest[k] = other
      BY DEF Separated
    <2>1. /\ seq[i + 1] = msg /\ seq[j + 1] = msg /\ i + 1 < j + 1
          /\ i + 1 \in 1..Len(seq) /\ j + 1 \in 1..Len(seq)
      BY <1>1, <1>3
    <2>2. PICK k \in 1..Len(seq) : i + 1 < k /\ k < j + 1 /\ seq[k] = other
      BY <2>1 DEF Separated
    <2>3. k - 1 \in 1..Len(rest) /\ rest[k - 1] = other /\ i < k - 1 /\ k - 1 < j
      BY <1>2, <2>2
    <2> QED BY <2>3
  <1>5. ASSUME Head(seq) = msg PROVE Leads(seq, msg, other)
    <2>1. 1 \in 1..Len(seq) /\ \A k \in 1..Len(seq) : ~(k < 1)
      BY <1>1
    <2> QED BY <1>1, <1>5, <2>1 DEF Leads
  <1>6. ASSUME Leads(rest, msg, other)
        PROVE  Head(seq) # msg /\ (Head(seq) = other \/ Leads(seq, msg, other))
    <2>1. PICK i \in 1..Len(rest) : /\ rest[i] = msg
                                    /\ \A k \in 1..Len(rest) : k < i => rest[k] # other
      BY <1>6 DEF Leads
    <2>2. i + 1 \in 1..Len(seq) /\ seq[i + 1] = msg
      BY <1>1, <1>3, <2>1
    <2>3. \A k \in 1..Len(seq) : k < i + 1 /\ k # 1 => seq[k] # other
      BY <1>2, <2>1
    <2>4. Head(seq) # msg
      <3> SUFFICES ASSUME seq[1] = msg PROVE FALSE
        BY <1>1
      <3>1. 1 \in 1..Len(seq) /\ 1 < i + 1
        BY <1>1
      <3>2. PICK k \in 1..Len(seq) : 1 < k /\ k < i + 1 /\ seq[k] = other
        BY <2>2, <3>1 DEF Separated
      <3> QED BY <2>3, <3>2
    <2>5. ASSUME Head(seq) # other PROVE Leads(seq, msg, other)
      BY <1>1, <2>2, <2>3, <2>5 DEF Leads
    <2> QED BY <2>4, <2>5
  <1> QED BY <1>4, <1>5, <1>6 DEF rest

\* A report of its own among those of a set.
LEMMA ReportedOnce ==
    ASSUME NEW kind \in {"USBDeviceAdded", "USBDeviceRemoved"},
           NEW S \in SUBSET Devices, IsFiniteSet(S), NEW d, NEW other
    PROVE  Separated(Usb!Events(kind, S), Usb!Event(kind, d), other)
  <1> DEFINE order == Usb!SetToSeq(S)
             seq == Usb!Events(kind, S)
  <1>1. order \in Seq(S) /\ Usb!IsInjective(order)
    BY OrderCoversSet
  <1> HIDE DEF order
  <1>2. seq = [i \in 1..Len(order) |-> Usb!Event(kind, order[i])]
    BY DEF Usb!Events, order
  <1>3. /\ seq \in Seq(UsbEvent) /\ Len(order) \in Nat
        /\ DOMAIN order = 1..Len(order)
    BY <1>1, EventsOfSet
  <1> HIDE DEF seq
  <1>4. Len(seq) = Len(order)
    BY <1>2, <1>3
  <1>5. ASSUME NEW i \in 1..Len(seq), NEW j \in 1..Len(seq), i < j,
               seq[i] = Usb!Event(kind, d), seq[j] = Usb!Event(kind, d)
        PROVE  FALSE
    <2>1. /\ seq[i] = [kind |-> kind, device |-> order[i]]
          /\ seq[j] = [kind |-> kind, device |-> order[j]]
      BY <1>2, <1>4 DEF Usb!Event
    <2>2. order[i] = d /\ order[j] = d
      BY <1>5, <2>1 DEF Usb!Event
    <2> QED BY <1>1, <1>3, <1>4, <1>5, <2>2 DEF Usb!IsInjective
  <1> QED BY <1>5 DEF Separated, seq

LEMMA ScanReportsOnce ==
    ASSUME TypeOK, NEW d
    PROVE  Separated(Usb!Changes, Added(d), Removed(d))
  <1> DEFINE came == Usb!Events("USBDeviceAdded", present \ deviceList)
             went == Usb!Events("USBDeviceRemoved", deviceList \ present)
  <1>1. /\ present \ deviceList \in SUBSET Devices
        /\ deviceList \ present \in SUBSET Devices
    BY DEF TypeOK
  <1>2. IsFiniteSet(present \ deviceList) /\ IsFiniteSet(deviceList \ present)
    BY <1>1, FS_Subset, LibraryAssumption
  <1>3. came \in Seq(UsbEvent) /\ Separated(came, Added(d), Removed(d))
    BY <1>1, <1>2, EventsOfSet, ReportedOnce DEF Added
  <1>4. went \in Seq(UsbEvent) /\ Lacks(went, {Added(d)})
    BY <1>1, <1>2, EventsOfSet DEF Added
  <1>5. Usb!Changes = came \o went
    BY DEF Usb!Changes
  <1> HIDE DEF came, went
  <1>6. Separated(went, Added(d), Removed(d))
    BY <1>4 DEF Separated, Lacks
  <1> QED BY <1>3, <1>4, <1>5, <1>6, SeveralAtEnd

-----------------------------------------------------------------------------
(* Steps *)

LEMMA AlternatesKept ==
    ASSUME \A d \in Devices : Alternates(d), UNCHANGED <<events, toMachine>>,
           \A d \in Devices : Idle(d) => Idle(d)'
    PROVE  \A d \in Devices : Alternates(d)'
  BY DEF Alternates, EndsIdle, Added, Removed

LEMMA UntimelyKept ==
    ASSUME \A d \in Devices : Untimely(d) => d \in overtaken,
           UNCHANGED overtaken, recognized' \subseteq recognized,
           \A d \in Devices : /\ Announcing(d)' => Announcing(d)
                              /\ Removing(d)' => Removing(d)
                              /\ connection'[d] = connection[d],
           UNCHANGED <<late, restarted>>
    PROVE  \A d \in Devices : Untimely(d)' => d \in overtaken'
  BY DEF Untimely, Idle

LEMMA ScanKeepsOrder ==
    ASSUME IInv, OrderInv, Scan
    PROVE  OrderInv'
  <1> DEFINE all == Usb!Changes
  <1>1. /\ events' = events \o all
        /\ UNCHANGED <<recognized, toMachine, connection, late, restarted, toContext,
                       overtaken>>
    BY DEF Scan, Usb!EnumerateUsb, contextVars, machineVars, history
  <1>2. /\ events \in Seq(UsbEvent) /\ all \in Seq(UsbEvent)
        /\ \A d \in Devices : /\ Separated(all, Added(d), Removed(d))
                              /\ d \in deviceList => Lacks(all, {Added(d)})
    BY ChangesReported, ScanReportsOnce DEF IInv, TypeOK, Added
  <1> HIDE DEF all
  <1>3. ASSUME NEW d \in Devices PROVE Alternates(d)'
    <2>1. Separated(events, Added(d), Removed(d)) /\ Separated(all, Added(d), Removed(d))
      BY <1>2 DEF OrderInv, Alternates
    <2>2. d \in deviceList => Lacks(all, {Added(d)})
      BY <1>2
    <2>3. d \notin deviceList => /\ Corrected(events, {Added(d)}, {Removed(d)})
                                 /\ Lacks(events, {Removed(d)}) => EndsIdle(d)
      BY <1>3 DEF IInv, TypeOK, Hears, ContextHears, Unreported, MachineHears, Report, Misreport,
             Follows, Idle, EndsIdle, Added, Removed, Add, Remove
    <2>4. Lacks(all, {Added(d)}) \/ Corrected(events, {Added(d)}, {Removed(d)})
      BY <2>2, <2>3
    <2>5. /\ Separated(events', Added(d), Removed(d))
          /\ Leads(events', Added(d), Removed(d)) =>
                 \/ Leads(events, Added(d), Removed(d))
                 \/ ~Lacks(all, {Added(d)}) /\ Lacks(events, {Removed(d)})
      BY <1>1, <1>2, <2>1, <2>4, SeveralAtEnd
    <2>6. ASSUME Leads(events', Added(d), Removed(d))
          PROVE  EndsIdle(d)
      <3>1. CASE Leads(events, Added(d), Removed(d))
        BY <3>1 DEF OrderInv, Alternates
      <3>2. CASE ~Lacks(all, {Added(d)}) /\ Lacks(events, {Removed(d)})
        BY <2>2, <2>3, <3>2
      <3> QED BY <2>5, <2>6, <3>1, <3>2
    <2> QED BY <1>1, <2>5, <2>6 DEF OrderInv, Alternates, EndsIdle, Idle, Added, Removed
  <1>4. \A d \in Devices : Untimely(d)' => d \in overtaken'
    BY <1>1, UntimelyKept DEF OrderInv, Announcing, Removing
  <1> QED BY <1>3, <1>4 DEF OrderInv

\* The Context passes a report on.
LEMMA PassingOnKeepsOrder ==
    ASSUME IInv, OrderInv, events # <<>>,
           NEW device \in Devices, NEW kind \in {"USBDeviceAdded", "USBDeviceRemoved"},
           Head(events) = Usb!Event(kind, device),
           events' = Tail(events),
           Ctx!Forward(device, [kind |-> kind]),
           UNCHANGED <<connection, late>>
    PROVE  \A d \in Devices : Alternates(d)'
  <1> DEFINE m == [kind |-> kind]
  <1>1. /\ events \in Seq(UsbEvent)
        /\ toMachine \in [Devices -> Seq(MachineMessage)]
        /\ m \in MachineMessage
        /\ toMachine' = [toMachine EXCEPT ![device] = Append(@, m)]
    BY DEF IInv, TypeOK, MachineMessage, Ctx!Forward
  <1> SUFFICES ASSUME NEW d \in Devices PROVE Alternates(d)'
    OBVIOUS
  <1>2. Added(d) # Removed(d)
    BY DEF Added, Removed, Usb!Event
  <1>3. /\ Separated(events', Added(d), Removed(d))
        /\ Head(events) = Added(d) => /\ Leads(events, Added(d), Removed(d))
                                      /\ ~Leads(events', Added(d), Removed(d))
        /\ Leads(events', Added(d), Removed(d)) =>
               Head(events) = Removed(d) \/ Leads(events, Added(d), Removed(d))
    BY <1>1, <1>2, FirstRead DEF OrderInv, Alternates
  <1>4. Alternates(d)
    BY DEF OrderInv
  <1>5. CASE d # device
    <2>1. Head(events) # Removed(d) /\ toMachine'[d] = toMachine[d]
      BY <1>1, <1>5 DEF Removed, Usb!Event
    <2> QED BY <1>3, <1>4, <2>1 DEF Alternates, EndsIdle, Idle, Added, Removed
  <1>6. CASE d = device /\ kind = "USBDeviceAdded"
    <2>1. /\ toMachine[d] \in Seq(MachineMessage)
          /\ toMachine'[d] = toMachine[d] \o <<Add>>
          /\ <<Add>> \in Seq(MachineMessage)
      <3>1. /\ toMachine[d] \in Seq(MachineMessage) /\ m = Add
            /\ toMachine'[d] = Append(toMachine[d], m)
        BY <1>1, <1>6 DEF Add
      <3> HIDE DEF m
      <3> QED BY <1>1, <3>1, AppendIsConcat
    <2>2. EndsIdle(d) /\ ~Leads(events', Added(d), Removed(d))
      BY <1>3, <1>4, <1>6 DEF Alternates, Added
    <2>3. Separated(<<Add>>, Add, Remove)
      BY DEF Separated
    <2>4. /\ Separated(toMachine'[d], Add, Remove)
          /\ Leads(toMachine'[d], Add, Remove) =>
                 Leads(toMachine[d], Add, Remove) \/ Lacks(toMachine[d], {Remove})
      <3>1. /\ Separated(toMachine[d], Add, Remove)
            /\ Lacks(<<Add>>, {Add}) \/ Corrected(toMachine[d], {Add}, {Remove})
        BY <1>4, <2>2 DEF Alternates, EndsIdle
      <3>2. /\ Separated(toMachine[d] \o <<Add>>, Add, Remove)
            /\ Leads(toMachine[d] \o <<Add>>, Add, Remove) =>
                   \/ Leads(toMachine[d], Add, Remove)
                   \/ ~Lacks(<<Add>>, {Add}) /\ Lacks(toMachine[d], {Remove})
        BY <2>1, <2>3, <3>1, SeveralAtEnd
      <3> QED BY <2>1, <3>2
    <2>5. Leads(toMachine'[d], Add, Remove) => Idle(d)
      BY <1>4, <2>2, <2>4 DEF Alternates, EndsIdle
    <2> QED BY <1>3, <2>2, <2>4, <2>5 DEF Alternates, Idle, Added, Removed
  <1>7. CASE d = device /\ kind = "USBDeviceRemoved"
    <2>1. /\ toMachine[d] \in Seq(MachineMessage)
          /\ toMachine'[d] = Append(toMachine[d], Remove)
          /\ Remove \in MachineMessage /\ Remove # Add
      BY <1>1, <1>7 DEF Add, Remove
    <2>2. /\ Separated(toMachine'[d], Add, Remove)
          /\ Leads(toMachine'[d], Add, Remove) => Leads(toMachine[d], Add, Remove)
      BY <1>4, <2>1, OtherAtEnd DEF Alternates
    <2>3. /\ Corrected(toMachine'[d], {Add}, {Remove})
          /\ ~Lacks(toMachine'[d], {Remove})
      <3>1. Remove \in {Remove} /\ Remove \notin {Add}
        BY <2>1
      <3>2. /\ Corrected(Append(toMachine[d], Remove), {Add}, {Remove})
            /\ ~Lacks(Append(toMachine[d], Remove), {Remove})
        BY <2>1, <3>1, AppendRight
      <3> QED BY <2>1, <3>2
    <2> QED BY <1>3, <1>4, <2>2, <2>3 DEF Alternates, EndsIdle, Idle, Added, Removed
  <1> QED BY <1>5, <1>6, <1>7

LEMMA ContextReadsUsbKeepsOrder ==
    ASSUME IInv, OrderInv, ContextReadsUsb
    PROVE  OrderInv'
  <1> DEFINE device == Head(events).device
             kind == Head(events).kind
  <1>1. /\ events # <<>> /\ events' = Tail(events) /\ Head(events) \in UsbEvent
        /\ UNCHANGED <<connection, late, restarted, toContext>>
    BY DEF ContextReadsUsb, machineVars, IInv, TypeOK
  <1>2. /\ device \in Devices /\ kind \in {"USBDeviceAdded", "USBDeviceRemoved"}
        /\ Head(events) = Usb!Event(kind, device)
    BY <1>1 DEF UsbEvent, Usb!Event
  <1>3. /\ Ctx!Forward(device, [kind |-> kind])
        /\ kind = "USBDeviceAdded" => UNCHANGED <<recognized, overtaken>>
        /\ kind = "USBDeviceRemoved" =>
               /\ recognized' = recognized \ {device}
               /\ overtaken' = IF Announcing(device) THEN overtaken \cup {device}
                                                    ELSE overtaken \ {device}
    BY <1>2 DEF ContextReadsUsb, Ctx!UsbDeviceAdded, Ctx!UsbDeviceRemoved
  <1> HIDE DEF device, kind
  <1>4. \A d \in Devices : Alternates(d)'
    BY <1>1, <1>2, <1>3, PassingOnKeepsOrder
  <1>5. \A d \in Devices : Announcing(d)' => Announcing(d)
    BY <1>1 DEF Announcing
  <1>6. /\ toMachine \in [Devices -> Seq(MachineMessage)]
        /\ toMachine' = [toMachine EXCEPT ![device] = Append(@, [kind |-> kind])]
    BY <1>3 DEF IInv, TypeOK, Ctx!Forward
  <1>7. CASE kind = "USBDeviceAdded"
    <2>1. ASSUME NEW d \in Devices, Removing(d)' PROVE Removing(d)
      <3>1. CASE d # device
        BY <1>6, <2>1, <3>1 DEF Removing
      <3>2. CASE d = device
        <4>1. /\ toMachine[d] \in Seq(MachineMessage)
              /\ toMachine'[d] = Append(toMachine[d], [kind |-> "USBDeviceAdded"])
          BY <1>6, <1>7, <3>2
        <4> QED BY <2>1, <4>1 DEF Removing
      <3> QED BY <3>1, <3>2
    <2> QED BY <1>1, <1>3, <1>4, <1>5, <1>7, <2>1, UntimelyKept DEF OrderInv
  <1>8. CASE kind = "USBDeviceRemoved"
    <2> SUFFICES ASSUME NEW d \in Devices, Untimely(d)' PROVE d \in overtaken'
      BY <1>4 DEF OrderInv
    <2>1. CASE d = device
      BY <1>3, <1>5, <1>8, <2>1 DEF Untimely
    <2>2. CASE d # device
      <3>1. Removing(d)' => Removing(d)
        BY <1>6, <2>2 DEF Removing
      <3>2. Untimely(d)
        BY <1>1, <1>3, <1>5, <1>8, <2>2, <3>1 DEF Untimely, Idle
      <3> QED BY <1>3, <1>8, <2>2, <3>2 DEF OrderInv
    <2> QED BY <2>1, <2>2
  <1> QED BY <1>2, <1>7, <1>8

LEMMA ContextReadsMachineKeepsOrder ==
    ASSUME IInv, OrderInv, NEW device \in Devices, ContextReadsMachine(device)
    PROVE  OrderInv'
  <1>1. /\ toContext[device] # <<>>
        /\ toContext' = [toContext EXCEPT ![device] = Tail(@)]
        /\ UNCHANGED <<events, toMachine, connection, late, restarted, overtaken>>
    BY DEF ContextReadsMachine, usbVars, machineVars, history, Ctx!SupportDevice,
           Ctx!ForwardToSubscriber
  <1>2. \A d \in Devices : Announcing(d)' => Announcing(d)
    BY <1>1, AnnouncementRead DEF IInv
  <1>3. recognized' \subseteq recognized \cup {device}
        /\ (recognized' # recognized => Announcing(device))
    <2>1. CASE Head(toContext[device]) = "DeviceIsSupported" /\ Ctx!SupportDevice(device)
      <3>1. /\ Len(toContext[device]) \in Nat \ {0}
            /\ toContext[device][1] = "DeviceIsSupported"
        BY <1>1, <2>1, HeadTailProperties DEF IInv, TypeOK
      <3> QED BY <2>1, <3>1 DEF Announcing, Ctx!SupportDevice
    <2>2. CASE \E kind : Ctx!ForwardToSubscriber(device, kind)
      BY <2>2 DEF Ctx!ForwardToSubscriber, Ctx!registry
    <2> QED BY <2>1, <2>2 DEF ContextReadsMachine
  <1>4. \A d \in Devices : Untimely(d)' => Untimely(d)
    BY <1>1, <1>2, <1>3 DEF Untimely, Idle, Removing
  <1>5. \A d \in Devices : Alternates(d)'
    BY <1>1, AlternatesKept DEF OrderInv, Idle
  <1> QED BY <1>1, <1>4, <1>5 DEF OrderInv

LEMMA ClientRequestsKeepsOrder ==
    ASSUME IInv, OrderInv, NEW client \in Clients, ClientRequests(client)
    PROVE  OrderInv'
  <1>1. UNCHANGED <<events, connection, late, restarted, toContext, overtaken, recognized>>
    BY DEF ClientRequests, usbVars, machineVars, history, Ctx!ListDevices, Ctx!Subscribe, Ctx!Unsubscribe,
           Ctx!ForwardToMachine, Ctx!registry
  <1>2. \A d \in Devices : Announcing(d)' => Announcing(d)
    BY <1>1 DEF Announcing
  <1>3. CASE UNCHANGED toMachine
    BY <1>1, <1>2, <1>3, AlternatesKept, UntimelyKept DEF OrderInv, Removing, Idle
  <1>4. ASSUME NEW device \in Devices, Ctx!Forward(device, [kind |-> "Command"])
        PROVE  OrderInv'
    <2> DEFINE m == [kind |-> "Command"]
    <2>1. /\ toMachine \in [Devices -> Seq(MachineMessage)]
          /\ m \in MachineMessage /\ m # Add /\ m # Remove
          /\ toMachine' = [toMachine EXCEPT ![device] = Append(@, m)]
      BY <1>4 DEF IInv, TypeOK, MachineMessage, Ctx!Forward, Add, Remove
    <2> HIDE DEF m
    <2>2. ASSUME NEW d \in Devices
          PROVE  Alternates(d)' /\ (Removing(d)' => Removing(d))
      <3>1. CASE d # device
        BY <1>1, <2>1, <3>1
           DEF OrderInv, Alternates, EndsIdle, Idle, Removing, Added, Removed
      <3>2. CASE d = device
        <4>1. /\ toMachine[d] \in Seq(MachineMessage)
              /\ toMachine'[d] = Append(toMachine[d], m)
          BY <2>1, <3>2
        <4>2. /\ Separated(toMachine'[d], Add, Remove)
              /\ Leads(toMachine'[d], Add, Remove) => Leads(toMachine[d], Add, Remove)
          BY <2>1, <4>1, OtherAtEnd DEF OrderInv, Alternates
        <4>3. EndsIdle(d) => EndsIdle(d)'
          <5> SUFFICES ASSUME EndsIdle(d) PROVE EndsIdle(d)'
            OBVIOUS
          <5>1. m \notin {Add} /\ m \notin {Remove}
            BY <2>1
          <5>2. /\ Corrected(toMachine'[d], {Add}, {Remove})
                /\ Lacks(toMachine'[d], {Remove}) => Lacks(toMachine[d], {Remove})
            BY <2>1, <4>1, <5>1, AppendOther DEF EndsIdle
          <5> QED BY <1>1, <5>2 DEF EndsIdle, Idle
        <4>4. Removing(d)' => Removing(d)
          <5>1. m.kind = "Command"
            BY DEF m
          <5> QED BY <4>1, <5>1 DEF Removing
        <4> QED BY <1>1, <4>2, <4>3, <4>4 DEF OrderInv, Alternates, Idle, Added, Removed
      <3> QED BY <3>1, <3>2
    <2> QED BY <1>1, <1>2, <2>2, UntimelyKept DEF OrderInv
  <1> QED BY <1>3, <1>4 DEF ClientRequests, Ctx!ListDevices, Ctx!Subscribe,
             Ctx!Unsubscribe, Ctx!ForwardToMachine, Ctx!outputs

LEMMA MachineReadsKeepsOrder ==
    ASSUME IInv, OrderInv, NEW device \in Devices, MachineReads(device)
    PROVE  OrderInv'
  <1> DEFINE seq == toMachine[device]
             m == Head(seq)
  <1>1. /\ seq # <<>> /\ MachineHandles(device, m)
        /\ toMachine' = [toMachine EXCEPT ![device] = Tail(@)]
        /\ UNCHANGED <<events, recognized, toContext, overtaken>>
    BY DEF MachineReads, usbVars
  <1>2. /\ toMachine \in [Devices -> Seq(MachineMessage)]
        /\ seq \in Seq(MachineMessage) /\ m \in MachineMessage
        /\ connection \in [Devices -> {"Disconnected", "Connected", "Grbl", "Identified"}]
    BY <1>1 DEF IInv, TypeOK
  <1>3. \A d \in Devices : Announcing(d)' => Announcing(d)
    BY <1>1 DEF Announcing
  <1> HIDE DEF m
  <1>4. /\ m \in {Add, Remove, [kind |-> "Command"]}
        /\ m = Add => /\ connection' = [connection EXCEPT ![device] = "Connected"]
                      /\ late' = late \ {device} /\ restarted' = restarted \ {device}
        /\ m = Remove => /\ connection' = [connection EXCEPT ![device] = "Disconnected"]
                         /\ late' = late \ {device} /\ restarted' = restarted \ {device}
        /\ m = [kind |-> "Command"] => UNCHANGED <<connection, late, restarted>>
    BY <1>1, <1>2 DEF MachineHandles, MachineMessage, Add, Remove
  <1>5. /\ toMachine'[device] = Tail(seq)
        /\ \A d \in Devices \ {device} : /\ toMachine'[d] = toMachine[d]
                                         /\ connection'[d] = connection[d]
                                         /\ d \in late' <=> d \in late
                                         /\ d \in restarted' <=> d \in restarted
    BY <1>1, <1>2, <1>4
  <1>6. /\ Separated(seq, Add, Remove)
        /\ Leads(seq, Add, Remove) => Idle(device)
    BY DEF OrderInv, Alternates
  <1>7. Add # Remove
    BY DEF Add, Remove
  <1>8. /\ Separated(Tail(seq), Add, Remove)
        /\ m = Add => Leads(seq, Add, Remove) /\ ~Leads(Tail(seq), Add, Remove)
        /\ Leads(Tail(seq), Add, Remove) => m = Remove \/ Leads(seq, Add, Remove)
    BY <1>1, <1>2, <1>6, <1>7, FirstRead DEF m
  <1>9. ASSUME NEW d \in Devices PROVE Alternates(d)'
    <2>1. CASE d # device
      BY <1>1, <1>5, <2>1 DEF OrderInv, Alternates, EndsIdle, Idle, Added, Removed
    <2>2. CASE d = device
      <3>1. Leads(Tail(seq), Add, Remove) => Idle(d)'
        BY <1>2, <1>4, <1>6, <1>8, <2>2 DEF Idle
      <3>2. ASSUME EndsIdle(d) PROVE EndsIdle(d)'
        <4>1. /\ Corrected(Tail(seq), {Add}, {Remove})
              /\ Lacks(Tail(seq), {Remove}) =>
                     m # Add /\ (m = Remove \/ Lacks(seq, {Remove}))
          BY <1>1, <1>2, <2>2, <3>2, TakeHead DEF EndsIdle, m
        <4>2. Lacks(Tail(seq), {Remove}) => Idle(d)'
          BY <1>2, <1>4, <2>2, <3>2, <4>1 DEF EndsIdle, Idle
        <4> QED BY <1>5, <2>2, <4>1, <4>2 DEF EndsIdle
      <3> QED BY <1>1, <1>5, <1>8, <2>2, <3>1, <3>2 DEF OrderInv, Alternates, Added, Removed
    <2> QED BY <2>1, <2>2
  <1>10. ASSUME NEW d \in Devices, Untimely(d)' PROVE d \in overtaken'
    <2>1. d \in recognized \/ Announcing(d)
      BY <1>1, <1>3, <1>10 DEF Untimely
    <2>2. CASE d # device
      BY <1>1, <1>5, <1>10, <2>1, <2>2 DEF Untimely, Idle, Removing, OrderInv
    <2>3. CASE d = device
      <3>1. ASSUME Removing(d)' PROVE Removing(d)
        <4>1. PICK i \in 1..Len(Tail(seq)) : Tail(seq)[i].kind = "USBDeviceRemoved"
          BY <1>5, <2>3, <3>1 DEF Removing
        <4>2. i + 1 \in 1..Len(seq) /\ seq[i + 1] = Tail(seq)[i]
          BY <1>1, <1>2, HeadTailProperties
        <4> QED BY <2>3, <4>1, <4>2 DEF Removing
      <3>2. ASSUME m = Remove PROVE Removing(d)
        <4>1. Len(seq) \in Nat \ {0} /\ seq[1] = m
          BY <1>1, <1>2, HeadTailProperties DEF m
        <4> QED BY <2>3, <3>2, <4>1 DEF Removing, Remove
      <3>3. ASSUME Idle(d)' \/ (connection'[d] # "Identified" /\ d \notin restarted')
            PROVE  \/ Removing(d) \/ Idle(d)
                   \/ connection[d] # "Identified" /\ d \notin restarted
        <4>1. CASE m = Add
          BY <1>6, <1>8, <2>3, <4>1
        <4>2. CASE m = Remove
          BY <3>2, <4>2
        <4>3. CASE m = [kind |-> "Command"]
          BY <1>4, <3>3, <4>3 DEF Idle
        <4> QED BY <1>4, <4>1, <4>2, <4>3
      <3>4. Untimely(d)
        BY <1>10, <2>1, <3>1, <3>3 DEF Untimely
      <3> QED BY <1>1, <3>4 DEF OrderInv
    <2> QED BY <2>2, <2>3
  <1> QED BY <1>9, <1>10 DEF OrderInv

LEMMA MachineIdentifiesKeepsOrder ==
    ASSUME IInv, OrderInv, NEW device \in Devices, MachineIdentifies(device)
    PROVE  OrderInv'
  <1>1. /\ connection[device] = "Grbl"
        /\ toContext' = [toContext EXCEPT ![device] = Append(@, "DeviceIsSupported")]
        /\ connection' = [connection EXCEPT ![device] = "Identified"]
        /\ overtaken' = IF Removing(device) \/ device \in late
                        THEN overtaken \cup {device} ELSE overtaken
        /\ UNCHANGED <<events, recognized, toMachine, late, restarted>>
    BY DEF MachineIdentifies, Answer, usbVars, contextVars
  <1>2. \A d \in Devices : Idle(d) <=> Idle(d)'
    BY <1>1 DEF Idle, IInv, TypeOK
  <1>3. \A d \in Devices : Alternates(d)'
    BY <1>1, <1>2, AlternatesKept DEF OrderInv
  <1>4. ASSUME NEW d \in Devices, Untimely(d)' PROVE d \in overtaken'
    <2>1. CASE d = device
      <3>1. Removing(d) \/ d \in late
        BY <1>1, <1>4, <2>1 DEF Untimely, Idle, Removing, IInv, TypeOK
      <3> QED BY <1>1, <2>1, <3>1
    <2>2. CASE d # device
      <3>1. Untimely(d)
        BY <1>1, <1>4, <2>2 DEF Untimely, Idle, Removing, Announcing, IInv, TypeOK
      <3> QED BY <1>1, <3>1 DEF OrderInv
    <2> QED BY <2>1, <2>2
  <1> QED BY <1>3, <1>4 DEF OrderInv

LEMMA OthersKeepOrder ==
    ASSUME IInv, OrderInv,
           \/ \E device \in Devices : MachineForwards(device) \/ Plug(device) \/ Unplug(device)
           \/ \E client \in Clients : ClientReads(client)
           \/ UNCHANGED vars
    PROVE  OrderInv'
  <1>1. UNCHANGED <<events, recognized, toMachine, connection, late, restarted, overtaken>>
    BY DEF MachineForwards, Plug, Unplug, ClientReads, vars, usbVars, contextVars,
           machineVars, history
  <1>2. ASSUME NEW d \in Devices, Announcing(d)' PROVE Announcing(d)
    <2>1. CASE UNCHANGED toContext
      BY <1>2, <2>1 DEF Announcing
    <2>2. ASSUME NEW device \in Devices, MachineForwards(device)
          PROVE  Announcing(d)
      <3>1. PICK kind \in {"ResponseReceived", "GrblPushReceived"} :
                toContext' = [toContext EXCEPT ![device] = Append(@, kind)]
        BY <2>2 DEF MachineForwards, Answer
      <3>2. toContext[device] \in Seq({"DeviceIsSupported", "ResponseReceived",
                                       "GrblPushReceived"})
        BY DEF IInv, TypeOK
      <3> QED BY <1>2, <3>1, <3>2 DEF Announcing, IInv, TypeOK
    <2> QED BY <2>1, <2>2 DEF Plug, Unplug, ClientReads, vars
  <1>3. \A d \in Devices : Removing(d)' => Removing(d)
    BY <1>1 DEF Removing
  <1> QED BY <1>1, <1>2, <1>3, AlternatesKept, UntimelyKept DEF OrderInv, Idle

\* A startup line leaves an idle machine idle, and an identified one restarted.
LEMMA StartupLineKeepsOrder ==
    ASSUME IInv, OrderInv, NEW device \in Devices,
           DeviceStarts(device) \/ DeviceReports(device)
    PROVE  OrderInv'
  <1>1. PICK version : StartupLine(device, version)
    BY DEF DeviceStarts, DeviceReports
  <1>2. /\ connection' = IF version = "supported"
                         THEN [connection EXCEPT ![device] = "Grbl"] ELSE connection
        /\ late' = IF connection[device] = "Disconnected" /\ version = "supported"
                   THEN late \cup {device} ELSE late
        /\ restarted' = IF connection[device] = "Identified"
                        THEN restarted \cup {device} ELSE restarted
        /\ UNCHANGED <<events, recognized, toMachine, toContext, overtaken>>
    BY <1>1 DEF StartupLine, usbVars, contextVars
  <1>3. \A d \in Devices : Idle(d)' <=> Idle(d)
    BY <1>2 DEF Idle, IInv, TypeOK
  <1>4. \A d \in Devices : Alternates(d)'
    BY <1>2, <1>3, AlternatesKept DEF OrderInv
  <1>5. \A d \in Devices : connection'[d] # "Identified" /\ d \notin restarted'
                           => connection[d] # "Identified" /\ d \notin restarted
    BY <1>2 DEF IInv, TypeOK
  <1>6. \A d \in Devices : Untimely(d)' => Untimely(d)
    BY <1>2, <1>3, <1>5 DEF Untimely, Removing, Announcing
  <1> QED BY <1>2, <1>4, <1>6 DEF OrderInv

LEMMA OrderHolds == FairSpec => []OrderInv
  <1>1. Init => OrderInv
    <2> SUFFICES ASSUME Init, NEW d \in Devices
                 PROVE  Alternates(d) /\ ~Untimely(d)
      BY DEF OrderInv
    <2>1. /\ events = <<>> /\ toMachine[d] = <<>> /\ toContext[d] = <<>> /\ recognized = {}
      BY DEF Init, Usb!Init, Ctx!Init
    <2> QED BY <2>1 DEF Alternates, Untimely, Separated, Leads, Announcing
  <1>2. IInv /\ OrderInv /\ [Next]_vars => OrderInv'
    <2> SUFFICES ASSUME IInv, OrderInv, [Next]_vars
                 PROVE  OrderInv'
      OBVIOUS
    <2>1. CASE Scan
      BY <2>1, ScanKeepsOrder
    <2>2. CASE ContextReadsUsb
      BY <2>2, ContextReadsUsbKeepsOrder
    <2>3. ASSUME NEW device \in Devices, ContextReadsMachine(device)
          PROVE  OrderInv'
      BY <2>3, ContextReadsMachineKeepsOrder
    <2>4. ASSUME NEW device \in Devices, MachineReads(device)
          PROVE  OrderInv'
      BY <2>4, MachineReadsKeepsOrder
    <2>5. ASSUME NEW device \in Devices, MachineIdentifies(device)
          PROVE  OrderInv'
      BY <2>5, MachineIdentifiesKeepsOrder
    <2>6. ASSUME NEW client \in Clients, ClientRequests(client)
          PROVE  OrderInv'
      BY <2>6, ClientRequestsKeepsOrder
    <2>7. CASE \/ \E device \in Devices : MachineForwards(device) \/ Plug(device) \/ Unplug(device)
               \/ \E client \in Clients : ClientReads(client)
               \/ UNCHANGED vars
      BY <2>7, OthersKeepOrder
    <2>8. ASSUME NEW device \in Devices, DeviceStarts(device) \/ DeviceReports(device)
          PROVE  OrderInv'
      BY <2>8, StartupLineKeepsOrder
    <2> QED BY <2>1, <2>2, <2>3, <2>4, <2>5, <2>6, <2>7, <2>8 DEF Next
  <1> QED BY <1>1, <1>2, Invariance, PTL DEF FairSpec

-----------------------------------------------------------------------------

\* While the Context's thread may read grbl_version_, type_ and version_ of a listed
\* device in Describe, its Machine writes them only if the device was restarted, or
\* asked for its status, after it was identified, or was announced after its removal.
THEOREM RacesNeedRestart == FairSpec => RacesOnlyOnRestart
  <1> DEFINE Step == \A d \in recognized :
                        WritesDescription(d) => d \in restarted' \cup overtaken
  <1>1. IInv /\ OrderInv => Step
    <2> SUFFICES ASSUME IInv, OrderInv, NEW d \in recognized, WritesDescription(d)
                 PROVE  d \in restarted' \cup overtaken
      OBVIOUS
    <2>1. d \in Devices
      BY DEF IInv, TypeOK
    <2>2. CASE MachineIdentifies(d)
      <3>1. connection[d] # "Identified" /\ restarted' = restarted
        BY <2>2 DEF MachineIdentifies
      <3> QED BY <2>1, <3>1 DEF OrderInv, Untimely
    <2>3. CASE \E version : StartupLine(d, version)
      <3>1. restarted' = IF connection[d] = "Identified"
                         THEN restarted \cup {d} ELSE restarted
        BY <2>3 DEF StartupLine
      <3> QED BY <2>1, <3>1 DEF OrderInv, Untimely
    <2> QED BY <2>2, <2>3 DEF WritesDescription, DeviceStarts, DeviceReports
  <1>2. IInv /\ OrderInv => [Step]_vars
    BY <1>1
  <1> QED BY <1>2, Invariance, OrderHolds, PTL DEF RacesOnlyOnRestart

=============================================================================
