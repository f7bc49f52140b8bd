--------------------------- MODULE SessionProofs ----------------------------
(***************************************************************************)
(* Theorems about DeviceSession: a session that follows its device on the  *)
(* USB bus.                                                                *)
(*                                                                         *)
(* UsbInv says, for every queue between the actors, which events, requests *)
(* and lines can be in it for the state of Machine, of the port and of the *)
(* device, so that what settles when the queues are empty is known.  It    *)
(* is inductive while the process lives and no device announces an alarm.  *)
(***************************************************************************)
EXTENDS DeviceSession, SequenceFacts

-----------------------------------------------------------------------------
(* Types *)

Added   == [kind |-> "USBDeviceAdded"]
Removed == [kind |-> "USBDeviceRemoved"]
Enable  == [kind |-> "EnableFlowControl"]
AskVersion == [kind |-> "Send", type |-> "GrblVersion", size |-> 3]
FlowMessages == [kind : {"Send"}, type : Commands, size : Nat]
                \cup {Enable, Added, Removed}

\* The members hold values of their C++ types.
FlowTypes ==
    /\ active \in BOOLEAN /\ alarm \in BOOLEAN
    /\ incoming \in Seq(Flow!Request) /\ outgoing \in Seq(Flow!Request)
    /\ realtime \in Flow!Request \cup {Flow!NoRequest}
    /\ used \in Int
    /\ sending \in BOOLEAN
    /\ mode \in {"Normal", "Help"} /\ buffer \in Seq(Flow!Line)
    /\ received \in Nat
    /\ aborted \in BOOLEAN

SocketTypes ==
    /\ events \in Seq({Added, Removed})
    /\ toFlow \in Seq(FlowMessages)
    /\ toParent \in Seq(Flow!ParentMessages)
    /\ toSerial \in Seq(Flow!SerialMessages)
    /\ fromSerial \in Seq(Flow!Line)

DeviceTypes ==
    /\ state \in Mach!States
    /\ port \in {"closed", "open", "dead"} /\ cut \in BOOLEAN
    /\ input \in Seq(Flow!Request)
    /\ plugged \in BOOLEAN /\ known \in BOOLEAN /\ unseen \in BOOLEAN
    /\ banner \in Banners \cup {"none"} /\ (plugged <=> banner # "none")
    /\ port = "open" => plugged
    /\ booting \in BOOLEAN /\ midReply \in BOOLEAN /\ locked \in BOOLEAN
    /\ restarts \in Nat /\ crossed \in BOOLEAN

Types == FlowTypes /\ SocketTypes /\ DeviceTypes

\* The tables of GrblCommands are the same in every actor.
LEMMA SameTables ==
    /\ Flow!Commands = Commands /\ Flow!Planned = Planned /\ Flow!Realtime = Realtime
    /\ Flow!Greedy = Greedy /\ Flow!Multiline = Multiline
    /\ Flow!ClearsAlarm = ClearsAlarm
  BY DEF Flow!Commands, Flow!Planned, Flow!Realtime, Flow!Greedy, Flow!Multiline,
         Flow!ClearsAlarm, Commands, Planned, Realtime, Greedy, Multiline, ClearsAlarm

LEMMA AskVersionIsSend ==
    /\ AskVersion \in FlowMessages
    /\ Mach!EnableAndAsk = <<Enable, AskVersion>>
    /\ "GrblVersion" \in Commands /\ Flow!Position("GrblVersion") = "Back"
  <1>1. Mach!TextSize("GrblVersion") = 3
    BY SMT DEF Mach!TextSize, Mach!Realtime
  <1>2. Flow!Position("GrblVersion") = "Back"
    BY SMT DEF Flow!Position, Flow!Realtime
  <1>3. "GrblVersion" \in Commands
    BY DEF Commands, Greedy, Multiline
  <1>4. QED
    BY <1>1, <1>2, <1>3 DEF AskVersion, FlowMessages, Enable, Mach!EnableAndAsk,
           Mach!EnableFlowControl, Mach!Send

\* What Machine reads from the context, and FlowControl from Machine.
LEMMA MessageKinds ==
    /\ \A m \in {Added, Removed} : m \in FlowMessages /\ m \in Flow!SerialMessages
          /\ m.kind \in Flow!UsbEvents /\ Flow!UsbEvent(m.kind) = m
    /\ Enable \in FlowMessages /\ Mach!EnableFlowControl = Enable
    /\ \A m \in FlowMessages :
          /\ m.kind = "USBDeviceAdded" <=> m = Added
          /\ m.kind = "USBDeviceRemoved" <=> m = Removed
          /\ m.kind = "EnableFlowControl" <=> m = Enable
          /\ m.kind = "Send" => m.type \in Commands /\ m.size \in Nat
    /\ \A m \in Flow!SerialMessages :
          /\ m.kind = "USBDeviceAdded" <=> m = Added
          /\ m.kind = "USBDeviceRemoved" <=> m = Removed
          /\ m.kind = "Data" => m.request \in Flow!Request
  BY DEF Added, Removed, Enable, FlowMessages, Flow!SerialMessages, Flow!UsbEvents,
         Flow!UsbEvent, Mach!EnableFlowControl

\* Messages built from requests and lines.
LEMMA MessageTypes ==
    /\ \A request \in Flow!Request : Flow!Data(request) \in Flow!SerialMessages
    /\ \A line \in Flow!Line :
           Flow!InitGrbl(line) \in Flow!ParentMessages
           /\ Flow!GrblPush(line) \in Flow!ParentMessages
    /\ \A request \in Flow!Request \cup {Flow!NoRequest} : \A lines \in Seq(Flow!Line) :
           Flow!Response(request, lines) \in Flow!ParentMessages
    /\ \A type \in Commands : \A size \in Nat :
           Mach!Send(type, size) \in FlowMessages
  <1>1. \A line \in Flow!Line : <<line>> \in Seq(Flow!Line)
    OBVIOUS
  <1>2. \A line : Flow!Version(line) \in Nat \X Nat
    BY SMT DEF Flow!Version
  <1>3. QED
    BY <1>1, <1>2 DEF Flow!Data, Flow!SerialMessages, Flow!InitGrbl, Flow!GrblPush,
           Flow!ParentMessages, Flow!Response, Flow!Request, Flow!NoRequest, Mach!Send,
           FlowMessages

-----------------------------------------------------------------------------
(* The types, one lemma per actor *)

LEMMA InitTypes == Init => Types
  <1>1. /\ <<>> \in Seq(Flow!Request) /\ <<>> \in Seq(Flow!Line)
        /\ <<>> \in Seq({Added, Removed}) /\ <<>> \in Seq(FlowMessages)
        /\ <<>> \in Seq(Flow!ParentMessages) /\ <<>> \in Seq(Flow!SerialMessages)
    BY EmptySeq
  <1> SUFFICES ASSUME Init PROVE Types
    OBVIOUS
  <1>2. FlowTypes
    <2>1. used = 0 /\ received = 0 /\ 0 \in Nat /\ 0 \in Int
      BY DEF Init, Flow!Init
    <2>2. QED
      BY Zenon, <1>1, <2>1 DEF Init, Flow!Init, FlowTypes
  <1>3. SocketTypes
    BY <1>1 DEF Init, Flow!Init, Mach!Init, Link!Init, SocketTypes
  <1>4. DeviceTypes
    BY <1>1 DEF Init, Mach!Init, Link!Init, DeviceTypes, Mach!States
  <1>5. QED
    BY <1>2, <1>3, <1>4 DEF Types

\* Machine: a message to FlowControl more, and another state.
LEMMA MachineTypes ==
    ASSUME Types, MachineReadsEvent \/ MachineReadsFlow \/ ClientSends \/ ContextReads \/ Scan
    PROVE  Types'
  <1>1. CASE MachineReadsEvent
    <2>1. Head(events) \in {Added, Removed} /\ Tail(events) \in Seq({Added, Removed})
      BY <1>1, TailIsSeq DEF MachineReadsEvent, Types, SocketTypes
    <2>2. Append(toFlow, Head(events)) \in Seq(FlowMessages)
      BY <2>1, MessageKinds, AppendIsSeq DEF Types, SocketTypes
    <2>3. PICK msg \in {Added, Removed} : msg = Head(events)
      BY <2>1
    <2>4. /\ state' \in Mach!States /\ toFlow' = Append(toFlow, msg)
          /\ UNCHANGED <<messageId, toContext, aborted>>
      BY <1>1, <2>3 DEF MachineReadsEvent, Mach!HandleContext, Mach!UsbDeviceAdded,
             Mach!UsbDeviceRemoved, Mach!States, Added, Removed
    <2>5. QED
      BY <1>1, <2>1, <2>2, <2>3, <2>4 DEF MachineReadsEvent, Types, FlowTypes, SocketTypes,
         DeviceTypes, flowVars, linkVars, deviceVars
  <1>2. CASE MachineReadsFlow
    <2>1. Tail(toParent) \in Seq(Flow!ParentMessages)
      BY <1>2, TailIsSeq DEF MachineReadsFlow, Types, SocketTypes
    <2>2. toFlow \o Mach!EnableAndAsk \in Seq(FlowMessages)
      <3>1. Mach!EnableAndAsk \in Seq(FlowMessages)
        BY MessageKinds, AskVersionIsSend, PairIsSeq
      <3>2. QED
        BY <3>1, ConcatProperties DEF Types, SocketTypes
    <2>3. /\ state' \in Mach!States /\ aborted' \in BOOLEAN
          /\ toFlow' = toFlow \/ toFlow' = toFlow \o Mach!EnableAndAsk
      BY <1>2 DEF MachineReadsFlow, Mach!HandleFlow, Mach!InitSupported, Mach!InitUnsupported,
             Mach!PushReceived, Mach!DropResponse, Mach!ResponseVersion, Mach!Response,
             Mach!ResponseAborts, Mach!vars, Mach!identity, Types, FlowTypes, DeviceTypes,
             Mach!States
    <2>4. toFlow' \in Seq(FlowMessages)
      BY <2>2, <2>3 DEF Types, SocketTypes
    <2>5. toParent' \in Seq(Flow!ParentMessages)
      BY <1>2, <2>1 DEF MachineReadsFlow
    <2>6. QED
      BY <1>2, <2>3, <2>4, <2>5 DEF MachineReadsFlow, Types, FlowTypes, SocketTypes,
         DeviceTypes, flowVars, linkVars, deviceVars
  <1>3. CASE ClientSends
    <2>1. \A type \in ClientCommands :
          \A size \in IF type \in Planned THEN GcodeSizes ELSE {TextSize(type)} :
              Append(toFlow, Mach!Send(type, size)) \in Seq(FlowMessages)
      <3>1. \A type \in ClientCommands :
            \A size \in IF type \in Planned THEN GcodeSizes ELSE {TextSize(type)} :
                type \in Commands /\ size \in Nat
        BY SMT, CommandAssumption, SizeAssumption DEF TextSize
      <3>2. \A type \in ClientCommands :
            \A size \in IF type \in Planned THEN GcodeSizes ELSE {TextSize(type)} :
                Mach!Send(type, size) \in FlowMessages
        BY <3>1, MessageTypes
      <3>3. QED
        BY <3>2, AppendIsSeq DEF Types, SocketTypes
    <2>2. toFlow' \in Seq(FlowMessages) /\ state' = state /\ aborted' = aborted
      BY <1>3, <2>1 DEF ClientSends, Mach!ForwardGrbl, Types, SocketTypes
    <2>3. QED
      BY <1>3, <2>2 DEF ClientSends, Types, FlowTypes, SocketTypes,
         DeviceTypes, flowVars, linkVars, deviceVars
  <1>4. CASE ContextReads
    BY <1>4 DEF ContextReads, Types, FlowTypes, SocketTypes, DeviceTypes, flowVars, linkVars,
       machineVars, deviceVars
  <1>5. CASE Scan
    <2>1. events' \in Seq({Added, Removed})
      <3>1. [kind |-> IF plugged THEN "USBDeviceAdded" ELSE "USBDeviceRemoved"]
               \in {Added, Removed}
        BY DEF Added, Removed
      <3>2. QED
        BY <1>5, <3>1, AppendIsSeq DEF Scan, Types, SocketTypes
    <2>2. QED
      BY <1>5, <2>1 DEF Scan, Types, FlowTypes, SocketTypes, DeviceTypes, flowVars,
         linkVars, machineVars, deviceVars
  <1>6. QED
    BY <1>1, <1>2, <1>3, <1>4, <1>5

\* FlowControl, on a message of Machine.
LEMMA FlowReadsMachineTypes ==
    ASSUME Types, FlowReadsMachine
    PROVE  Types'
  <1> DEFINE msg == Head(toFlow)
  <1>1. msg \in FlowMessages /\ toFlow' \in Seq(FlowMessages)
    BY TailIsSeq DEF FlowReadsMachine, Types, SocketTypes
  <1>2. /\ UNCHANGED <<machineVars, linkVars, deviceVars, known, events, fromSerial,
                       toContext, input>>
        /\ crossed' \in BOOLEAN
    BY DEF FlowReadsMachine, Types, DeviceTypes
  <1>3. FlowTypes' /\ toParent' \in Seq(Flow!ParentMessages)
        /\ toSerial' \in Seq(Flow!SerialMessages)
    <2>1. CASE msg.kind = "Send" /\ Flow!SendMessage(msg.type, msg.size)
      <3>1. Flow!Arriving(msg.type, msg.size) \in Flow!Request
        BY <1>1, <2>1, MessageKinds, SameTables DEF Flow!Arriving, Flow!Request, Types, FlowTypes
      <3>2. received + 1 \in Nat
        BY DEF Types, FlowTypes
      <3>3. CASE Flow!Refuse(msg.type)
        BY <3>2, <3>3 DEF Flow!Refuse, Flow!Arrive, Flow!queues, Flow!classifier, Flow!sockets,
           Types, FlowTypes, SocketTypes
      <3>4. CASE Flow!PassThrough(msg.type, msg.size)
        <4>1. Flow!Data(Flow!Arriving(msg.type, msg.size)) \in Flow!SerialMessages
          BY <3>1, MessageTypes
        <4>2. toSerial' \in Seq(Flow!SerialMessages)
          BY <3>4, <4>1, AppendIsSeq DEF Flow!PassThrough, Types, SocketTypes
        <4>3. QED
          BY <3>2, <3>4, <4>2 DEF Flow!PassThrough, Flow!Arrive, Flow!queues, Flow!classifier,
             Types, FlowTypes, SocketTypes
      <3>5. CASE Flow!AssertionFails(msg.type, msg.size)
        BY <3>2, <3>5 DEF Flow!AssertionFails, Flow!Arrive, Flow!queues, Flow!classifier,
           Flow!sockets, Types, FlowTypes, SocketTypes
      <3>6. CASE Flow!Enqueue(msg.type, msg.size)
        <4>1. incoming' \in Seq(Flow!Request)
          <5>1. \A entry \in Seq(Flow!Request) :
                    Flow!Placed(msg.type, entry) \in Seq(Flow!Request)
            BY <1>1, <2>1, MessageKinds, ConcatProperties, SMT
               DEF Flow!Placed, Flow!Position, Types, FlowTypes
          <5>2. (IF msg.size > 0 THEN <<Flow!Arriving(msg.type, msg.size)>> ELSE <<>>)
                   \in Seq(Flow!Request)
            BY <3>1, PairIsSeq, EmptySeq
          <5>3. QED
            BY <3>6, <5>1, <5>2 DEF Flow!Enqueue
        <4>2. sending' \in BOOLEAN
          BY <3>6 DEF Flow!Enqueue, Flow!Run
        <4>3. QED
          BY <3>2, <3>6, <4>1, <4>2 DEF Flow!Enqueue, Flow!Arrive, Flow!classifier,
             Flow!sockets, Types, FlowTypes, SocketTypes
      <3>7. QED
        BY <2>1, <3>3, <3>4, <3>5, <3>6 DEF Flow!SendMessage
    <2>2. CASE Flow!EnableFlowControl
      BY <2>2 DEF Flow!EnableFlowControl, Flow!queues, Flow!classifier, Flow!sockets, Types,
         FlowTypes, SocketTypes
    <2>3. CASE msg.kind \in Flow!UsbEvents /\ Flow!Reconnect(msg.kind)
      <3>1. Flow!UsbEvent(msg.kind) \in Flow!SerialMessages
        BY <2>3 DEF Flow!UsbEvent, Flow!SerialMessages
      <3>2. toSerial' \in Seq(Flow!SerialMessages)
        BY <2>3, <3>1, AppendIsSeq DEF Flow!Reconnect, Types, SocketTypes
      <3>3. incoming' \in Seq(Flow!Request) /\ outgoing' \in Seq(Flow!Request) /\ used' \in Int
        <4>1. <<>> \in Seq(Flow!Request) /\ 0 \in Int
          BY EmptySeq
        <4>2. QED
          BY <2>3, <4>1 DEF Flow!Reconnect, Types, FlowTypes
      <3>4. QED
        BY <2>3, <3>2, <3>3 DEF Flow!Reconnect, Flow!classifier, Types, FlowTypes, SocketTypes,
           Flow!UsbEvent
    <2>4. QED
      BY <2>1, <2>2, <2>3 DEF FlowReadsMachine, FlowHandles
  <1>4. QED
    BY <1>1, <1>2, <1>3 DEF Types, SocketTypes, DeviceTypes, machineVars, linkVars, deviceVars

\* FlowControl, on a line of the device.
LEMMA FlowReadsSerialTypes ==
    ASSUME Types, FlowReadsSerial
    PROVE  Types'
  <1> DEFINE line == Head(fromSerial)
  <1>1. line \in Flow!Line /\ fromSerial' \in Seq(Flow!Line)
    BY TailIsSeq DEF FlowReadsSerial, Types, SocketTypes
  <1>2. /\ UNCHANGED <<machineVars, linkVars, deviceVars, known, events, toFlow,
                       toContext, input>>
        /\ crossed' \in BOOLEAN
    BY DEF FlowReadsSerial, Types, DeviceTypes
  <1>3. /\ <<>> \in Seq(Flow!Line) /\ Flow!Buffered(line) \in Seq(Flow!Line)
    <2>1. Append(buffer, line) \in Seq(Flow!Line) /\ <<line>> \in Seq(Flow!Line)
          /\ <<>> \in Seq(Flow!Line)
      BY <1>1, AppendIsSeq, PairIsSeq, EmptySeq DEF Types, FlowTypes
    <2>2. QED
      BY <2>1 DEF Flow!Buffered
  <1>4. FlowTypes' /\ toParent' \in Seq(Flow!ParentMessages)
        /\ toSerial' \in Seq(Flow!SerialMessages)
    <2>1. CASE Flow!ReceiveEmpty(line) \/ Flow!ReceiveMultiline(line) \/ Flow!ReceiveAlarm(line)
      BY <1>3, <2>1 DEF Flow!ReceiveEmpty, Flow!ReceiveMultiline, Flow!ReceiveAlarm,
         Flow!queues, Flow!classifier, Flow!sockets, Types, FlowTypes, SocketTypes
    <2>2. CASE Flow!ReceiveStartup(line) \/ Flow!ReceivePush(line)
      <3>1. toParent' \in Seq(Flow!ParentMessages)
        <4>1. PICK m \in Flow!ParentMessages : toParent' = Append(toParent, m)
          BY <1>1, <2>2, MessageTypes DEF Flow!ReceiveStartup, Flow!ReceivePush
        <4>2. QED
          BY <4>1, AppendIsSeq DEF Types, SocketTypes
      <3>2. QED
        BY <1>3, <2>2, <3>1 DEF Flow!ReceiveStartup, Flow!ReceivePush,
           Flow!queues, Types, FlowTypes, SocketTypes
    <2>3. CASE Flow!ReceiveReply(line)
      <3> DEFINE answered == IF outgoing = <<>> THEN Flow!NoRequest ELSE Head(outgoing)
      <3>1. /\ answered \in Flow!Request \cup {Flow!NoRequest}
            /\ (IF outgoing = <<>> THEN <<>> ELSE Tail(outgoing)) \in Seq(Flow!Request)
        BY TailIsSeq, EmptySeq DEF Types, FlowTypes
      <3>2. Flow!Released(answered) \in Int
        BY <3>1 DEF Flow!Released, Flow!PlannedSize, Flow!Request, Flow!NoRequest
      <3>3. toParent' \in Seq(Flow!ParentMessages)
        BY <1>3, <2>3, <3>1, MessageTypes, AppendIsSeq DEF Flow!ReceiveReply, Types, SocketTypes
      <3>4. used' \in Int /\ outgoing' \in Seq(Flow!Request) /\ sending' \in BOOLEAN
        BY <2>3, <3>1, <3>2 DEF Flow!ReceiveReply, Flow!Run, Types, FlowTypes
      <3>5. QED
        BY <1>3, <2>3, <3>3, <3>4 DEF Flow!ReceiveReply, Types, FlowTypes, SocketTypes
    <2>4. QED
      BY <2>1, <2>2, <2>3 DEF FlowReadsSerial, Flow!ReceiveData
  <1>5. QED
    BY <1>1, <1>2, <1>4 DEF Types, SocketTypes, DeviceTypes, machineVars, linkVars, deviceVars

\* FlowControl transmits a request.  The loop holds one only while it may send.
Loops == sending => Flow!CanSend

LEMMA FlowSendsTypes ==
    ASSUME Types, Loops, FlowSends
    PROVE  Types'
  <1>1. /\ UNCHANGED <<machineVars, linkVars, deviceVars, crossed, known, events, toFlow,
                       fromSerial, toContext, input>>
        /\ sending /\ incoming # <<>>
    BY DEF FlowSends, Loops, Flow!CanSend, Flow!Loop, Flow!SendRequest, Flow!SendReset
  <1>2. Head(incoming) \in Flow!Request /\ Tail(incoming) \in Seq(Flow!Request)
    BY <1>1, TailIsSeq DEF Types, FlowTypes
  <1>3. Flow!Data(Head(incoming)) \in Flow!SerialMessages
        /\ Flow!PlannedSize(Head(incoming)) \in Nat
    BY <1>2, MessageTypes DEF Flow!PlannedSize, Flow!Request
  <1>4. Append(toSerial, Flow!Data(Head(incoming))) \in Seq(Flow!SerialMessages)
        /\ Append(outgoing, Head(incoming)) \in Seq(Flow!Request)
    BY <1>2, <1>3, AppendIsSeq DEF Types, FlowTypes, SocketTypes
  <1>5. FlowTypes' /\ toParent' \in Seq(Flow!ParentMessages)
        /\ toSerial' \in Seq(Flow!SerialMessages)
    <2>1. CASE Flow!SendRequest
      <3>1. used' \in Int
        BY <1>3, <2>1 DEF Flow!SendRequest, Types, FlowTypes
      <3>2. mode' \in {"Normal", "Help"}
        BY <2>1 DEF Flow!SendRequest, Types, FlowTypes
      <3>3. /\ sending' \in BOOLEAN /\ incoming' \in Seq(Flow!Request)
            /\ toSerial' \in Seq(Flow!SerialMessages)
            /\ UNCHANGED <<active, alarm, buffer, received, toParent, aborted>>
        BY <1>2, <1>4, <2>1 DEF Flow!SendRequest, Flow!CanSend
      <3>4. outgoing' \in Seq(Flow!Request) /\ realtime' \in Flow!Request \cup {Flow!NoRequest}
        BY <1>2, <1>4, <2>1 DEF Flow!SendRequest, Types, FlowTypes
      <3>5. QED
        BY <3>1, <3>2, <3>3, <3>4 DEF Types, FlowTypes, SocketTypes
    <2>2. CASE Flow!SendReset
      <3>1. <<>> \in Seq(Flow!Request) /\ 0 \in Int
        BY EmptySeq
      <3>2. QED
        BY <1>4, <2>2, <3>1 DEF Flow!SendReset, Flow!classifier, Types, FlowTypes, SocketTypes
    <2>3. QED
      BY <2>1, <2>2 DEF FlowSends, Flow!Loop
  <1>6. QED
    BY <1>1, <1>5 DEF Types, SocketTypes, DeviceTypes, machineVars, linkVars, deviceVars

\* SerialConnection.
LEMMA SerialTypes ==
    ASSUME Types, SerialReadsFlow
    PROVE  Types'
  <1> DEFINE msg == Head(toSerial)
  <1>1. msg \in Flow!SerialMessages /\ toSerial' \in Seq(Flow!SerialMessages)
    BY TailIsSeq DEF SerialReadsFlow, Types, SocketTypes
  <1>2. /\ port' \in {"closed", "open", "dead"} /\ (port' = "open" => plugged)
        /\ input' \in Seq(Flow!Request) /\ booting' \in BOOLEAN /\ aborted' \in BOOLEAN
        /\ UNCHANGED <<cut, fromSerial>>
    <2>1. CASE msg.kind = "Data" /\ Link!Transmit(msg.request) /\ UNCHANGED booting
      <3>1. Append(input, msg.request) \in Seq(Flow!Request)
        BY <1>1, <2>1, MessageKinds, AppendIsSeq DEF Types, DeviceTypes
      <3>2. QED
        BY <2>1, <3>1 DEF Link!Transmit, Types, FlowTypes, DeviceTypes
    <2>2. CASE Link!Connect(plugged) /\ booting' = plugged
      BY <2>2 DEF Link!Connect, Types, FlowTypes, DeviceTypes
    <2>3. CASE Link!Disconnect /\ UNCHANGED booting
      BY <2>3 DEF Link!Disconnect, Types, FlowTypes, DeviceTypes
    <2>4. QED
      BY <2>1, <2>2, <2>3 DEF SerialReadsFlow, SerialHandles
  <1>3. QED
    BY <1>1, <1>2 DEF SerialReadsFlow, Types, FlowTypes, SocketTypes, DeviceTypes, flowVars,
       machineVars

\* A line of the device.
LEMMA PrintsTypes ==
    ASSUME Types, NEW kind \in Flow!LineKinds, NEW tag \in Nat, Prints(kind, tag)
    PROVE  /\ fromSerial' \in Seq(Flow!Line) /\ FlowTypes' /\ SocketTypes'
           /\ cut' = FALSE
           /\ UNCHANGED <<state, port, crossed, known, plugged, banner, unseen>>
  <1>1. [kind |-> kind, tag |-> tag] \in Flow!Line
        /\ Link!Garbled([kind |-> kind, tag |-> tag]) \in Flow!Line
    BY DEF Flow!Line, Flow!LineKinds, Link!Garbled
  <1>2. fromSerial' \in Seq(Flow!Line)
    <2>1. PICK line \in Flow!Line : fromSerial' = Append(fromSerial, line)
      BY <1>1 DEF Prints, Link!Flush
    <2>2. QED
      BY <2>1, AppendIsSeq DEF Types, SocketTypes
  <1>3. QED
    BY <1>2 DEF Prints, Link!Flush, Types, FlowTypes, SocketTypes, flowVars, machineVars

\* The device, and its plug.
LEMMA DeviceKeepsTypes ==
    ASSUME Types, Device
    PROVE  Types'
  <1>0. /\ <<>> \in Seq(Flow!Request)
        /\ {"status", "text", "reply"} \subseteq Flow!LineKinds /\ Banners \subseteq Flow!LineKinds
        /\ Announcements \subseteq Flow!LineKinds /\ 0 \in Nat
        /\ Flow!LineKinds \subseteq Flow!LineKinds
    BY EmptySeq, DeviceAssumption DEF Flow!LineKinds
  <1>1. CASE DeviceBoots
    <2>1. banner \in Flow!LineKinds /\ Prints(banner, 0)
      BY <1>0, <1>1 DEF DeviceBoots, Prints, Link!Flush, Types, DeviceTypes
    <2>2. QED
      BY <1>0, <1>1, <2>1, PrintsTypes DEF DeviceBoots, Types, DeviceTypes
  <1>2. CASE DeviceRestarts
    BY <1>2 DEF DeviceRestarts, Types, FlowTypes, SocketTypes, DeviceTypes, flowVars, machineVars,
       linkVars
  <1>3. ASSUME NEW i \in 1..Len(input), TakesRealtime(i)
        PROVE  input' \in Seq(Flow!Request)
    <2>1. /\ SubSeq(input, 1, i - 1) \in Seq(Flow!Request)
          /\ SubSeq(input, i + 1, Len(input)) \in Seq(Flow!Request)
      BY SubSeqProperties, LenProperties DEF Types, DeviceTypes
    <2>2. QED
      BY <1>3, <2>1, ConcatProperties DEF TakesRealtime
  <1>4. CASE DeviceReports
    <2>1. input' \in Seq(Flow!Request) /\ "status" \in Flow!LineKinds /\ 0 \in Nat
      BY <1>0, <1>3, <1>4 DEF DeviceReports
    <2>2. QED
      BY <1>4, <2>1, PrintsTypes DEF DeviceReports, Types, DeviceTypes
  <1>5. CASE DeviceObeys
    <2>1. PICK i \in 1..Len(input) :
                 /\ TakesRealtime(i)
                 /\ booting' = (RealtimeByte(input[i].type) = ResetByte)
      BY <1>5 DEF DeviceObeys
    <2>2. input' \in Seq(Flow!Request) /\ booting' \in BOOLEAN
      BY <1>3, <2>1
    <2>3. QED
      BY <1>5, <2>2 DEF DeviceObeys, Types, FlowTypes, SocketTypes, DeviceTypes, flowVars,
         machineVars, linkVars
  <1>6. input # <<>> => Head(input).tag \in Nat /\ Tail(input) \in Seq(Flow!Request)
    <2>1. input # <<>> => Head(input) \in Flow!Request /\ Tail(input) \in Seq(Flow!Request)
      BY TailIsSeq DEF Types, DeviceTypes
    <2>2. QED
      BY <2>1 DEF Flow!Request
  <1>7. CASE DeviceStartsReply
    BY <1>0, <1>6, <1>7, PrintsTypes DEF DeviceStartsReply, Types, DeviceTypes
  <1>8. CASE DeviceReplies
    BY <1>0, <1>6, <1>8, PrintsTypes DEF DeviceReplies, Types, DeviceTypes
  <1>9. CASE DeviceSpeaks
    <2>1. PICK kind \in Announcements : Prints(kind, 0) /\ locked' = (locked \/ kind = "alarm")
      BY <1>9 DEF DeviceSpeaks
    <2>2. QED
      BY <1>0, <1>9, <2>1, PrintsTypes DEF DeviceSpeaks, Types, DeviceTypes
  <1>10. QED
    BY <1>1, <1>2, <1>4, <1>5, <1>7, <1>8, <1>9 DEF Device

LEMMA PlugTypes ==
    ASSUME Types, Plug \/ Unplug
    PROVE  Types'
  <1>1. CASE Plug
    BY <1>1, DeviceAssumption DEF Plug, Types, FlowTypes, SocketTypes, DeviceTypes, flowVars,
       machineVars, linkVars
  <1>2. CASE Unplug
    <2>1. <<>> \in Seq(Flow!Request)
      BY EmptySeq
    <2>2. port' \in {"closed", "dead"} /\ cut' \in BOOLEAN
      BY <1>2 DEF Unplug, Link!Lose, Types, DeviceTypes
    <2>3. FlowTypes' /\ SocketTypes'
      BY <1>2 DEF Unplug, Link!Lose, Types, FlowTypes, SocketTypes, flowVars
    <2>4. QED
      BY <1>2, <2>1, <2>2, <2>3 DEF Unplug, Link!Lose, Types, DeviceTypes, machineVars
  <1>3. QED
    BY <1>1, <1>2

\* The loop of run() holds a request only while it may send it.
LEMMA LoopsStep ==
    ASSUME Types, Loops, [Next]_vars
    PROVE  Loops'
  <1>1. CASE UNCHANGED <<sending, incoming, outgoing, used, realtime>>
    BY <1>1 DEF Loops, Flow!CanSend
  <1>2. CASE FlowReadsMachine
    BY <1>2 DEF FlowReadsMachine, FlowHandles, Flow!SendMessage, Flow!Refuse, Flow!PassThrough,
       Flow!AssertionFails, Flow!Enqueue, Flow!Run, Flow!Reconnect, Flow!EnableFlowControl,
       Flow!Queues, Flow!Accepts, Flow!Ready, Loops, Types, FlowTypes
  <1>3. CASE FlowReadsSerial
    BY <1>3 DEF FlowReadsSerial, Flow!ReceiveData, Flow!ReceiveEmpty, Flow!ReceiveStartup,
       Flow!ReceivePush, Flow!ReceiveMultiline, Flow!ReceiveAlarm, Flow!ReceiveReply, Flow!Run,
       Flow!Ready, Loops, Types, FlowTypes
  <1>4. CASE FlowSends
    BY <1>4 DEF FlowSends, Flow!Loop, Flow!SendRequest, Flow!SendReset, Loops
  <1>5. CASE Device
    <2>1. UNCHANGED flowVars
      BY <1>5 DEF Device, DeviceBoots, DeviceRestarts, DeviceReports, DeviceObeys,
         DeviceStartsReply, DeviceReplies, DeviceSpeaks, Prints
    <2>2. QED
      BY <1>1, <2>1 DEF flowVars
  <1>6. CASE UNCHANGED vars
    BY <1>1, <1>6 DEF vars, flowVars
  <1>7. CASE \/ MachineReadsEvent \/ MachineReadsFlow \/ ClientSends \/ ContextReads
             \/ Scan \/ SerialReadsFlow \/ Plug \/ Unplug
    <2>1. UNCHANGED flowVars
      BY <1>7 DEF MachineReadsEvent, MachineReadsFlow, ClientSends, ContextReads, Scan,
         SerialReadsFlow, Plug, Unplug
    <2>2. QED
      BY <1>1, <2>1 DEF flowVars
  <1>8. QED
    BY <1>2, <1>3, <1>4, <1>5, <1>6, <1>7 DEF Next, Actors

LEMMA TypesStep ==
    ASSUME Types, Loops, [Next]_vars
    PROVE  Types'
  <1>1. CASE UNCHANGED vars
    BY <1>1 DEF vars, flowVars, machineVars, linkVars, deviceVars, Types, FlowTypes,
       SocketTypes, DeviceTypes
  <1>2. CASE Next
    BY <1>2, MachineTypes, FlowReadsMachineTypes, FlowReadsSerialTypes, FlowSendsTypes,
       SerialTypes, DeviceKeepsTypes, PlugTypes DEF Next, Actors
  <1>3. QED
    BY <1>1, <1>2

\* Every member and every queued message keeps its type, and the loop of run() its
\* condition, whatever the device prints and wherever it is unplugged.
THEOREM SessionTypes == Spec => [](Types /\ Loops)
  <1>1. Init => Types /\ Loops
    BY InitTypes DEF Init, Flow!Init, Loops
  <1>2. Types /\ Loops /\ [Next]_vars => (Types /\ Loops)'
    BY TypesStep, LoopsStep
  <1>3. QED
    BY <1>1, <1>2, PTL DEF Spec

-----------------------------------------------------------------------------
(* The session follows the USB events: the inductive invariant *)

Came        == <<Added>>
Left        == <<Removed>>
CameAndLeft == <<Added, Removed>>

HasAdded(queue)   == Holds(queue, {Added})
HasRemoved(queue) == Holds(queue, {Removed})
DataMessages      == {m \in Flow!SerialMessages : m.kind = "Data"}
AlarmLines        == {line \in Flow!Line : line.kind = "alarm"}
GrblLines         == {line \in Flow!Line : line.kind = "grbl"}
Identifications   == {m \in Flow!ParentMessages :
                          m.kind = "InitGrbl" /\ ~Mach!Unsupported(m.version)}

\* FlowControl holds no request.
Cleared == incoming = <<>> /\ outgoing = <<>> /\ used = 0 /\ ~sending

\* Nothing has come from the device since it was plugged in.
Untouched == toParent = <<>> /\ fromSerial = <<>> /\ port # "open"

\* The n-th message of the queue asks for the version, or is followed by it.
Asks(queue, n)    == n \in 1..Len(queue) /\ queue[n] = AskVersion
Enables(queue, n) == n \in 1..Len(queue) /\ queue[n] = Enable /\ Asks(queue, n + 1)
Reasks(queue)     == \E n \in 1..Len(queue) : queue[n] = Removed /\ Enables(queue, n + 1)

\* A request is bound to reach SerialConnection.
Doomed ==
    \/ Holds(toSerial, DataMessages)
    \/ sending
    \/ Cleared /\ active /\ Asks(toFlow, 1)
    \/ Cleared /\ Enables(toFlow, 1)
    \/ Reasks(toFlow)

Basics ==
    /\ ~alarm /\ ~Holds(fromSerial, AlarmLines)
    /\ ~active => Cleared
    /\ ~plugged => port # "open"
    /\ port # "open" => input = <<>>

\* No removal is on its way while the device is there, or the scan believes so.
NoRemoval == plugged \/ known =>
    ~HasRemoved(events) /\ ~HasRemoved(toFlow) /\ ~HasRemoved(toSerial)

\* The last event says what the last scan saw, and a removal by itself finds the
\* machine connected.
LastEvent ==
    /\ events \in {<<>>, Came, Left, CameAndLeft}
    /\ events # <<>> => EndsWith(events, IF known THEN Added ELSE Removed)
    /\ events = Left => state # "Disconnected"

\* Between plugging in and the state Connected the actors rest.
NotYet == (plugged /\ ~known) \/ HasAdded(events) =>
    /\ state = "Disconnected" /\ toFlow = <<>> /\ toSerial = <<>>
    /\ Cleared /\ Untouched

\* The event finds FlowControl at rest, and SerialConnection too.
AddedInFlow == HasAdded(toFlow) =>
    /\ \/ toFlow = Came /\ state = "Connected"
       \/ toFlow = CameAndLeft /\ state = "Disconnected"
    /\ toSerial = <<>> /\ Cleared /\ Untouched

AddedInSerial == HasAdded(toSerial) =>
    /\ \/ toSerial = Came /\ toFlow = <<>> /\ state = "Connected"
       \/ toSerial = Came /\ toFlow = Left /\ state = "Disconnected"
       \/ toSerial = CameAndLeft /\ toFlow = <<>> /\ state = "Disconnected"
    /\ Cleared /\ Untouched

\* Nothing is sent to a device that has not said what it is.
ConnectedIsIdle == state = "Connected" =>
    /\ Cleared /\ input = <<>> /\ ~Holds(toSerial, DataMessages)
    /\ toFlow \in {<<>>, Came}

\* After the last removal nothing is left in FlowControl, or the removal is
\* still before it.
DisconnectedIsIdle == state = "Disconnected" =>
    \/ toFlow = <<>> /\ Cleared
    \/ EndsWith(toFlow, Removed)

\* The state agrees with the last scan, or the process is bound to end: a startup
\* line that is handled after the removal has a request written to no port.
StateFollows == events = <<>> =>
    \/ state # "Disconnected" <=> known
    \/ state # "Disconnected" /\ ~known /\ ~plugged /\ Doomed

\* The port is open, or the event that opens it is on its way.
PortFollows == plugged /\ known /\ ~unseen =>
    port = "open" \/ HasAdded(events) \/ HasAdded(toFlow) \/ HasAdded(toSerial)

\* A device that was away between two scans has the dead port of its former self.
UnseenHasNoPort == plugged /\ unseen =>
    /\ known /\ port # "open"
    /\ ~HasAdded(events) /\ ~HasAdded(toFlow) /\ ~HasAdded(toSerial)

\* An old device never gets past the state Connected.
OldIsRefused == banner = "oldGrbl" /\ ~unseen =>
    /\ state \in {"Disconnected", "Connected"}
    /\ ~Holds(fromSerial, GrblLines) /\ ~Holds(toParent, Identifications)

PortKnown == known =>
    port # "closed" \/ HasAdded(events) \/ HasAdded(toFlow) \/ HasAdded(toSerial)

UsbInv ==
    /\ Basics /\ NoRemoval /\ LastEvent /\ NotYet /\ AddedInFlow /\ AddedInSerial
    /\ ConnectedIsIdle /\ DisconnectedIsIdle /\ StateFollows /\ PortFollows
    /\ UnseenHasNoPort /\ OldIsRefused /\ PortKnown

-----------------------------------------------------------------------------
(* The queues of the invariant *)

LEMMA SmallQueues ==
    /\ Came # <<>> /\ Left # <<>> /\ CameAndLeft # <<>>
    /\ Came # Left /\ Came # CameAndLeft /\ Left # CameAndLeft
    /\ Came = Append(<<>>, Added) /\ Left = Append(<<>>, Removed)
    /\ CameAndLeft = Append(Came, Removed)
    /\ Head(Came) = Added /\ Head(Left) = Removed /\ Head(CameAndLeft) = Added
    /\ Tail(Came) = <<>> /\ Tail(Left) = <<>> /\ Tail(CameAndLeft) = Left
    /\ HasAdded(Came) /\ ~HasAdded(Left) /\ HasAdded(CameAndLeft) /\ ~HasAdded(<<>>)
    /\ ~HasRemoved(Came) /\ HasRemoved(Left) /\ HasRemoved(CameAndLeft) /\ ~HasRemoved(<<>>)
    /\ \A e : EndsWith(Came, e) <=> e = Added
    /\ \A e : EndsWith(Left, e) <=> e = Removed
    /\ \A e : EndsWith(CameAndLeft, e) <=> e = Removed
    /\ Added # Removed /\ Added # Enable /\ Removed # Enable
    /\ AskVersion # Added /\ AskVersion # Removed /\ AskVersion # Enable
  <1>1. Added # Removed
    BY DEF Added, Removed
  <1>2. Added # Enable /\ Removed # Enable
    BY DEF Added, Removed, Enable
  <1>3. AskVersion # Added /\ AskVersion # Removed /\ AskVersion # Enable
    <2>1. AskVersion.kind = "Send" /\ Added.kind = "USBDeviceAdded"
          /\ Removed.kind = "USBDeviceRemoved" /\ Enable.kind = "EnableFlowControl"
      BY DEF AskVersion, Added, Removed, Enable
    <2>2. QED
      BY <2>1
  <1>4. /\ Came # <<>> /\ Left # <<>> /\ CameAndLeft # <<>>
        /\ Came # Left /\ Came # CameAndLeft /\ Left # CameAndLeft
    BY <1>1 DEF Came, Left, CameAndLeft
  <1>5. /\ Came = Append(<<>>, Added) /\ Left = Append(<<>>, Removed)
        /\ CameAndLeft = Append(Came, Removed)
        /\ Head(Came) = Added /\ Head(Left) = Removed /\ Head(CameAndLeft) = Added
        /\ Tail(Came) = <<>> /\ Tail(Left) = <<>> /\ Tail(CameAndLeft) = Left
    BY DEF Came, Left, CameAndLeft
  <1>6. /\ HasAdded(Came) /\ ~HasAdded(Left) /\ HasAdded(CameAndLeft) /\ ~HasAdded(<<>>)
        /\ ~HasRemoved(Came) /\ HasRemoved(Left) /\ HasRemoved(CameAndLeft)
        /\ ~HasRemoved(<<>>)
    <2>1. \A T, a : Holds(<<a>>, T) <=> a \in T
      BY HoldsOfPair
    <2>2. \A T, a, b : Holds(<<a, b>>, T) <=> a \in T \/ b \in T
      BY HoldsOfPair
    <2>3. QED
      BY <1>1, <2>1, <2>2, HoldsOfEmpty DEF Came, Left, CameAndLeft, HasAdded, HasRemoved
  <1>7. /\ \A e : EndsWith(Came, e) <=> e = Added
        /\ \A e : EndsWith(Left, e) <=> e = Removed
        /\ \A e : EndsWith(CameAndLeft, e) <=> e = Removed
    BY <1>4 DEF Came, Left, CameAndLeft, EndsWith
  <1>8. QED
    BY <1>1, <1>2, <1>3, <1>4, <1>5, <1>6, <1>7

\* A message more in the queue to FlowControl.
LEMMA FlowAppends ==
    \A s \in Seq(FlowMessages) : \A e \in FlowMessages :
        LET t == Append(s, e) IN
        /\ t \in Seq(FlowMessages) /\ t # <<>>
        /\ HasAdded(t) <=> HasAdded(s) \/ e = Added
        /\ HasRemoved(t) <=> HasRemoved(s) \/ e = Removed
        /\ \A x : EndsWith(t, x) <=> x = e
        /\ Asks(s, 1) => Asks(t, 1)
        /\ Enables(s, 1) => Enables(t, 1)
        /\ Reasks(s) => Reasks(t)
        /\ s = <<>> => (Asks(t, 1) <=> e = AskVersion)
  <1> TAKE s \in Seq(FlowMessages)
  <1> TAKE e \in FlowMessages
  <1> DEFINE t == Append(s, e)
  <1>1. /\ t \in Seq(FlowMessages) /\ t # <<>>
        /\ Len(t) = Len(s) + 1 /\ Len(s) \in Nat
        /\ \A i \in 1..Len(s) : t[i] = s[i]
        /\ t[Len(s) + 1] = e
    BY AppendIsSeq, LenProperties
  <1>2. /\ HasAdded(t) <=> HasAdded(s) \/ e = Added
        /\ HasRemoved(t) <=> HasRemoved(s) \/ e = Removed
    <2>1. HasAdded(t) <=> HasAdded(s) \/ e \in {Added}
      BY HoldsOfAppend DEF HasAdded
    <2>2. HasRemoved(t) <=> HasRemoved(s) \/ e \in {Removed}
      BY HoldsOfAppend DEF HasRemoved
    <2>3. QED
      BY <2>1, <2>2
  <1>3. \A x : EndsWith(t, x) <=> x = e
    BY EndOfAppend
  <1>4. s = <<>> => Len(s) = 0
    OBVIOUS
  <1> HIDE DEF t
  <1>5. \A n : Asks(s, n) => Asks(t, n)
    BY <1>1 DEF Asks
  <1>6. \A n \in Nat : Enables(s, n) => Enables(t, n)
    BY <1>1, <1>5 DEF Enables
  <1>7. Reasks(s) => Reasks(t)
    BY <1>1, <1>6 DEF Reasks
  <1>8. s = <<>> => (Asks(t, 1) <=> e = AskVersion)
    BY <1>1, <1>4 DEF Asks
  <1>9. QED
    BY <1>1, <1>2, <1>3, <1>5, <1>6, <1>7, <1>8 DEF t

\* FlowControl reads a message.
LEMMA FlowTails ==
    \A s \in Seq(FlowMessages) : s # <<>> =>
        /\ Head(s) \in FlowMessages /\ Tail(s) \in Seq(FlowMessages)
        /\ HasAdded(s) <=> Head(s) = Added \/ HasAdded(Tail(s))
        /\ HasRemoved(s) <=> Head(s) = Removed \/ HasRemoved(Tail(s))
        /\ \A x : EndsWith(s, x) <=> \/ Tail(s) = <<>> /\ x = Head(s)
                                     \/ EndsWith(Tail(s), x)
        /\ Asks(s, 1) => Head(s) = AskVersion
        /\ Enables(s, 1) => Head(s) = Enable /\ Asks(Tail(s), 1)
        /\ Reasks(s) => \/ Reasks(Tail(s))
                        \/ Head(s) = Removed /\ Enables(Tail(s), 1)
  <1> TAKE s \in Seq(FlowMessages)
  <1> HAVE s # <<>>
  <1> DEFINE t == Tail(s)
  <1>1. /\ Head(s) \in FlowMessages /\ t \in Seq(FlowMessages) /\ Len(t) = Len(s) - 1
        /\ Len(s) \in Nat /\ Len(s) > 0 /\ Head(s) = s[1]
        /\ \A i \in 1..(Len(s) - 1) : t[i] = s[i + 1]
    BY TailIsSeq
  <1>2. /\ HasAdded(s) <=> Head(s) = Added \/ HasAdded(t)
        /\ HasRemoved(s) <=> Head(s) = Removed \/ HasRemoved(t)
    BY HoldsOfTail DEF HasAdded, HasRemoved
  <1>3. \A x : EndsWith(s, x) <=> \/ t = <<>> /\ x = Head(s)
                                  \/ EndsWith(t, x)
    BY EndOfTail
  <1> HIDE DEF t
  <1>4. Asks(s, 1) => Head(s) = AskVersion
    BY <1>1 DEF Asks
  <1>5. \A n \in Nat : n >= 1 /\ Asks(s, n + 1) => Asks(t, n)
    BY <1>1 DEF Asks
  <1>6. Enables(s, 1) => Head(s) = Enable /\ Asks(t, 1)
    BY <1>1, <1>5 DEF Enables
  <1>7. \A n \in Nat : n >= 1 /\ Enables(s, n + 1) => Enables(t, n)
    <2> SUFFICES ASSUME NEW n \in Nat, n >= 1, Enables(s, n + 1) PROVE Enables(t, n)
      OBVIOUS
    <2>1. n + 1 \in 1..Len(s) /\ s[n + 1] = Enable /\ Asks(s, (n + 1) + 1)
      BY DEF Enables
    <2>2. n \in 1..(Len(s) - 1) /\ n + 1 \in Nat /\ n + 1 >= 1
      BY <1>1, <2>1
    <2>3. Asks(t, n + 1)
      BY <1>5, <2>1, <2>2
    <2>4. t[n] = Enable
      BY <1>1, <2>1, <2>2
    <2>5. QED
      BY <1>1, <2>2, <2>3, <2>4 DEF Enables
  <1>8. ASSUME Reasks(s) PROVE Reasks(t) \/ (Head(s) = Removed /\ Enables(t, 1))
    <2>1. PICK n \in 1..Len(s) : s[n] = Removed /\ Enables(s, n + 1)
      BY <1>8 DEF Reasks
    <2>2. n \in Nat /\ n >= 1 /\ Enables(t, n)
      BY <1>1, <1>7, <2>1
    <2>3. CASE n = 1
      BY <1>1, <2>1, <2>2, <2>3
    <2>4. CASE n # 1
      <3>1. n - 1 \in 1..(Len(s) - 1) /\ (n - 1) + 1 = n
        BY <1>1, <2>1, <2>4
      <3>2. t[n - 1] = s[n]
        BY <1>1, <3>1
      <3>3. QED
        BY <1>1, <2>1, <2>2, <3>1, <3>2 DEF Reasks
    <2>5. QED
      BY <2>3, <2>4
  <1>9. QED
    BY <1>1, <1>2, <1>3, <1>4, <1>6, <1>8 DEF t

\* Machine enables flow control and asks for the version.
LEMMA FlowAsked ==
    \A s \in Seq(FlowMessages) :
        LET t == s \o Mach!EnableAndAsk IN
        /\ t \in Seq(FlowMessages) /\ t # <<>>
        /\ HasAdded(t) <=> HasAdded(s)
        /\ HasRemoved(t) <=> HasRemoved(s)
        /\ Asks(s, 1) => Asks(t, 1)
        /\ Enables(s, 1) \/ s = <<>> => Enables(t, 1)
        /\ Reasks(s) \/ EndsWith(s, Removed) => Reasks(t)
  <1> TAKE s \in Seq(FlowMessages)
  <1> DEFINE r == Append(s, Enable)
             t == Append(r, AskVersion)
  <1>1. s \o Mach!EnableAndAsk = t
    BY AskVersionIsSend
  <1>2. Enable \in FlowMessages /\ AskVersion \in FlowMessages
    BY MessageKinds, AskVersionIsSend
  <1>3. /\ r \in Seq(FlowMessages) /\ Len(r) = Len(s) + 1 /\ Len(s) \in Nat
        /\ \A i \in 1..Len(s) : r[i] = s[i]
        /\ r[Len(s) + 1] = Enable
    BY <1>2, AppendIsSeq, LenProperties
  <1>4. /\ HasAdded(r) <=> HasAdded(s)
        /\ HasRemoved(r) <=> HasRemoved(s)
        /\ Asks(s, 1) => Asks(r, 1)
        /\ Enables(s, 1) => Enables(r, 1)
        /\ Reasks(s) => Reasks(r)
    BY <1>2, FlowAppends, SmallQueues
  <1> HIDE DEF r
  <1>5. /\ t \in Seq(FlowMessages) /\ t # <<>>
        /\ HasAdded(t) <=> HasAdded(r)
        /\ HasRemoved(t) <=> HasRemoved(r)
        /\ Asks(r, 1) => Asks(t, 1)
        /\ Enables(r, 1) => Enables(t, 1)
        /\ Reasks(r) => Reasks(t)
    BY <1>2, <1>3, FlowAppends, SmallQueues
  <1>6. /\ Len(t) = Len(s) + 2
        /\ \A i \in 1..Len(s) : t[i] = s[i]
        /\ t[Len(s) + 1] = Enable /\ t[Len(s) + 2] = AskVersion
    <2>1. Len(t) = Len(r) + 1 /\ (\A i \in 1..Len(r) : t[i] = r[i])
          /\ t[Len(r) + 1] = AskVersion
      BY <1>2, <1>3, AppendIsSeq
    <2>2. QED
      BY <1>3, <2>1
  <1> HIDE DEF t
  <1>7. Enables(t, Len(s) + 1)
    <2>1. (Len(s) + 1) + 1 = Len(s) + 2 /\ Len(s) + 1 \in 1..Len(t) /\ Len(s) + 2 \in 1..Len(t)
      BY <1>3, <1>6
    <2>2. QED
      BY <1>6, <2>1 DEF Enables, Asks
  <1>8. s = <<>> => Enables(t, 1)
    BY <1>7, EmptySeq
  <1>9. EndsWith(s, Removed) => Reasks(t)
    <2> SUFFICES ASSUME EndsWith(s, Removed) PROVE Reasks(t)
      OBVIOUS
    <2>1. Len(s) \in 1..Len(s) /\ Len(s) \in 1..Len(t)
      BY <1>3, <1>6, EmptySeq DEF EndsWith
    <2>2. t[Len(s)] = Removed
      BY <1>6, <2>1 DEF EndsWith
    <2>3. QED
      BY <1>7, <2>1, <2>2 DEF Reasks
  <1>10. QED
    BY <1>1, <1>4, <1>5, <1>8, <1>9

LEMMA EmptyQueues ==
    /\ \A T : ~Holds(<<>>, T)
    /\ ~HasAdded(<<>>) /\ ~HasRemoved(<<>>)
    /\ \A e : ~EndsWith(<<>>, e)
    /\ \A n : ~Asks(<<>>, n) /\ ~Enables(<<>>, n)
    /\ ~Reasks(<<>>)
  <1>1. Len(<<>>) = 0 /\ 1..0 = {}
    OBVIOUS
  <1>2. QED
    BY <1>1, HoldsOfEmpty, SmallQueues DEF EndsWith, Asks, Enables, Reasks

-----------------------------------------------------------------------------
(* One lemma per step.  The premise says that devices announce no alarm. *)

NoAlarms == "alarm" \notin Announcements

LEMMA UsbInit == Init => UsbInv
  <1> SUFFICES ASSUME Init PROVE UsbInv
    OBVIOUS
  <1>1. QED
    BY EmptyQueues, SmallQueues DEF Init, Flow!Init, Mach!Init, Link!Init, UsbInv, Basics,
       NoRemoval, LastEvent, NotYet, AddedInFlow, AddedInSerial, ConnectedIsIdle,
       DisconnectedIsIdle, StateFollows, PortFollows, UnseenHasNoPort, OldIsRefused, PortKnown,
       Cleared, Untouched

\* Machine handles a USB event.
LEMMA UsbMachineReadsEvent ==
    ASSUME Types, UsbInv, ~aborted, ~aborted', MachineReadsEvent
    PROVE  UsbInv'
  <1>1. /\ UNCHANGED <<alarm, active, incoming, outgoing, used, sending, toParent, toSerial,
                       fromSerial, port, input, plugged, banner, known, unseen>>
        /\ events' = Tail(events)
        /\ events \in {Came, Left, CameAndLeft}
    BY DEF MachineReadsEvent, flowVars, linkVars, deviceVars, UsbInv, LastEvent
  <1>2. CASE Head(events) = Added
    <2>1. events # Left /\ HasAdded(events)
      BY <1>1, <1>2, SmallQueues
    <2>2. state = "Disconnected" /\ toFlow = <<>> /\ toSerial = <<>> /\ Cleared /\ Untouched
      BY <2>1 DEF UsbInv, NotYet
    <2>3. state' = "Connected" /\ toFlow' = Came
      BY <1>2, <2>2, SmallQueues DEF MachineReadsEvent, Mach!HandleContext, Mach!UsbDeviceAdded,
         Mach!UsbDeviceRemoved, Added
    <2>4. QED
      BY <1>1, <1>2, <2>1, <2>2, <2>3, SmallQueues, EmptyQueues DEF UsbInv, Basics,
         NoRemoval, LastEvent, NotYet, AddedInFlow, AddedInSerial, ConnectedIsIdle,
         DisconnectedIsIdle, StateFollows, PortFollows, UnseenHasNoPort, OldIsRefused, PortKnown,
         Cleared, Untouched
  <1>3. CASE Head(events) = Removed
    <2>1. events = Left /\ ~plugged /\ ~known /\ state # "Disconnected"
      BY <1>1, <1>3, SmallQueues DEF UsbInv, LastEvent, NoRemoval
    <2>2. state' = "Disconnected" /\ toFlow' = Append(toFlow, Removed)
      BY <1>3 DEF MachineReadsEvent, Mach!HandleContext, Mach!UsbDeviceAdded,
         Mach!UsbDeviceRemoved, Removed
    <2>3. /\ EndsWith(toFlow', Removed) /\ toFlow' # <<>>
          /\ HasAdded(toFlow') <=> HasAdded(toFlow)
      BY <2>2, FlowAppends, MessageKinds, SmallQueues DEF Types, SocketTypes
    <2>4. toFlow = <<>> => toFlow' = Left
      BY <2>2, SmallQueues
    <2>5. toFlow = Came => toFlow' = CameAndLeft
      BY <2>2, SmallQueues
    <2>6. QED
      BY <1>1, <1>3, <2>1, <2>2, <2>3, <2>4, <2>5, SmallQueues, EmptyQueues DEF UsbInv, Basics,
         NoRemoval, LastEvent, NotYet, AddedInFlow, AddedInSerial, ConnectedIsIdle,
         DisconnectedIsIdle, StateFollows, PortFollows, UnseenHasNoPort, OldIsRefused, PortKnown,
         Cleared, Untouched
  <1>4. QED
    BY <1>1, <1>2, <1>3, SmallQueues

\* Machine handles a message of FlowControl.
LEMMA UsbMachineReadsFlow ==
    ASSUME Types, UsbInv, ~aborted, ~aborted', MachineReadsFlow
    PROVE  UsbInv'
  <1>1. /\ UNCHANGED <<alarm, active, incoming, outgoing, used, sending, toSerial,
                       fromSerial, port, input, plugged, banner, known, unseen, events>>
        /\ toParent # <<>> /\ toParent' = Tail(toParent)
    BY DEF MachineReadsFlow, flowVars, linkVars, deviceVars
  <1>2. /\ ~HasAdded(events) /\ ~HasAdded(toFlow) /\ ~HasAdded(toSerial)
        /\ plugged => known
    BY <1>1 DEF UsbInv, NotYet, AddedInFlow, AddedInSerial, Untouched
  <1>3. /\ Head(toParent) \in Flow!ParentMessages
        /\ Holds(toParent, Identifications)
           <=> Head(toParent) \in Identifications \/ Holds(toParent', Identifications)
    <2>1. toParent \in Seq(Flow!ParentMessages)
      BY DEF Types, SocketTypes
    <2>2. QED
      BY <1>1, <2>1, TailIsSeq, HoldsOfTail
  <1>4. CASE Mach!InitSupported(Head(toParent)) /\ Head(toParent).kind = "InitGrbl"
    <2>1. state' = "Grbl" /\ toFlow' = toFlow \o Mach!EnableAndAsk
          /\ Head(toParent) \in Identifications
      BY <1>3, <1>4 DEF Mach!InitSupported, Identifications
    <2>2. /\ toFlow' # <<>>
          /\ HasAdded(toFlow') <=> HasAdded(toFlow)
          /\ HasRemoved(toFlow') <=> HasRemoved(toFlow)
          /\ Asks(toFlow, 1) => Asks(toFlow', 1)
          /\ Enables(toFlow, 1) \/ toFlow = <<>> => Enables(toFlow', 1)
          /\ Reasks(toFlow) \/ EndsWith(toFlow, Removed) => Reasks(toFlow')
      BY <2>1, FlowAsked DEF Types, SocketTypes
    <2>3. QED
      BY <1>1, <1>2, <1>3, <2>1, <2>2, SmallQueues, EmptyQueues DEF Doomed, UsbInv, Basics,
         NoRemoval, LastEvent, NotYet, AddedInFlow, AddedInSerial, ConnectedIsIdle,
         DisconnectedIsIdle, StateFollows, PortFollows, UnseenHasNoPort, OldIsRefused, PortKnown,
         Cleared, Untouched
  <1>5. CASE /\ toFlow' = toFlow
             /\ state' = state \/ (state = "Grbl" /\ state' = "Identified")
    BY <1>1, <1>2, <1>3, <1>5, SmallQueues, EmptyQueues DEF Doomed, UsbInv, Basics,
         NoRemoval, LastEvent, NotYet, AddedInFlow, AddedInSerial, ConnectedIsIdle,
         DisconnectedIsIdle, StateFollows, PortFollows, UnseenHasNoPort, OldIsRefused, PortKnown,
         Cleared, Untouched
  <1>6. ~Mach!ResponseAborts(Head(toParent))
    BY DEF Mach!ResponseAborts
  <1>7. CASE Mach!InitUnsupported(Head(toParent)) \/ Mach!PushReceived(Head(toParent))
             \/ Mach!DropResponse \/ Mach!ResponseVersion(Head(toParent))
             \/ Mach!Response(Head(toParent))
    BY <1>5, <1>7 DEF Mach!InitUnsupported, Mach!PushReceived, Mach!DropResponse,
       Mach!ResponseVersion, Mach!Response, Mach!vars
  <1>8. QED
    BY <1>4, <1>6, <1>7 DEF MachineReadsFlow, Mach!HandleFlow

\* A client sends a command, which is dropped unless the machine is ready.
LEMMA UsbClientSends ==
    ASSUME Types, UsbInv, ~aborted, ~aborted', ClientSends
    PROVE  UsbInv'
  <1>1. UNCHANGED <<alarm, active, incoming, outgoing, used, sending, toParent, toSerial,
                    fromSerial, port, input, plugged, banner, known, unseen, events, state>>
    BY DEF ClientSends, Mach!ForwardGrbl, flowVars, linkVars, deviceVars
  <1>2. CASE toFlow' = toFlow
    BY <1>1, <1>2 DEF Doomed, UsbInv, Basics,
         NoRemoval, LastEvent, NotYet, AddedInFlow, AddedInSerial, ConnectedIsIdle,
         DisconnectedIsIdle, StateFollows, PortFollows, UnseenHasNoPort, OldIsRefused, PortKnown,
         Cleared, Untouched
  <1>3. CASE toFlow' # toFlow
    <2>1. PICK type \in ClientCommands, size \in Nat :
              /\ state \in {"Grbl", "Identified"}
              /\ toFlow' = Append(toFlow, Mach!Send(type, size))
      <3>1. \A type \in ClientCommands :
            \A size \in IF type \in Planned THEN GcodeSizes ELSE {TextSize(type)} : size \in Nat
        BY SMT, SizeAssumption DEF TextSize
      <3>2. QED
        BY <1>3, <3>1 DEF ClientSends, Mach!ForwardGrbl, Mach!Forwards, Mach!Ready
    <2>2. /\ Mach!Send(type, size) \in FlowMessages
          /\ Mach!Send(type, size) # Added /\ Mach!Send(type, size) # Removed
      <3>1. Mach!Send(type, size).kind = "Send" /\ Added.kind = "USBDeviceAdded"
            /\ Removed.kind = "USBDeviceRemoved"
        BY DEF Mach!Send, Added, Removed
      <3>2. QED
        BY <3>1, MessageTypes, CommandAssumption
    <2>3. /\ toFlow' # <<>>
          /\ HasAdded(toFlow') <=> HasAdded(toFlow)
          /\ HasRemoved(toFlow') <=> HasRemoved(toFlow)
          /\ Asks(toFlow, 1) => Asks(toFlow', 1)
          /\ Enables(toFlow, 1) => Enables(toFlow', 1)
          /\ Reasks(toFlow) => Reasks(toFlow')
      BY <2>1, <2>2, FlowAppends DEF Types, SocketTypes
    <2>4. QED
      BY <1>1, <2>1, <2>3, SmallQueues, EmptyQueues DEF Doomed, UsbInv, Basics,
         NoRemoval, LastEvent, NotYet, AddedInFlow, AddedInSerial, ConnectedIsIdle,
         DisconnectedIsIdle, StateFollows, PortFollows, UnseenHasNoPort, OldIsRefused, PortKnown,
         Cleared, Untouched
  <1>4. QED
    BY <1>2, <1>3

\* The USB scan.
LEMMA UsbScan ==
    ASSUME Types, UsbInv, ~aborted, ~aborted', Scan
    PROVE  UsbInv'
  <1>1. /\ UNCHANGED <<alarm, active, incoming, outgoing, used, sending, toParent, toSerial,
                       toFlow, fromSerial, port, input, plugged, banner, unseen, state>>
        /\ plugged # known /\ known' = plugged
        /\ events' = Append(events, IF plugged THEN Added ELSE Removed)
    BY DEF Scan, flowVars, machineVars, linkVars, deviceVars, Added, Removed
  <1>2. CASE plugged
    <2>1. ~known /\ events = <<>>
      BY <1>1, <1>2, SmallQueues DEF UsbInv, NoRemoval, LastEvent, Types, DeviceTypes
    <2>2. events' = Came /\ known'
      BY <1>1, <1>2, <2>1, SmallQueues
    <2>3. QED
      BY <1>1, <1>2, <2>1, <2>2, SmallQueues, EmptyQueues DEF Doomed, UsbInv, Basics,
         NoRemoval, LastEvent, NotYet, AddedInFlow, AddedInSerial, ConnectedIsIdle,
         DisconnectedIsIdle, StateFollows, PortFollows, UnseenHasNoPort, OldIsRefused, PortKnown,
         Cleared, Untouched
  <1>3. CASE ~plugged
    <2>1. known /\ events \in {<<>>, Came} /\ ~known'
      BY <1>1, <1>3, SmallQueues DEF UsbInv, NoRemoval, LastEvent, Types, DeviceTypes
    <2>2. (events = <<>> /\ events' = Left) \/ (events = Came /\ events' = CameAndLeft)
      BY <1>1, <1>3, <2>1, SmallQueues
    <2>3. QED
      BY <1>1, <1>3, <2>1, <2>2, SmallQueues, EmptyQueues DEF Doomed, UsbInv, Basics,
         NoRemoval, LastEvent, NotYet, AddedInFlow, AddedInSerial, ConnectedIsIdle,
         DisconnectedIsIdle, StateFollows, PortFollows, UnseenHasNoPort, OldIsRefused, PortKnown,
         Cleared, Untouched
  <1>4. QED
    BY <1>2, <1>3

\* The queue to SerialConnection, one message longer.
LEMMA SerialAppends ==
    \A s \in Seq(Flow!SerialMessages) : \A e \in Flow!SerialMessages :
        /\ HasAdded(Append(s, e)) <=> HasAdded(s) \/ e = Added
        /\ HasRemoved(Append(s, e)) <=> HasRemoved(s) \/ e = Removed
        /\ Holds(Append(s, e), DataMessages) <=> Holds(s, DataMessages) \/ e.kind = "Data"
  <1> TAKE s \in Seq(Flow!SerialMessages)
  <1> TAKE e \in Flow!SerialMessages
  <1>1. HasAdded(Append(s, e)) <=> HasAdded(s) \/ e \in {Added}
    BY HoldsOfAppend DEF HasAdded
  <1>2. HasRemoved(Append(s, e)) <=> HasRemoved(s) \/ e \in {Removed}
    BY HoldsOfAppend DEF HasRemoved
  <1>3. Holds(Append(s, e), DataMessages) <=> Holds(s, DataMessages) \/ e \in DataMessages
    BY HoldsOfAppend
  <1>4. e \in DataMessages <=> e.kind = "Data"
    BY DEF DataMessages
  <1>5. QED
    BY <1>1, <1>2, <1>3, <1>4

LEMMA SerialTails ==
    \A s \in Seq(Flow!SerialMessages) : s # <<>> =>
        /\ Head(s) \in Flow!SerialMessages
        /\ HasAdded(s) <=> Head(s) = Added \/ HasAdded(Tail(s))
        /\ HasRemoved(s) <=> Head(s) = Removed \/ HasRemoved(Tail(s))
        /\ Holds(s, DataMessages) <=> Head(s).kind = "Data" \/ Holds(Tail(s), DataMessages)
  <1> TAKE s \in Seq(Flow!SerialMessages)
  <1> HAVE s # <<>>
  <1>1. HasAdded(s) <=> Head(s) \in {Added} \/ HasAdded(Tail(s))
    BY HoldsOfTail DEF HasAdded
  <1>2. HasRemoved(s) <=> Head(s) \in {Removed} \/ HasRemoved(Tail(s))
    BY HoldsOfTail DEF HasRemoved
  <1>3. Holds(s, DataMessages) <=> Head(s) \in DataMessages \/ Holds(Tail(s), DataMessages)
    BY HoldsOfTail
  <1>4. Head(s) \in Flow!SerialMessages
    BY TailIsSeq
  <1>5. Head(s) \in DataMessages <=> Head(s).kind = "Data"
    BY <1>4 DEF DataMessages
  <1>6. QED
    BY <1>1, <1>2, <1>3, <1>4, <1>5

\* FlowControl handles a message of Machine.
LEMMA UsbFlowReadsMachine ==
    ASSUME Types, UsbInv, ~aborted, ~aborted', FlowReadsMachine
    PROVE  UsbInv'
  <1> DEFINE msg == Head(toFlow)
  <1>1. /\ UNCHANGED <<fromSerial, port, input, plugged, banner, known, unseen, events, state>>
        /\ toFlow # <<>> /\ toFlow' = Tail(toFlow)
    BY DEF FlowReadsMachine, machineVars, linkVars, deviceVars
  <1>2. /\ msg \in FlowMessages
        /\ HasAdded(toFlow) <=> msg = Added \/ HasAdded(toFlow')
        /\ HasRemoved(toFlow) <=> msg = Removed \/ HasRemoved(toFlow')
        /\ \A x : EndsWith(toFlow, x) <=> \/ toFlow' = <<>> /\ x = msg
                                          \/ EndsWith(toFlow', x)
        /\ Asks(toFlow, 1) => msg = AskVersion
        /\ Enables(toFlow, 1) => msg = Enable /\ Asks(toFlow', 1)
        /\ Reasks(toFlow) => \/ Reasks(toFlow')
                             \/ msg = Removed /\ Enables(toFlow', 1)
    BY <1>1, FlowTails DEF Types, SocketTypes
  <1> HIDE DEF msg
  <1>3. ASSUME msg # Added, msg # Removed
        PROVE  /\ ~HasAdded(events) /\ ~HasAdded(toFlow) /\ ~HasAdded(toSerial)
               /\ plugged => known
               /\ state # "Connected"
               /\ state = "Disconnected" => EndsWith(toFlow', Removed)
    BY <1>1, <1>2, <1>3, SmallQueues DEF msg, UsbInv, NotYet, AddedInFlow, AddedInSerial,
       ConnectedIsIdle, DisconnectedIsIdle
  <1>4. CASE msg.kind = "Send" /\ Flow!SendMessage(msg.type, msg.size)
    <2>1. msg # Added /\ msg # Removed /\ msg # Enable
          /\ msg.type \in Commands /\ msg.size \in Nat
      BY <1>2, <1>4, MessageKinds DEF Added, Removed, Enable
    <2>2. ~alarm
      BY DEF UsbInv, Basics
    <2>3. CASE Flow!PassThrough(msg.type, msg.size)
      <3>1. UNCHANGED <<alarm, active, incoming, outgoing, used, sending, toParent>>
        BY <2>3 DEF Flow!PassThrough, Flow!queues, Flow!classifier
      <3>2. /\ HasAdded(toSerial') <=> HasAdded(toSerial)
            /\ HasRemoved(toSerial') <=> HasRemoved(toSerial)
            /\ Holds(toSerial', DataMessages)
        <4>1. PICK d \in Flow!SerialMessages :
                  d.kind = "Data" /\ toSerial' = Append(toSerial, d)
          <5>1. Flow!Arriving(msg.type, msg.size) \in Flow!Request
            BY <2>1, SameTables DEF Flow!Arriving, Flow!Request, Types, FlowTypes
          <5>2. QED
            BY <2>3, <5>1, MessageTypes DEF Flow!PassThrough, Flow!Data
        <4>2. d # Added /\ d # Removed
          BY <4>1 DEF Added, Removed
        <4>3. QED
          BY <4>1, <4>2, SerialAppends DEF Types, SocketTypes
      <3>3. QED
        BY <1>1, <1>2, <1>3, <2>1, <3>1, <3>2, SmallQueues, EmptyQueues DEF Doomed, UsbInv, Basics,
         NoRemoval, LastEvent, NotYet, AddedInFlow, AddedInSerial, ConnectedIsIdle,
         DisconnectedIsIdle, StateFollows, PortFollows, UnseenHasNoPort, OldIsRefused, PortKnown,
         Cleared, Untouched
    <2>4. CASE Flow!Enqueue(msg.type, msg.size)
      <3>1. /\ UNCHANGED <<alarm, active, outgoing, used, realtime, toParent, toSerial>>
            /\ active /\ ~sending
            /\ Flow!CanSend' => sending'
        <4>1. /\ UNCHANGED <<alarm, active, outgoing, used, realtime, toParent, toSerial>>
              /\ active /\ ~sending
          BY <2>4 DEF Flow!Enqueue, Flow!Queues, Flow!Accepts, Flow!Ready, Flow!sockets
        <4>2. sending' = ((alarm' => msg.type \in Flow!ClearsAlarm) /\ Flow!CanSend')
          BY <2>4 DEF Flow!Enqueue, Flow!Run
        <4>3. ~alarm'
          BY <2>2, <4>1
        <4>4. QED
          BY <4>1, <4>2, <4>3
      <3>2. msg = AskVersion /\ Cleared => sending'
        <4> SUFFICES ASSUME msg = AskVersion, Cleared PROVE sending'
          OBVIOUS
        <4>1. msg.type = "GrblVersion" /\ msg.size = 3
          BY DEF AskVersion
        <4> DEFINE entry == Flow!Arriving("GrblVersion", 3)
        <4>2. incoming' = <<entry>>
          <5>1. <<>> \o <<entry>> = <<entry>>
            OBVIOUS
          <5>2. incoming' = Flow!Placed("GrblVersion", <<entry>>)
            BY <2>4, <4>1 DEF Flow!Enqueue
          <5>3. QED
            BY <5>1, <5>2, AskVersionIsSend, SMT DEF Flow!Placed, Cleared
        <4>3. incoming' # <<>> /\ Head(incoming') = entry /\ entry.type = "GrblVersion"
          BY <4>2 DEF Flow!Arriving
        <4>4. outgoing' = <<>> /\ Flow!PlannedSize(Head(incoming')) <= Limit - used'
          BY <3>1, <4>3, LimitAssumption DEF Flow!PlannedSize, Flow!Planned, Cleared
        <4>5. Flow!CanSend'
          BY <4>3, <4>4 DEF Flow!CanSend, Flow!Realtime, Flow!PlannedSize
        <4>6. QED
          BY <3>1, <4>5
      <3>3. QED
        BY <1>1, <1>2, <1>3, <2>1, <3>1, <3>2, SmallQueues, EmptyQueues DEF Doomed, UsbInv, Basics,
         NoRemoval, LastEvent, NotYet, AddedInFlow, AddedInSerial, ConnectedIsIdle,
         DisconnectedIsIdle, StateFollows, PortFollows, UnseenHasNoPort, OldIsRefused, PortKnown,
         Cleared, Untouched
    <2>5. QED
      BY <1>4, <2>2, <2>3, <2>4 DEF Flow!SendMessage, Flow!Refuse, Flow!AssertionFails
  <1>5. CASE msg = Enable /\ Flow!EnableFlowControl
    <2>1. /\ UNCHANGED <<alarm, incoming, outgoing, used, sending, toParent, toSerial>>
          /\ active' = TRUE /\ ~sending
      BY <1>5 DEF Flow!EnableFlowControl, Flow!Ready, Flow!queues, Flow!sockets
    <2>2. QED
      BY <1>1, <1>2, <1>3, <1>5, <2>1, SmallQueues, EmptyQueues DEF Doomed, UsbInv, Basics,
         NoRemoval, LastEvent, NotYet, AddedInFlow, AddedInSerial, ConnectedIsIdle,
         DisconnectedIsIdle, StateFollows, PortFollows, UnseenHasNoPort, OldIsRefused, PortKnown,
         Cleared, Untouched
  <1>6. CASE msg \in {Added, Removed} /\ Flow!Reconnect(msg.kind)
    <2>1. /\ UNCHANGED <<active, alarm, sending, toParent>>
          /\ ~sending /\ toSerial' = Append(toSerial, msg)
          /\ active => incoming' = <<>> /\ outgoing' = <<>> /\ used' = 0
          /\ ~active => UNCHANGED <<incoming, outgoing, used>>
      BY <1>6, MessageKinds DEF Flow!Reconnect, Flow!Ready
    <2>2. Cleared'
      BY <2>1 DEF Cleared, UsbInv, Basics, Types, FlowTypes
    <2>3. /\ HasAdded(toSerial') <=> HasAdded(toSerial) \/ msg = Added
          /\ HasRemoved(toSerial') <=> HasRemoved(toSerial) \/ msg = Removed
          /\ Holds(toSerial', DataMessages) <=> Holds(toSerial, DataMessages)
      <3>1. msg \in Flow!SerialMessages /\ msg.kind # "Data"
        BY <1>6, MessageKinds DEF Added, Removed
      <3>2. QED
        BY <2>1, <3>1, SerialAppends DEF Types, SocketTypes
    <2>4. CASE msg = Added
      <3>1. toSerial = <<>> /\ toSerial' = Came
        BY <1>2, <2>1, <2>4, SmallQueues DEF UsbInv, AddedInFlow
      <3>2. ~Holds(toSerial', DataMessages)
        BY <2>3, <3>1, EmptyQueues
      <3>3. \/ toFlow = Came /\ toFlow' = <<>> /\ state = "Connected"
            \/ toFlow = CameAndLeft /\ toFlow' = Left /\ state = "Disconnected"
        BY <1>1, <1>2, <2>4, SmallQueues DEF UsbInv, AddedInFlow
      <3>4. ~HasAdded(events) /\ (plugged => known)
        BY <1>1 DEF UsbInv, NotYet
      <3>5. QED
        BY <1>1, <1>2, <2>1, <2>2, <2>3, <2>4, <3>1, <3>2, <3>3, <3>4, SmallQueues, EmptyQueues
           DEF Doomed, UsbInv, Basics,
         NoRemoval, LastEvent, NotYet, AddedInFlow, AddedInSerial, ConnectedIsIdle,
         DisconnectedIsIdle, StateFollows, PortFollows, UnseenHasNoPort, OldIsRefused, PortKnown,
         Cleared, Untouched
    <2>5. CASE msg = Removed
      <3>1. ~plugged /\ ~known /\ ~HasAdded(events) /\ state # "Connected"
        BY <1>1, <1>2, <2>5, SmallQueues DEF msg, UsbInv, NoRemoval, NotYet, ConnectedIsIdle
      <3>2. ~HasAdded(toFlow) /\ ~HasAdded(toFlow')
        BY <1>2, <2>5, SmallQueues DEF msg, UsbInv, AddedInFlow
      <3>3. HasAdded(toSerial) => /\ toSerial' = CameAndLeft /\ toFlow' = <<>>
                                  /\ state = "Disconnected" /\ Untouched
        BY <1>1, <2>1, <2>5, SmallQueues DEF UsbInv, AddedInSerial
      <3>4. QED
        BY <1>1, <1>2, <2>1, <2>2, <2>3, <2>5, <3>1, <3>2, <3>3, SmallQueues, EmptyQueues
           DEF Doomed, UsbInv, Basics,
         NoRemoval, LastEvent, NotYet, AddedInFlow, AddedInSerial, ConnectedIsIdle,
         DisconnectedIsIdle, StateFollows, PortFollows, UnseenHasNoPort, OldIsRefused, PortKnown,
         Cleared, Untouched
    <2>6. QED
      BY <1>6, <2>4, <2>5
  <1>7. QED
    <2>1. FlowHandles(msg)
      BY DEF FlowReadsMachine, msg
    <2>2. /\ msg.kind = "EnableFlowControl" => msg = Enable
          /\ msg.kind \in Flow!UsbEvents => msg \in {Added, Removed}
      BY <1>2, MessageKinds DEF Flow!UsbEvents
    <2>3. QED
      BY <1>4, <1>5, <1>6, <2>1, <2>2 DEF FlowHandles

\* FlowControl handles a line of the device.
LEMMA UsbFlowReadsSerial ==
    ASSUME Types, UsbInv, ~aborted, ~aborted', FlowReadsSerial
    PROVE  UsbInv'
  <1> DEFINE line == Head(fromSerial)
  <1>1. /\ UNCHANGED <<port, input, plugged, banner, known, unseen, events, state, toFlow>>
        /\ fromSerial # <<>> /\ fromSerial' = Tail(fromSerial)
    BY DEF FlowReadsSerial, machineVars, linkVars, deviceVars
  <1>2. /\ ~HasAdded(events) /\ ~HasAdded(toFlow) /\ ~HasAdded(toSerial)
        /\ plugged => known
    BY <1>1 DEF UsbInv, NotYet, AddedInFlow, AddedInSerial, Untouched
  <1>3. /\ line \in Flow!Line
        /\ Holds(fromSerial, AlarmLines) <=> line \in AlarmLines \/ Holds(fromSerial', AlarmLines)
        /\ Holds(fromSerial, GrblLines) <=> line \in GrblLines \/ Holds(fromSerial', GrblLines)
    <2>1. fromSerial \in Seq(Flow!Line)
      BY DEF Types, SocketTypes
    <2>2. QED
      BY <1>1, <2>1, TailIsSeq, HoldsOfTail
  <1>4. ~alarm /\ line.kind # "alarm"
    BY <1>3 DEF UsbInv, Basics, AlarmLines
  <1>5. /\ UNCHANGED <<active, incoming, toSerial>> /\ ~alarm' /\ ~sending
        /\ Cleared => Cleared'
        /\ \/ toParent' = toParent
           \/ \E m \in Flow!ParentMessages :
                 toParent' = Append(toParent, m)
                 /\ (m.kind = "InitGrbl" => m.version = Flow!Version(line) /\ line.kind # "text")
    <2>1. CASE Flow!ReceiveEmpty(line) \/ Flow!ReceiveMultiline(line)
      BY <1>4, <2>1 DEF Flow!ReceiveEmpty, Flow!ReceiveMultiline, Flow!Ready, Flow!queues,
         Flow!sockets, Cleared
    <2>2. CASE Flow!ReceiveStartup(line)
      <3>1. Flow!InitGrbl(line) \in Flow!ParentMessages
            /\ Flow!InitGrbl(line).version = Flow!Version(line)
        BY <1>3, MessageTypes DEF Flow!InitGrbl
      <3>2. line.kind # "text"
        BY <2>2 DEF Flow!ReceiveStartup, Flow!Class
      <3>3. QED
        BY <1>4, <2>2, <3>1, <3>2 DEF Flow!ReceiveStartup, Flow!Ready, Flow!queues, Cleared
    <2>3. CASE Flow!ReceivePush(line)
      <3>1. Flow!GrblPush(line) \in Flow!ParentMessages
            /\ Flow!GrblPush(line).kind # "InitGrbl"
        BY <1>3, MessageTypes DEF Flow!GrblPush
      <3>2. QED
        BY <1>4, <2>3, <3>1 DEF Flow!ReceivePush, Flow!Ready, Flow!queues, Cleared
    <2>4. ~Flow!ReceiveAlarm(line)
      BY <1>4, SMT DEF Flow!ReceiveAlarm, Flow!Class
    <2>5. CASE Flow!ReceiveReply(line)
      <3> DEFINE answered == IF outgoing = <<>> THEN Flow!NoRequest ELSE Head(outgoing)
      <3>1. /\ toParent' = Append(toParent, Flow!Response(answered, Flow!Buffered(line)))
            /\ UNCHANGED <<active, alarm, incoming, toSerial>> /\ ~sending
            /\ sending' = ((alarm' => FALSE) /\ Flow!CanSend')
            /\ used' = used - Flow!Released(answered)
            /\ outgoing' = IF outgoing = <<>> THEN <<>> ELSE Tail(outgoing)
        BY <2>5 DEF Flow!ReceiveReply, Flow!Ready, Flow!Run
      <3>2. Cleared => Cleared'
        <4> SUFFICES ASSUME Cleared PROVE Cleared'
          OBVIOUS
        <4>1. Flow!Released(answered) = 0
          BY DEF Cleared, Flow!Released, Flow!PlannedSize, Flow!NoRequest, Flow!Planned
        <4>2. ~Flow!CanSend'
          BY <3>1 DEF Cleared, Flow!CanSend
        <4>3. ~sending'
          BY <3>1, <4>2
        <4>4. used' = 0
          BY <3>1, <4>1 DEF Cleared
        <4>5. QED
          BY <3>1, <4>3, <4>4 DEF Cleared
      <3>3. /\ Flow!Response(answered, Flow!Buffered(line)) \in Flow!ParentMessages
            /\ Flow!Response(answered, Flow!Buffered(line)).kind # "InitGrbl"
        <4>1. answered \in Flow!Request \cup {Flow!NoRequest}
          <5>1. outgoing # <<>> => Head(outgoing) \in Flow!Request
            BY TailIsSeq DEF Types, FlowTypes
          <5>2. QED
            BY <5>1
        <4>2. Flow!Buffered(line) \in Seq(Flow!Line)
          <5>1. Append(buffer, line) \in Seq(Flow!Line) /\ <<line>> \in Seq(Flow!Line)
            BY <1>3, AppendIsSeq, PairIsSeq DEF Types, FlowTypes
          <5>2. QED
            BY <5>1 DEF Flow!Buffered
        <4>3. QED
          BY <4>1, <4>2, MessageTypes DEF Flow!Response
      <3>4. QED
        BY <1>4, <3>1, <3>2, <3>3
    <2>6. QED
      BY <2>1, <2>2, <2>3, <2>4, <2>5 DEF FlowReadsSerial, Flow!ReceiveData
  <1>6. Holds(toParent', Identifications)
        => Holds(toParent, Identifications) \/ line \in GrblLines
    <2> SUFFICES ASSUME NEW m \in Flow!ParentMessages,
                        toParent' = Append(toParent, m),
                        m.kind = "InitGrbl" => m.version = Flow!Version(line),
                        m \in Identifications
                 PROVE  line \in GrblLines
      <3>1. toParent \in Seq(Flow!ParentMessages)
        BY DEF Types, SocketTypes
      <3>2. \A m \in Flow!ParentMessages :
                Holds(Append(toParent, m), Identifications)
                <=> Holds(toParent, Identifications) \/ m \in Identifications
        BY <3>1, HoldsOfAppend
      <3>3. QED
        BY <1>5, <3>2
    <2>1. ~Mach!Unsupported(Flow!Version(line))
      BY DEF Identifications
    <2>2. line.kind = "grbl"
      BY <2>1, SMT DEF Mach!Unsupported, Flow!Version
    <2>3. QED
      BY <1>3, <2>2 DEF GrblLines
  <1> HIDE DEF line
  <1>7. QED
    BY <1>1, <1>2, <1>3, <1>5, <1>6, SmallQueues, EmptyQueues DEF Doomed, UsbInv, Basics,
         NoRemoval, LastEvent, NotYet, AddedInFlow, AddedInSerial, ConnectedIsIdle,
         DisconnectedIsIdle, StateFollows, PortFollows, UnseenHasNoPort, OldIsRefused, PortKnown,
         Cleared, Untouched

\* FlowControl transmits a request.
LEMMA UsbFlowSends ==
    ASSUME Types, Loops, UsbInv, ~aborted, ~aborted', FlowSends
    PROVE  UsbInv'
  <1>1. /\ UNCHANGED <<port, input, plugged, banner, known, unseen, events, state, toFlow,
                       fromSerial, toParent, alarm>>
        /\ sending /\ incoming # <<>>
    BY DEF FlowSends, machineVars, linkVars, deviceVars, Loops, Flow!CanSend, Flow!Loop,
       Flow!SendRequest, Flow!SendReset, Flow!classifier
  <1>2. /\ ~HasAdded(events) /\ ~HasAdded(toFlow) /\ ~HasAdded(toSerial)
        /\ plugged => known
        /\ state # "Connected" /\ active
        /\ state = "Disconnected" => EndsWith(toFlow, Removed)
    BY <1>1 DEF UsbInv, Basics, NotYet, AddedInFlow, AddedInSerial, Cleared, ConnectedIsIdle,
       DisconnectedIsIdle
  <1>3. /\ HasAdded(toSerial') <=> HasAdded(toSerial)
        /\ HasRemoved(toSerial') <=> HasRemoved(toSerial)
        /\ Holds(toSerial', DataMessages)
    <2>1. Flow!Data(Head(incoming)) \in Flow!SerialMessages
      BY <1>1, TailIsSeq, MessageTypes DEF Types, FlowTypes
    <2>2. /\ Flow!Data(Head(incoming)).kind = "Data"
          /\ Flow!Data(Head(incoming)) # Added /\ Flow!Data(Head(incoming)) # Removed
      <3>1. /\ Flow!Data(Head(incoming)).kind = "Data"
            /\ Added.kind = "USBDeviceAdded" /\ Removed.kind = "USBDeviceRemoved"
        BY DEF Flow!Data, Added, Removed
      <3>2. QED
        BY <3>1
    <2>3. toSerial' = Append(toSerial, Flow!Data(Head(incoming)))
      BY DEF FlowSends, Flow!Loop, Flow!SendRequest, Flow!SendReset
    <2>4. QED
      BY <2>1, <2>2, <2>3, SerialAppends DEF Types, SocketTypes
  <1>4. active' = active \/ Cleared'
    BY DEF FlowSends, Flow!Loop, Flow!SendRequest, Flow!SendReset, Cleared
  <1>5. QED
    BY <1>1, <1>2, <1>3, <1>4, SmallQueues, EmptyQueues DEF Doomed, UsbInv, Basics,
         NoRemoval, LastEvent, NotYet, AddedInFlow, AddedInSerial, ConnectedIsIdle,
         DisconnectedIsIdle, StateFollows, PortFollows, UnseenHasNoPort, OldIsRefused, PortKnown,
         Cleared, Untouched

\* SerialConnection handles a message of FlowControl.
LEMMA UsbSerialReadsFlow ==
    ASSUME Types, UsbInv, ~aborted, ~aborted', SerialReadsFlow
    PROVE  UsbInv'
  <1> DEFINE msg == Head(toSerial)
  <1>1. /\ UNCHANGED <<active, alarm, incoming, outgoing, used, sending, plugged, banner, known,
                       unseen, events, state, toFlow, toParent>>
        /\ toSerial # <<>> /\ toSerial' = Tail(toSerial)
    BY DEF SerialReadsFlow, flowVars, machineVars
  <1>2. /\ msg \in Flow!SerialMessages
        /\ HasAdded(toSerial) <=> msg = Added \/ HasAdded(toSerial')
        /\ HasRemoved(toSerial) <=> msg = Removed \/ HasRemoved(toSerial')
        /\ Holds(toSerial, DataMessages)
           <=> msg.kind = "Data" \/ Holds(toSerial', DataMessages)
    BY <1>1, SerialTails DEF Types, SocketTypes
  <1>3. /\ ~HasAdded(events) /\ ~HasAdded(toFlow)
        /\ plugged => known
    BY <1>1 DEF UsbInv, NotYet, AddedInFlow
  <1> HIDE DEF msg
  <1>4. CASE msg.kind = "Data" /\ Link!Transmit(msg.request)
    <2>1. UNCHANGED <<port, fromSerial>> /\ port = "open"
      BY <1>4 DEF Link!Transmit
    <2>2. msg # Added /\ msg # Removed
      BY <1>4 DEF Added, Removed
    <2>3. ~HasAdded(toSerial)
      BY <2>1 DEF UsbInv, AddedInSerial, Untouched
    <2>4. QED
      BY <1>1, <1>2, <1>3, <1>4, <2>1, <2>2, <2>3, SmallQueues, EmptyQueues DEF Doomed, UsbInv, Basics,
         NoRemoval, LastEvent, NotYet, AddedInFlow, AddedInSerial, ConnectedIsIdle,
         DisconnectedIsIdle, StateFollows, PortFollows, UnseenHasNoPort, OldIsRefused, PortKnown,
         Cleared, Untouched
  <1>5. CASE msg = Added /\ Link!Connect(plugged)
    <2>1. plugged /\ port' = "open" /\ UNCHANGED <<fromSerial, input>>
      BY <1>5 DEF Link!Connect, Types, DeviceTypes
    <2>2. known /\ ~HasRemoved(toSerial) /\ ~HasRemoved(toFlow) /\ ~unseen
      BY <1>2, <1>3, <1>5, <2>1 DEF UsbInv, NoRemoval, UnseenHasNoPort
    <2>3. toSerial = Came /\ toSerial' = <<>> /\ toFlow = <<>> /\ state = "Connected"
          /\ Cleared /\ Untouched
      BY <1>1, <1>2, <1>5, <2>2, SmallQueues DEF UsbInv, AddedInSerial
    <2>4. QED
      BY <1>1, <1>2, <1>3, <1>5, <2>1, <2>2, <2>3, SmallQueues, EmptyQueues DEF Doomed, UsbInv, Basics,
         NoRemoval, LastEvent, NotYet, AddedInFlow, AddedInSerial, ConnectedIsIdle,
         DisconnectedIsIdle, StateFollows, PortFollows, UnseenHasNoPort, OldIsRefused, PortKnown,
         Cleared, Untouched
  <1>6. CASE msg = Removed /\ Link!Disconnect
    <2>1. port' = "closed" /\ UNCHANGED <<fromSerial, input>>
      BY <1>6 DEF Link!Disconnect
    <2>2. ~plugged /\ ~known /\ msg.kind # "Data"
      BY <1>2, <1>6 DEF UsbInv, NoRemoval, Removed
    <2>3. ~HasAdded(toSerial)
      BY <1>1, <1>6, SmallQueues DEF msg, UsbInv, AddedInSerial
    <2>4. QED
      BY <1>1, <1>2, <1>3, <1>6, <2>1, <2>2, <2>3, SmallQueues, EmptyQueues DEF Doomed, UsbInv, Basics,
         NoRemoval, LastEvent, NotYet, AddedInFlow, AddedInSerial, ConnectedIsIdle,
         DisconnectedIsIdle, StateFollows, PortFollows, UnseenHasNoPort, OldIsRefused, PortKnown,
         Cleared, Untouched
  <1>7. QED
    <2>1. SerialHandles(msg)
      BY DEF SerialReadsFlow, msg
    <2>2. QED
      BY <1>2, <1>4, <1>5, <1>6, <2>1, MessageKinds DEF SerialHandles

\* The device prints a line that is no alarm.
LEMMA UsbPrints ==
    ASSUME NoAlarms, Types, UsbInv, NEW kind \in Flow!LineKinds, NEW tag \in Nat,
           kind # "alarm", kind # "grbl" \/ banner = "grbl", Prints(kind, tag),
           input' = input \/ input # <<>> \/ input' = <<>>
    PROVE  UsbInv'
  <1>1. /\ UNCHANGED <<active, alarm, incoming, outgoing, used, sending, plugged, banner, known,
                       unseen, events, state, toFlow, toParent, toSerial, port>>
        /\ port = "open"
    BY DEF Prints, Link!Flush, flowVars, machineVars
  <1>2. /\ ~HasAdded(events) /\ ~HasAdded(toFlow) /\ ~HasAdded(toSerial)
        /\ plugged => known
    BY <1>1 DEF UsbInv, NotYet, AddedInFlow, AddedInSerial, Untouched
  <1>3. PICK line \in Flow!Line :
            /\ fromSerial' = Append(fromSerial, line)
            /\ line.kind = kind \/ line.kind = "text"
    BY DEF Prints, Link!Flush, Link!Garbled, Flow!Line, Flow!LineKinds
  <1>4. /\ Holds(fromSerial', AlarmLines) <=> Holds(fromSerial, AlarmLines)
        /\ Holds(fromSerial', GrblLines) => Holds(fromSerial, GrblLines) \/ banner = "grbl"
    <2>1. fromSerial \in Seq(Flow!Line)
      BY DEF Types, SocketTypes
    <2>2. line \notin AlarmLines /\ (line \in GrblLines => banner = "grbl")
      BY <1>3 DEF AlarmLines, GrblLines
    <2>3. QED
      BY <1>3, <2>1, <2>2, HoldsOfAppend
  <1>5. state = "Connected" => input' = <<>>
    BY DEF UsbInv, ConnectedIsIdle
  <1>6. QED
    BY <1>1, <1>2, <1>4, <1>5 DEF Doomed, UsbInv, Basics,
         NoRemoval, LastEvent, NotYet, AddedInFlow, AddedInSerial, ConnectedIsIdle,
         DisconnectedIsIdle, StateFollows, PortFollows, UnseenHasNoPort, OldIsRefused, PortKnown,
         Cleared, Untouched

LEMMA UsbDevice ==
    ASSUME NoAlarms, Types, UsbInv, ~aborted, ~aborted', Device
    PROVE  UsbInv'
  <1>0. /\ {"status", "text", "reply", "push", "grbl", "oldGrbl"} \subseteq Flow!LineKinds
        /\ Announcements \subseteq {"push"} /\ 0 \in Nat
    BY DeviceAssumption DEF Flow!LineKinds, NoAlarms
  <1>1. CASE DeviceBoots
    <2>1. banner \in {"grbl", "oldGrbl"}
      BY <1>1, DeviceAssumption DEF DeviceBoots, Prints, Link!Flush, Types, DeviceTypes
    <2>2. QED
      BY <1>0, <1>1, <2>1, UsbPrints DEF DeviceBoots
  <1>2. CASE UNCHANGED <<active, alarm, incoming, outgoing, used, sending, plugged, banner, known,
                         unseen, events, state, toFlow, toParent, toSerial, port, fromSerial>>
             /\ (input' = input \/ input # <<>>)
    <2>1. /\ port # "open" => input' = <<>>
          /\ state = "Connected" => input' = <<>>
      BY <1>2 DEF UsbInv, Basics, ConnectedIsIdle
    <2>2. QED
      BY <1>2, <2>1 DEF Doomed, UsbInv, Basics,
         NoRemoval, LastEvent, NotYet, AddedInFlow, AddedInSerial, ConnectedIsIdle,
         DisconnectedIsIdle, StateFollows, PortFollows, UnseenHasNoPort, OldIsRefused, PortKnown,
         Cleared, Untouched
  <1>3. CASE DeviceRestarts
    BY <1>2, <1>3 DEF DeviceRestarts, flowVars, machineVars, linkVars
  <1>4. CASE DeviceReports
    <2>1. input # <<>> /\ Prints("status", 0)
      BY <1>4 DEF DeviceReports
    <2>2. QED
      BY <1>0, <2>1, UsbPrints
  <1>5. CASE DeviceObeys
    <2>1. input # <<>>
      BY <1>5 DEF DeviceObeys
    <2>2. QED
      BY <1>2, <1>5, <2>1 DEF DeviceObeys, flowVars, machineVars, linkVars
  <1>6. input # <<>> => Head(input).tag \in Nat
    <2>1. input # <<>> => Head(input) \in Flow!Request
      BY TailIsSeq DEF Types, DeviceTypes
    <2>2. QED
      BY <2>1 DEF Flow!Request
  <1>7. CASE DeviceStartsReply
    BY <1>0, <1>6, <1>7, UsbPrints DEF DeviceStartsReply
  <1>8. CASE DeviceReplies
    BY <1>0, <1>6, <1>8, UsbPrints DEF DeviceReplies
  <1>9. CASE DeviceSpeaks
    <2>1. Prints("push", 0) /\ input' = input
      BY <1>0, <1>9 DEF DeviceSpeaks
    <2>2. QED
      BY <1>0, <2>1, UsbPrints
  <1>10. QED
    BY <1>1, <1>3, <1>4, <1>5, <1>7, <1>8, <1>9 DEF Device

\* The device is plugged in.
LEMMA UsbPlug ==
    ASSUME Types, UsbInv, ~aborted, ~aborted', Plug
    PROVE  UsbInv'
  <1>1. /\ UNCHANGED <<active, alarm, incoming, outgoing, used, sending, known, state, toFlow,
                       events, toParent, toSerial, fromSerial, port, input>>
        /\ ~plugged /\ plugged' /\ unseen' = known
        /\ events = <<>> /\ toFlow = <<>> /\ toParent = <<>> /\ toSerial = <<>>
        /\ fromSerial = <<>> /\ ~sending
    BY DEF Plug, Quiet, flowVars, machineVars, linkVars
  <1>2. port # "open" /\ ~Doomed
    BY <1>1, EmptyQueues DEF UsbInv, Basics, Doomed
  <1>3. state # "Disconnected" <=> known
    BY <1>1, <1>2 DEF UsbInv, StateFollows
  <1>4. ~known => Cleared
    BY <1>1, <1>3, EmptyQueues DEF UsbInv, DisconnectedIsIdle
  <1>5. QED
    BY <1>1, <1>2, <1>3, <1>4, SmallQueues, EmptyQueues DEF UsbInv, Basics,
         NoRemoval, LastEvent, NotYet, AddedInFlow, AddedInSerial, ConnectedIsIdle,
         DisconnectedIsIdle, StateFollows, PortFollows, UnseenHasNoPort, OldIsRefused, PortKnown,
         Cleared, Untouched, Types, DeviceTypes

\* It is unplugged.
LEMMA UsbUnplug ==
    ASSUME Types, UsbInv, ~aborted, ~aborted', Unplug
    PROVE  UsbInv'
  <1>1. /\ UNCHANGED <<active, alarm, incoming, outgoing, used, sending, known, state, toFlow,
                       events, toParent, toSerial, fromSerial, unseen>>
        /\ plugged /\ ~plugged' /\ banner' = "none" /\ input' = <<>>
        /\ port' = IF port = "open" THEN "dead" ELSE port
    BY DEF Unplug, Link!Lose, flowVars, machineVars
  <1>2. QED
    BY <1>1 DEF UsbInv, Basics,
         NoRemoval, LastEvent, NotYet, AddedInFlow, AddedInSerial, ConnectedIsIdle,
         DisconnectedIsIdle, StateFollows, PortFollows, UnseenHasNoPort, OldIsRefused, PortKnown,
         Cleared, Untouched, Types, DeviceTypes, Doomed

\* Nothing happens once the process has ended.
LEMMA EndedIsStill ==
    ASSUME Next
    PROVE  ~aborted
  <1>1. CASE FlowReadsMachine
    BY <1>1 DEF FlowReadsMachine, FlowHandles, Flow!SendMessage, Flow!Refuse, Flow!PassThrough,
       Flow!AssertionFails, Flow!Enqueue, Flow!Reconnect, Flow!EnableFlowControl,
       Flow!Queues, Flow!Accepts, Flow!Ready
  <1>2. CASE FlowReadsSerial
    BY <1>2 DEF FlowReadsSerial, Flow!ReceiveData, Flow!ReceiveEmpty, Flow!ReceiveStartup,
       Flow!ReceivePush, Flow!ReceiveMultiline, Flow!ReceiveAlarm, Flow!ReceiveReply, Flow!Ready
  <1>3. CASE FlowSends \/ SerialReadsFlow
    BY <1>3 DEF FlowSends, Flow!Loop, Flow!SendRequest, Flow!SendReset, SerialReadsFlow,
       SerialHandles, Link!Transmit, Link!Connect, Link!Disconnect
  <1>4. CASE MachineReadsEvent \/ ClientSends
    BY <1>4 DEF MachineReadsEvent, Mach!HandleContext, Mach!UsbDeviceAdded,
       Mach!UsbDeviceRemoved, Mach!ForwardGrbl, ClientSends
  <1>5. CASE MachineReadsFlow
    BY <1>5 DEF MachineReadsFlow, Mach!HandleFlow, Mach!InitSupported, Mach!InitUnsupported,
       Mach!PushReceived, Mach!DropResponse, Mach!ResponseVersion, Mach!Response,
       Mach!ResponseAborts
  <1>6. CASE ContextReads \/ Scan \/ Plug \/ Unplug
    BY <1>6 DEF ContextReads, Scan, Plug, Unplug
  <1>7. CASE Device
    BY <1>7 DEF Device, DeviceBoots, DeviceRestarts, DeviceReports, DeviceObeys,
       DeviceStartsReply, DeviceReplies, DeviceSpeaks, Prints, Link!Flush
  <1>8. QED
    BY <1>1, <1>2, <1>3, <1>4, <1>5, <1>6, <1>7 DEF Next, Actors

LEMMA UsbStep ==
    ASSUME NoAlarms, Types, Loops, ~aborted => UsbInv, [Next]_vars
    PROVE  ~aborted' => UsbInv'
  <1> SUFFICES ASSUME ~aborted' PROVE UsbInv'
    OBVIOUS
  <1>1. CASE UNCHANGED vars
    BY <1>1 DEF vars, flowVars, machineVars, linkVars, deviceVars, Doomed, Asks, Enables, Reasks,
       UsbInv, Basics,
         NoRemoval, LastEvent, NotYet, AddedInFlow, AddedInSerial, ConnectedIsIdle,
         DisconnectedIsIdle, StateFollows, PortFollows, UnseenHasNoPort, OldIsRefused, PortKnown,
         Cleared, Untouched
  <1>2. CASE Next
    <2>1. ~aborted
      BY <1>2, EndedIsStill
    <2>2. CASE ContextReads
      BY <2>1, <2>2 DEF ContextReads, flowVars, machineVars, linkVars, deviceVars, Doomed, Asks,
         Enables, Reasks, UsbInv, Basics,
         NoRemoval, LastEvent, NotYet, AddedInFlow, AddedInSerial, ConnectedIsIdle,
         DisconnectedIsIdle, StateFollows, PortFollows, UnseenHasNoPort, OldIsRefused, PortKnown,
         Cleared, Untouched
    <2>3. QED
      BY <1>2, <2>1, <2>2, UsbMachineReadsEvent, UsbMachineReadsFlow, UsbFlowReadsMachine,
         UsbFlowReadsSerial, UsbFlowSends, UsbSerialReadsFlow, UsbDevice, UsbClientSends, UsbScan,
         UsbPlug, UsbUnplug DEF Next, Actors
  <1>3. QED
    BY <1>1, <1>2

-----------------------------------------------------------------------------
(* The theorems *)

LEMMA UsbAlways ==
    ASSUME NoAlarms
    PROVE  Spec => [](Types /\ Loops /\ (~aborted => UsbInv))
  <1>1. Init => Types /\ Loops /\ (~aborted => UsbInv)
    BY InitTypes, UsbInit DEF Init, Flow!Init, Loops
  <1>2. Types /\ Loops /\ (~aborted => UsbInv) /\ [Next]_vars
        => (Types /\ Loops /\ (~aborted => UsbInv))'
    BY TypesStep, LoopsStep, UsbStep
  <1>3. QED
    BY <1>1, <1>2, PTL DEF Spec

\* Where devices announce no alarm, a settled session agrees with the USB bus: the
\* machine is connected just when the last scan saw its device, and the port is open
\* just when it is plugged in.
THEOREM SessionAlwaysFollowsUsb ==
    ASSUME NoAlarms
    PROVE  Spec => []SessionFollowsUsb
  <1>1. Types /\ (~aborted => UsbInv) => SessionFollowsUsb
    <2> SUFFICES ASSUME Types, UsbInv, ~aborted, Quiet, plugged <=> known
                 PROVE  /\ state # "Disconnected" <=> known
                        /\ ~unseen => (port = "open" <=> plugged)
      BY DEF SessionFollowsUsb, Types, DeviceTypes
    <2>1. ~Doomed
      BY EmptyQueues DEF Quiet, Doomed
    <2>2. state # "Disconnected" <=> known
      BY <2>1 DEF Quiet, UsbInv, StateFollows
    <2>3. ~unseen => (port = "open" <=> plugged)
      BY EmptyQueues DEF Quiet, UsbInv, PortFollows, Basics
    <2>4. QED
      BY <2>2, <2>3
  <1>2. QED
    BY <1>1, UsbAlways, PTL

\* The step that ends the process writes nothing to the device, nor does any after it.
LEMMA EndWritesNothing ==
    ASSUME Next, aborted'
    PROVE  UNCHANGED <<input, banner>>
  <1>1. CASE FlowReadsMachine \/ FlowReadsSerial \/ FlowSends
    BY <1>1 DEF FlowReadsMachine, FlowReadsSerial, FlowSends, deviceVars
  <1>2. CASE SerialReadsFlow
    BY <1>2 DEF SerialReadsFlow, SerialHandles, Link!Transmit, Link!Connect, Link!Disconnect
  <1>3. CASE MachineReadsEvent \/ MachineReadsFlow \/ ClientSends
    BY <1>3 DEF MachineReadsEvent, MachineReadsFlow, ClientSends, deviceVars
  <1>4. CASE ContextReads \/ Scan \/ Plug \/ Unplug
    BY <1>4 DEF ContextReads, Scan, Plug, Unplug, Link!Lose, deviceVars
  <1>5. CASE Device
    BY <1>5 DEF Device, DeviceBoots, DeviceRestarts, DeviceReports, DeviceObeys,
       DeviceStartsReply, DeviceReplies, DeviceSpeaks, Prints, Link!Flush
  <1>6. QED
    BY <1>1, <1>2, <1>3, <1>4, <1>5 DEF Next, Actors

\* Where devices announce no alarm, one whose startup line names an unsupported version
\* is never written to, whatever clients send and however often it restarts or reports
\* its status, though flow control may still be on from the device before.  It is
\* plugged in when what that one left on its way was read (Plug requires Quiet): a
\* startup line of the device before, read after the new one was reported, would send
\* it $I.
THEOREM OldDeviceIsAlwaysLeftAlone ==
    ASSUME NoAlarms
    PROVE  Spec => []OldDeviceIsLeftAlone
  <1>1. ASSUME Types, UsbInv
        PROVE  OldDeviceIsLeftAlone
    <2> SUFFICES ASSUME banner = "oldGrbl" PROVE input = <<>>
      BY DEF OldDeviceIsLeftAlone
    <2>1. plugged
      BY <1>1 DEF Types, DeviceTypes
    <2>2. CASE unseen
      BY <1>1, <2>1, <2>2 DEF UsbInv, UnseenHasNoPort, Basics
    <2>3. CASE ~unseen
      <3>1. state \in {"Disconnected", "Connected"}
        BY <1>1, <2>3 DEF UsbInv, OldIsRefused
      <3>2. state = "Disconnected" => port # "open"
        BY <1>1, <2>1, SmallQueues
           DEF UsbInv, NoRemoval, LastEvent, NotYet, StateFollows, Untouched, Types, DeviceTypes
      <3>3. QED
        BY <1>1, <3>1, <3>2 DEF UsbInv, Basics, ConnectedIsIdle
    <2>4. QED
      BY <2>2, <2>3
  <1>2. Init => OldDeviceIsLeftAlone
    BY DEF Init, OldDeviceIsLeftAlone
  <1>3. /\ Types /\ (~aborted => UsbInv)
        /\ (Types /\ (~aborted => UsbInv))'
        /\ OldDeviceIsLeftAlone /\ [Next]_vars
        => OldDeviceIsLeftAlone'
    <2> SUFFICES ASSUME Types', ~aborted' => UsbInv', OldDeviceIsLeftAlone, [Next]_vars
                 PROVE  OldDeviceIsLeftAlone'
      OBVIOUS
    <2>1. CASE ~aborted'
      BY <1>1, <2>1, PTL
    <2>2. CASE UNCHANGED vars
      BY <2>2 DEF vars, deviceVars, OldDeviceIsLeftAlone
    <2>3. CASE aborted' /\ Next
      BY <2>3, EndWritesNothing DEF OldDeviceIsLeftAlone
    <2>4. QED
      BY <2>1, <2>2, <2>3
  <1>4. QED
    BY <1>2, <1>3, UsbAlways, PTL DEF Spec
=============================================================================
