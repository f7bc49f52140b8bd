---------------------------- MODULE AnswerProofs ----------------------------
(***************************************************************************)
(* Theorems about DeviceSession: the device's receive buffer.              *)
(*                                                                         *)
(* AnswerInv relates FlowControl's outstanding requests to what is on its  *)
(* way: the replies in the line, then the requests in the device's input   *)
(* and in the serial socket answer them in that order (Aligned), so that   *)
(* what FlowControl counts covers what the device holds.                   *)
(***************************************************************************)
EXTENDS SessionProofs

-----------------------------------------------------------------------------
(* Sizes of requests *)

\* The recursion that defines SumSizes has a solution, a natural number for every
\* sequence of requests.
LEMMA SumSizesIsDefined ==
    /\ SumSizes[<<>>] = 0
    /\ \A q \in Seq(Flow!Request) : SumSizes[q] \in Nat
    /\ \A q \in Seq(Flow!Request) :
           q # <<>> => SumSizes[q] = Flow!PlannedSize(Head(q)) + SumSizes[Tail(q)]
  <1> DEFINE X == Flow!Request
             step == [p \in X \X Nat |-> Flow!PlannedSize(p[1]) + p[2]]
             Body(g) == [q \in Seq(X) |->
                            IF q = <<>> THEN 0 ELSE Flow!PlannedSize(Head(q)) + g[Tail(q)]]
  <1>1. \A r \in X : Flow!PlannedSize(r) \in Nat
    BY DEF Flow!PlannedSize, Flow!Request
  <1>2. step \in [X \X Nat -> Nat] /\ 0 \in Nat
    BY <1>1
  <1>3. PICK g \in [Seq(X) -> Nat] : Recurs(g, X, 0, step)
    <2> HIDE DEF step, X
    <2> QED BY <1>2, SequenceRecursion
  <1>4. ASSUME NEW q \in Seq(X)
        PROVE  g[q] = IF q = <<>> THEN 0 ELSE Flow!PlannedSize(Head(q)) + g[Tail(q)]
    <2>1. CASE q = <<>>
      BY <1>3, <2>1 DEF Recurs
    <2>2. CASE q # <<>>
      <3>1. Head(q) \in X /\ Tail(q) \in Seq(X)
        BY <2>2, TailIsSeq
      <3>2. <<Head(q), g[Tail(q)]>> \in X \X Nat
        BY <3>1
      <3>3. step[<<Head(q), g[Tail(q)]>>] = Flow!PlannedSize(Head(q)) + g[Tail(q)]
        BY <3>2
      <3>4. g[q] = step[<<Head(q), g[Tail(q)]>>]
        <4> HIDE DEF step, X
        <4> QED BY <1>3, <2>2 DEF Recurs
      <3>5. QED
        BY <2>2, <3>3, <3>4
    <2>3. QED
      BY <2>1, <2>2
  <1>5. g = Body(g)
    BY <1>4
  <1>6. SumSizes = Body(SumSizes)
    <2>1. SumSizes = CHOOSE h : h = Body(h)
      BY DEF SumSizes
    <2> HIDE DEF Body
    <2>2. QED
      BY <1>5, <2>1
  <1>7. \A q \in Seq(X) :
            SumSizes[q] = IF q = <<>> THEN 0 ELSE Flow!PlannedSize(Head(q)) + SumSizes[Tail(q)]
    BY <1>6
  <1> DEFINE S == {q \in Seq(X) : SumSizes[q] \in Nat}
  <1>8. <<>> \in S
    <2>1. <<>> \in Seq(X)
      BY EmptySeq
    <2>2. SumSizes[<<>>] = 0
      BY <1>7, <2>1
    <2>3. QED
      BY <2>1, <2>2
  <1>9. ASSUME NEW q \in Seq(X), q # <<>>, Tail(q) \in S PROVE q \in S
    <2>1. Head(q) \in X
      BY <1>9, TailIsSeq
    <2>2. QED
      BY <1>1, <1>7, <1>9, <2>1
  <1>10. Seq(X) \subseteq S
    <2> HIDE DEF S
    <2> QED BY <1>8, <1>9, SequenceInduction
  <1>11. QED
    BY <1>7, <1>10, EmptySeq

\* Sums of a concatenation, of a queue with a request more, and of one before its head
\* is taken.
LEMMA Sums ==
    /\ SumSizes[<<>>] = 0
    /\ \A s \in Seq(Flow!Request) : SumSizes[s] \in Nat
    /\ \A s, t \in Seq(Flow!Request) : SumSizes[s \o t] = SumSizes[s] + SumSizes[t]
    /\ \A s \in Seq(Flow!Request) : \A r \in Flow!Request :
           SumSizes[Append(s, r)] = SumSizes[s] + Flow!PlannedSize(r)
    /\ \A s \in Seq(Flow!Request) :
           s # <<>> => SumSizes[s] = Flow!PlannedSize(Head(s)) + SumSizes[Tail(s)]
    /\ \A r \in Flow!Request :
           /\ Flow!PlannedSize(r) \in Nat
           /\ SumSizes[<<r>>] = Flow!PlannedSize(r)
  <1>1. /\ SumSizes[<<>>] = 0
        /\ \A q \in Seq(Flow!Request) : SumSizes[q] \in Nat
        /\ \A q \in Seq(Flow!Request) :
               q # <<>> => SumSizes[q] = Flow!PlannedSize(Head(q)) + SumSizes[Tail(q)]
    BY SumSizesIsDefined
  <1>2. \A r \in Flow!Request : Flow!PlannedSize(r) \in Nat
    BY DEF Flow!PlannedSize, Flow!Request
  <1>3. ASSUME NEW t \in Seq(Flow!Request)
        PROVE  \A s \in Seq(Flow!Request) : SumSizes[s \o t] = SumSizes[s] + SumSizes[t]
    <2> DEFINE S == {s \in Seq(Flow!Request) : SumSizes[s \o t] = SumSizes[s] + SumSizes[t]}
    <2>1. <<>> \in S
      BY <1>1, ConcatParts, EmptySeq
    <2>2. ASSUME NEW s \in Seq(Flow!Request), s # <<>>, Tail(s) \in S PROVE s \in S
      <3>1. /\ s \o t # <<>> /\ Head(s \o t) = Head(s) /\ Tail(s \o t) = Tail(s) \o t
            /\ s \o t \in Seq(Flow!Request)
            /\ Head(s) \in Flow!Request /\ Tail(s) \in Seq(Flow!Request)
        BY <2>2, HeadTailOfConcat, ConcatProperties, TailIsSeq
      <3>2. SumSizes[s \o t] = Flow!PlannedSize(Head(s)) + SumSizes[Tail(s) \o t]
        BY <1>1, <3>1
      <3>3. SumSizes[s] = Flow!PlannedSize(Head(s)) + SumSizes[Tail(s)]
        BY <1>1, <2>2
      <3>4. SumSizes[Tail(s) \o t] = SumSizes[Tail(s)] + SumSizes[t]
        BY <2>2
      <3>5. /\ Flow!PlannedSize(Head(s)) \in Nat /\ SumSizes[Tail(s)] \in Nat
            /\ SumSizes[t] \in Nat
        BY <1>1, <1>2, <3>1
      <3>6. SumSizes[s \o t] = SumSizes[s] + SumSizes[t]
        BY <3>2, <3>3, <3>4, <3>5
      <3>7. QED
        BY <3>6
    <2>3. Seq(Flow!Request) \subseteq S
      <3> HIDE DEF S
      <3> QED BY <2>1, <2>2, SequenceInduction
    <2>4. QED
      BY <2>3
  <1>4. ASSUME NEW r \in Flow!Request PROVE SumSizes[<<r>>] = Flow!PlannedSize(r)
    <2>1. <<r>> \in Seq(Flow!Request) /\ <<r>> # <<>> /\ Head(<<r>>) = r /\ Tail(<<r>>) = <<>>
      OBVIOUS
    <2>2. SumSizes[<<r>>] = Flow!PlannedSize(r) + 0
      BY <1>1, <2>1
    <2>3. QED
      BY <1>2, <2>2
  <1>5. ASSUME NEW s \in Seq(Flow!Request), NEW r \in Flow!Request
        PROVE  SumSizes[Append(s, r)] = SumSizes[s] + Flow!PlannedSize(r)
    <2>1. Append(s, r) = s \o <<r>> /\ <<r>> \in Seq(Flow!Request)
      OBVIOUS
    <2>2. QED
      BY <1>3, <1>4, <2>1
  <1>6. QED
    BY <1>1, <1>2, <1>3, <1>4, <1>5

-----------------------------------------------------------------------------
(* The premises, and what they keep out of the queues: a soft reset, for    *)
(* which FlowControl forgets what it is owed though the device goes on, and *)
(* alarm lines.                                                             *)

NoSoftReset == "GrblSoftReset" \notin ClientCommands

\* What clients and Machine send, of the sizes they send it in.
SentTypes == ClientCommands \cup {"GrblVersion"}
CalmRequests == {r \in Flow!Request :
                     r.tag > 0 /\ r.type # "GrblSoftReset" /\ r.type \in SentTypes}
CalmMessages == {m \in Flow!SerialMessages : m.kind = "Data" => m.request \in CalmRequests}
CalmCommands == {m \in FlowMessages : m.kind = "Send" =>
                     /\ m.type # "GrblSoftReset" /\ m.type \in SentTypes
                     /\ m.size \in GcodeSizes \/ m.size <= 3}
CalmLines    == {line \in Flow!Line :
                     /\ line.kind \notin {"empty", "alarm"}
                     /\ line.kind = "status" => "GrblStatus" \in SentTypes}

CalmTypes ==
    /\ incoming \in Seq(CalmRequests) /\ outgoing \in Seq(CalmRequests)
    /\ input \in Seq(CalmRequests)
    /\ toSerial \in Seq(CalmMessages)
    /\ toFlow \in Seq(CalmCommands)
    /\ fromSerial \in Seq(CalmLines)

LEMMA CalmInit == Init => CalmTypes
  BY EmptySeq DEF Init, Flow!Init, Mach!Init, Link!Init, CalmTypes

\* Machine sends no soft reset.
LEMMA CalmMachine ==
    ASSUME NoSoftReset, Types, CalmTypes,
           MachineReadsEvent \/ MachineReadsFlow \/ ClientSends
    PROVE  CalmTypes'
  <1>1. /\ UNCHANGED <<incoming, outgoing, input, toSerial, fromSerial>>
    BY DEF MachineReadsEvent, MachineReadsFlow, ClientSends, flowVars
  <1>2. Added \in CalmCommands /\ Removed \in CalmCommands /\ Enable \in CalmCommands
        /\ AskVersion \in CalmCommands
    BY MessageKinds, AskVersionIsSend DEF CalmCommands, SentTypes, Added, Removed, Enable, AskVersion
  <1>3. toFlow' \in Seq(CalmCommands)
    <2>1. CASE MachineReadsEvent
      <3>1. Head(events) \in {Added, Removed}
        BY <2>1, TailIsSeq DEF MachineReadsEvent, Types, SocketTypes
      <3>2. toFlow' = Append(toFlow, Head(events))
        BY <2>1, <3>1 DEF MachineReadsEvent, Mach!HandleContext, Mach!UsbDeviceAdded,
               Mach!UsbDeviceRemoved, Added, Removed
      <3>3. QED
        BY <1>2, <3>1, <3>2, AppendIsSeq DEF CalmTypes
    <2>2. CASE MachineReadsFlow
      <3>1. toFlow' = toFlow \/ toFlow' = toFlow \o Mach!EnableAndAsk
        BY <2>2 DEF MachineReadsFlow, Mach!HandleFlow, Mach!InitSupported, Mach!InitUnsupported,
               Mach!PushReceived, Mach!DropResponse, Mach!ResponseVersion, Mach!Response,
               Mach!ResponseAborts, Mach!vars, Mach!identity
      <3>2. Mach!EnableAndAsk \in Seq(CalmCommands)
        BY <1>2, AskVersionIsSend, PairIsSeq
      <3>3. QED
        BY <3>1, <3>2, ConcatProperties DEF CalmTypes
    <2>3. CASE ClientSends
      <3>1. \A type \in ClientCommands :
            \A size \in IF type \in Planned THEN GcodeSizes ELSE {TextSize(type)} :
                /\ type \in Commands /\ size \in Nat /\ type # "GrblSoftReset"
                /\ type \in SentTypes /\ (size \in GcodeSizes \/ size <= 3)
        BY SMT, CommandAssumption, SizeAssumption DEF TextSize, NoSoftReset, SentTypes
      <3>2. \A type \in ClientCommands :
            \A size \in IF type \in Planned THEN GcodeSizes ELSE {TextSize(type)} :
                Mach!Send(type, size) \in CalmCommands
        BY <3>1, MessageTypes DEF CalmCommands, Mach!Send
      <3>3. \A type \in ClientCommands :
            \A size \in IF type \in Planned THEN GcodeSizes ELSE {TextSize(type)} :
                Append(toFlow, Mach!Send(type, size)) \in Seq(CalmCommands)
        BY <3>2, AppendIsSeq DEF CalmTypes
      <3>4. QED
        BY <2>3, <3>3 DEF ClientSends, Mach!ForwardGrbl, CalmTypes
    <2>4. QED
      BY <2>1, <2>2, <2>3
  <1>4. QED
    BY <1>1, <1>3 DEF CalmTypes

\* FlowControl numbers the requests it is sent from 1.
LEMMA CalmFlowReadsMachine ==
    ASSUME Types, CalmTypes, FlowReadsMachine
    PROVE  CalmTypes'
  <1> DEFINE msg == Head(toFlow)
  <1>1. msg \in CalmCommands /\ msg \in FlowMessages /\ toFlow' \in Seq(CalmCommands)
    BY TailIsSeq DEF FlowReadsMachine, CalmTypes, CalmCommands
  <1>2. UNCHANGED <<input, fromSerial>>
    BY DEF FlowReadsMachine
  <1>3. <<>> \in Seq(CalmRequests)
    BY EmptySeq
  <1>4. incoming' \in Seq(CalmRequests) /\ outgoing' \in Seq(CalmRequests)
        /\ toSerial' \in Seq(CalmMessages)
    <2>1. CASE msg.kind = "Send" /\ Flow!SendMessage(msg.type, msg.size)
      <3>1. /\ msg.type \in Commands /\ msg.size \in Nat /\ msg.type # "GrblSoftReset"
            /\ msg.type \in SentTypes
        BY <1>1, <2>1, MessageKinds DEF CalmCommands
      <3>2. Flow!Arriving(msg.type, msg.size) \in CalmRequests
        BY <3>1, SameTables DEF Flow!Arriving, Flow!Request, CalmRequests, Types, FlowTypes
      <3>3. CASE Flow!Refuse(msg.type)
        BY <3>3 DEF Flow!Refuse, Flow!queues, Flow!sockets, CalmTypes
      <3>4. CASE Flow!PassThrough(msg.type, msg.size)
        <4>1. Flow!Data(Flow!Arriving(msg.type, msg.size)) \in CalmMessages
          BY <3>2, MessageTypes DEF CalmRequests, CalmMessages, Flow!Data
        <4>2. QED
          BY <3>4, <4>1, AppendIsSeq DEF Flow!PassThrough, Flow!queues, CalmTypes
      <3>5. CASE Flow!AssertionFails(msg.type, msg.size)
        BY <3>5 DEF Flow!AssertionFails, Flow!queues, Flow!sockets, CalmTypes
      <3>6. CASE Flow!Enqueue(msg.type, msg.size)
        <4>1. \A entry \in Seq(CalmRequests) : Flow!Placed(msg.type, entry) \in Seq(CalmRequests)
          BY ConcatProperties, <3>1, SMT DEF Flow!Placed, Flow!Position, CalmTypes
        <4>2. (IF msg.size > 0 THEN <<Flow!Arriving(msg.type, msg.size)>> ELSE <<>>)
                 \in Seq(CalmRequests)
          BY <1>3, <3>2, PairIsSeq
        <4>3. QED
          BY <3>6, <4>1, <4>2 DEF Flow!Enqueue, Flow!sockets, CalmTypes
      <3>7. QED
        BY <2>1, <3>3, <3>4, <3>5, <3>6 DEF Flow!SendMessage
    <2>2. CASE Flow!EnableFlowControl
      BY <2>2 DEF Flow!EnableFlowControl, Flow!queues, Flow!sockets, CalmTypes
    <2>3. CASE msg.kind \in Flow!UsbEvents /\ Flow!Reconnect(msg.kind)
      <3>1. Flow!UsbEvent(msg.kind) \in CalmMessages
        BY <2>3 DEF Flow!UsbEvent, Flow!UsbEvents, Flow!SerialMessages, CalmMessages
      <3>2. QED
        BY <1>3, <2>3, <3>1, AppendIsSeq DEF Flow!Reconnect, CalmTypes
    <2>4. QED
      BY <2>1, <2>2, <2>3 DEF FlowReadsMachine, FlowHandles
  <1>5. QED
    BY <1>1, <1>2, <1>4 DEF CalmTypes

\* A line read, a request sent.
LEMMA CalmFlow ==
    ASSUME Types, Loops, CalmTypes, FlowReadsSerial \/ FlowSends
    PROVE  CalmTypes'
  <1>1. CASE FlowReadsSerial
    <2>1. fromSerial' \in Seq(CalmLines)
      BY <1>1, TailIsSeq DEF FlowReadsSerial, CalmTypes
    <2>2. outgoing' = outgoing \/ (outgoing # <<>> /\ outgoing' = Tail(outgoing))
      BY <1>1 DEF FlowReadsSerial, Flow!ReceiveData, Flow!ReceiveEmpty,
             Flow!ReceiveStartup, Flow!ReceivePush, Flow!ReceiveMultiline, Flow!ReceiveAlarm,
             Flow!ReceiveReply, Flow!queues
    <2>3. outgoing' \in Seq(CalmRequests)
      BY <2>2, TailIsSeq DEF CalmTypes
    <2>4. UNCHANGED <<incoming, input, toSerial, toFlow>>
      BY <1>1 DEF FlowReadsSerial, Flow!ReceiveData, Flow!ReceiveEmpty,
             Flow!ReceiveStartup, Flow!ReceivePush, Flow!ReceiveMultiline, Flow!ReceiveAlarm,
             Flow!ReceiveReply, Flow!queues, Flow!sockets
    <2>5. QED
      BY <2>1, <2>3, <2>4 DEF CalmTypes
  <1>2. CASE FlowSends
    <2>1. incoming # <<>>
      BY <1>2 DEF FlowSends, Flow!Loop, Flow!SendRequest, Flow!SendReset, Loops, Flow!CanSend
    <2>2. Head(incoming) \in CalmRequests /\ Tail(incoming) \in Seq(CalmRequests)
      BY <2>1, TailIsSeq DEF CalmTypes
    <2>3. Flow!Data(Head(incoming)) \in CalmMessages
      BY <2>2, MessageTypes DEF CalmRequests, CalmMessages, Flow!Data
    <2>4. toSerial' \in Seq(CalmMessages)
      <3>1. Append(toSerial, Flow!Data(Head(incoming))) \in Seq(CalmMessages)
        BY <2>3, AppendIsSeq DEF CalmTypes
      <3>2. QED
        BY <1>2, <3>1 DEF FlowSends, Flow!Loop, Flow!SendRequest, Flow!SendReset
    <2>5. incoming' \in Seq(CalmRequests) /\ outgoing' \in Seq(CalmRequests)
      <3>1. <<>> \in Seq(CalmRequests) /\ Append(outgoing, Head(incoming)) \in Seq(CalmRequests)
        BY <2>2, EmptySeq, AppendIsSeq DEF CalmTypes
      <3>2. QED
        BY <1>2, <2>2, <3>1 DEF FlowSends, Flow!Loop, Flow!SendRequest, Flow!SendReset, CalmTypes
    <2>6. UNCHANGED <<input, toFlow, fromSerial>>
      BY <1>2 DEF FlowSends
    <2>7. QED
      BY <2>4, <2>5, <2>6 DEF CalmTypes
  <1>3. QED
    BY <1>1, <1>2

LEMMA CalmSerial ==
    ASSUME Types, CalmTypes, SerialReadsFlow
    PROVE  CalmTypes'
  <1> DEFINE msg == Head(toSerial)
  <1>1. msg \in CalmMessages /\ toSerial' \in Seq(CalmMessages)
    BY TailIsSeq DEF SerialReadsFlow, CalmTypes
  <1>2. UNCHANGED <<incoming, outgoing, toFlow, fromSerial>>
    BY DEF SerialReadsFlow, SerialHandles, Link!Transmit, Link!Connect, Link!Disconnect, flowVars
  <1>3. input' = input \/ (msg.kind = "Data" /\ input' = Append(input, msg.request))
    BY DEF SerialReadsFlow, SerialHandles, Link!Transmit, Link!Connect, Link!Disconnect
  <1>4. input' \in Seq(CalmRequests)
    <2>1. msg.kind = "Data" => msg.request \in CalmRequests
      BY <1>1 DEF CalmMessages
    <2>2. msg.kind = "Data" => Append(input, msg.request) \in Seq(CalmRequests)
      BY <2>1, AppendIsSeq DEF CalmTypes
    <2>3. QED
      BY <1>3, <2>2 DEF CalmTypes
  <1>5. QED
    BY <1>1, <1>2, <1>4 DEF CalmTypes

\* What Prints leaves alone, and the line it adds.
LEMMA CalmPrints ==
    ASSUME Types, CalmTypes, NEW kind \in Flow!LineKinds \ {"empty", "alarm"}, NEW tag \in Nat,
           kind = "status" => "GrblStatus" \in SentTypes,
           Prints(kind, tag)
    PROVE  /\ fromSerial' \in Seq(CalmLines)
           /\ UNCHANGED <<incoming, outgoing, toSerial, toFlow>>
  <1>1. [kind |-> kind, tag |-> tag] \in CalmLines
        /\ Link!Garbled([kind |-> kind, tag |-> tag]) \in CalmLines
    BY DEF CalmLines, Flow!Line, Flow!LineKinds, Link!Garbled
  <1>2. PICK line \in CalmLines : fromSerial' = Append(fromSerial, line)
    BY <1>1 DEF Prints, Link!Flush
  <1>3. fromSerial' \in Seq(CalmLines)
    BY <1>2, AppendIsSeq DEF CalmTypes
  <1>4. QED
    BY <1>3 DEF Prints, flowVars

\* The device, and its plug.
LEMMA CalmDevice ==
    ASSUME NoAlarms, Types, CalmTypes, Device \/ Plug \/ Unplug
    PROVE  CalmTypes'
  <1>0. /\ <<>> \in Seq(CalmRequests) /\ 0 \in Nat
        /\ {"status", "text", "reply"} \subseteq Flow!LineKinds \ {"empty", "alarm"}
        /\ Banners \subseteq Flow!LineKinds \ {"empty", "alarm", "status"}
        /\ Announcements \subseteq Flow!LineKinds \ {"empty", "alarm", "status"}
    BY EmptySeq, DeviceAssumption DEF Flow!LineKinds, NoAlarms
  <1>1. CASE DeviceBoots
    <2>1. /\ banner \in Flow!LineKinds \ {"empty", "alarm"} /\ banner # "status"
          /\ Prints(banner, 0)
      BY <1>0, <1>1 DEF DeviceBoots, Prints, Link!Flush, Types, DeviceTypes
    <2>2. QED
      BY <1>0, <1>1, <2>1, CalmPrints DEF DeviceBoots, CalmTypes
  <1>2. ASSUME NEW i \in 1..Len(input), TakesRealtime(i)
        PROVE  input' \in Seq(CalmRequests)
    <2>1. /\ SubSeq(input, 1, i - 1) \in Seq(CalmRequests)
          /\ SubSeq(input, i + 1, Len(input)) \in Seq(CalmRequests)
      BY AroundElement DEF CalmTypes
    <2>2. QED
      BY <1>2, <2>1, ConcatProperties DEF TakesRealtime
  <1>3. CASE DeviceReports
    <2>1. input' \in Seq(CalmRequests)
      BY <1>2, <1>3 DEF DeviceReports
    <2>2. "GrblStatus" \in SentTypes
      <3>1. PICK i \in 1..Len(input) : input[i].type = "GrblStatus"
        BY <1>3 DEF DeviceReports
      <3>2. input[i] \in CalmRequests
        BY AroundElement DEF CalmTypes
      <3>3. QED
        BY <3>1, <3>2 DEF CalmRequests
    <2>3. QED
      BY <1>0, <1>3, <2>1, <2>2, CalmPrints DEF DeviceReports, CalmTypes
  <1>4. CASE DeviceObeys
    BY <1>2, <1>4 DEF DeviceObeys, CalmTypes, flowVars
  <1>5. input # <<>> => Head(input).tag \in Nat /\ Tail(input) \in Seq(CalmRequests)
    <2>1. input # <<>> => Head(input) \in CalmRequests /\ Tail(input) \in Seq(CalmRequests)
      BY TailIsSeq DEF CalmTypes
    <2>2. QED
      BY <2>1 DEF CalmRequests, Flow!Request
  <1>6. CASE DeviceStartsReply
    BY <1>0, <1>5, <1>6, CalmPrints DEF DeviceStartsReply, CalmTypes
  <1>7. CASE DeviceReplies
    BY <1>0, <1>5, <1>7, CalmPrints DEF DeviceReplies, CalmTypes
  <1>8. CASE DeviceSpeaks
    <2>1. PICK kind \in Announcements : Prints(kind, 0)
      BY <1>8 DEF DeviceSpeaks
    <2>2. UNCHANGED input
      BY <1>8 DEF DeviceSpeaks
    <2>3. QED
      BY <1>0, <2>1, <2>2, CalmPrints DEF CalmTypes
  <1>9. CASE DeviceRestarts \/ Plug
    BY <1>9 DEF DeviceRestarts, Plug, CalmTypes, flowVars
  <1>10. CASE Unplug
    BY <1>0, <1>10 DEF Unplug, Link!Lose, CalmTypes, flowVars
  <1>11. QED
    BY <1>1, <1>3, <1>4, <1>6, <1>7, <1>8, <1>9, <1>10 DEF Device

LEMMA CalmStep ==
    ASSUME NoAlarms, NoSoftReset, Types, Loops, CalmTypes, [Next]_vars
    PROVE  CalmTypes'
  <1>1. CASE UNCHANGED vars
    BY <1>1 DEF vars, flowVars, CalmTypes
  <1>2. CASE ContextReads \/ Scan
    BY <1>2 DEF ContextReads, Scan, flowVars, CalmTypes
  <1>3. QED
    BY <1>1, <1>2, CalmMachine, CalmFlowReadsMachine, CalmFlow, CalmSerial, CalmDevice
       DEF Next, Actors

-----------------------------------------------------------------------------
(* What the device owes: the replies to the ordinary requests in its input *)
(* and, before those, in the socket to SerialConnection.                   *)

OwedFor  == [r \in Flow!Request |-> IF Ordinary(r) THEN <<r>> ELSE <<>>]
SentFor  == [m \in Flow!SerialMessages |->
                IF m.kind = "Data" THEN OwedFor[m.request] ELSE <<>>]
TagFor   == [r \in Flow!Request |-> <<r.tag>>]
ReplyFor == [line \in Flow!Line |-> IF line.kind = "reply" THEN <<line.tag>> ELSE <<>>]

Owed    == Flat(Flow!Request, OwedFor)         \* of a queue of requests
Sent    == Flat(Flow!SerialMessages, SentFor)  \* of the socket to SerialConnection
Tags    == Flat(Flow!Request, TagFor)          \* of a queue of requests
Replies == Flat(Flow!Line, ReplyFor)           \* tags of the replies among lines

StartupLines == {line \in Flow!Line : Startup(line)}
ReplyLines   == {line \in Flow!Line : line.kind = "reply"}
TextLines    == {line \in Flow!Line : line.kind = "text" /\ line.tag > 0}
AnswerLines  == ReplyLines \cup TextLines

LEMMA Gatherings ==
    /\ Gathers(Owed, Flow!Request, Flow!Request, OwedFor)
    /\ Gathers(Sent, Flow!SerialMessages, Flow!Request, SentFor)
    /\ Gathers(Tags, Flow!Request, Nat, TagFor)
    /\ Gathers(Replies, Flow!Line, Nat, ReplyFor)
  <1>1. \A r \in Flow!Request : <<r>> \in Seq(Flow!Request) /\ <<r.tag>> \in Seq(Nat)
    BY DEF Flow!Request
  <1>2. <<>> \in Seq(Flow!Request) /\ <<>> \in Seq(Nat)
    BY EmptySeq
  <1>3. OwedFor \in [Flow!Request -> Seq(Flow!Request)]
    BY <1>1, <1>2 DEF OwedFor
  <1>4. SentFor \in [Flow!SerialMessages -> Seq(Flow!Request)]
    BY <1>2, <1>3, MessageKinds DEF SentFor
  <1>5. TagFor \in [Flow!Request -> Seq(Nat)]
    BY <1>1 DEF TagFor
  <1>6. ReplyFor \in [Flow!Line -> Seq(Nat)]
    <2>1. \A line \in Flow!Line : <<line.tag>> \in Seq(Nat)
      BY DEF Flow!Line
    <2>2. QED
      BY <1>2, <2>1 DEF ReplyFor
  <1>7. Gathers(Owed, Flow!Request, Flow!Request, OwedFor)
    BY <1>3, FlatGathers DEF Owed
  <1>8. Gathers(Sent, Flow!SerialMessages, Flow!Request, SentFor)
    BY <1>4, FlatGathers DEF Sent
  <1>9. Gathers(Tags, Flow!Request, Nat, TagFor)
    BY <1>5, FlatGathers DEF Tags
  <1>10. Gathers(Replies, Flow!Line, Nat, ReplyFor)
    BY <1>6, FlatGathers DEF Replies
  <1>11. QED
    BY <1>7, <1>8, <1>9, <1>10

\* The device reads nothing of realtime requests before it replies, nor do they count.
LEMMA RealtimeCounts ==
    \A r \in CalmRequests :
        /\ ~Ordinary(r) => Flow!PlannedSize(r) = 0
        /\ r.type \in Multiline => Ordinary(r) /\ r.type \in Greedy
        /\ ~Ordinary(r) <=> r.type \in Realtime
        /\ r \in Flow!Request /\ r.tag \in Nat /\ r.tag > 0 /\ r.type \in Commands
  BY SameTables DEF CalmRequests, Ordinary, Flow!PlannedSize, Planned, Realtime, Multiline, Greedy,
     Flow!Request

\* A text line is the beginning of a reply to the oldest outstanding request.
Begins(line, requests) ==
    requests # <<>> /\ Head(requests).type \in Multiline /\ line.tag = Head(requests).tag
TextsFit(lines, requests) ==
    \A i \in 1..Len(lines) : lines[i] \in TextLines =>
        /\ Begins(lines[i], requests)
        /\ \A j \in 1..(i - 1) : lines[j] \notin ReplyLines

\* The requests that the lines of a device answer, up to the first startup line, and
\* the others.  They are the ones the device owes; after a restart it owes less.
AlignedBy(before, after, answered, rest, in, serial, boots) ==
    /\ ~Holds(before, StartupLines)
    /\ after # <<>> => Head(after) \in StartupLines
    /\ Tags[answered] = Replies[before]
    /\ TextsFit(before, answered \o rest)
    /\ SumSizes[in] + SumSizes[Sent[serial]] <= SumSizes[rest]
    /\ after = <<>> /\ ~boots => rest = Owed[in] \o Sent[serial]
    /\ (after # <<>> \/ boots) /\ rest = <<>> =>
           Owed[in] = <<>> /\ Sent[serial] = <<>> /\ ~Holds(after, AnswerLines)

LEMMA TextsFitSteps ==
    ASSUME NEW lines \in Seq(Flow!Line), NEW requests
    PROVE  /\ \A line \in Flow!Line : line \notin TextLines /\ TextsFit(lines, requests)
                  => TextsFit(Append(lines, line), requests)
           /\ \A line \in Flow!Line :
                  /\ TextsFit(lines, requests) /\ ~Holds(lines, ReplyLines)
                  /\ Begins(line, requests)
                  => TextsFit(Append(lines, line), requests)
           /\ lines # <<>> /\ TextsFit(lines, requests) => TextsFit(Tail(lines), requests)
           /\ \A others : lines # <<>> /\ Head(lines) \in ReplyLines /\ TextsFit(lines, requests)
                  => TextsFit(Tail(lines), others)
           /\ \A others :
                  TextsFit(lines, requests) /\ (requests # <<>> => others # <<>> /\ Head(others) = Head(requests))
                  => TextsFit(lines, others)
           /\ ~Holds(lines, TextLines) => TextsFit(lines, requests)
  <1>1. ASSUME NEW line \in Flow!Line, line \notin TextLines \/ (/\ ~Holds(lines, ReplyLines)
                  /\ Begins(line, requests)), TextsFit(lines, requests)
        PROVE  TextsFit(Append(lines, line), requests)
    <2> DEFINE longer == Append(lines, line)
    <2>1. /\ Len(longer) = Len(lines) + 1 /\ Len(lines) \in Nat
          /\ \A i \in 1..Len(lines) : longer[i] = lines[i]
          /\ longer[Len(lines) + 1] = line
      BY AppendIsSeq, LenProperties
    <2> HIDE DEF longer
    <2> SUFFICES ASSUME NEW i \in 1..Len(longer), longer[i] \in TextLines
                 PROVE  /\ Begins(longer[i], requests)
                        /\ \A j \in 1..(i - 1) : longer[j] \notin ReplyLines
      BY DEF TextsFit, longer
    <2>2. CASE i \in 1..Len(lines)
      <3>1. \A j \in 1..(i - 1) : longer[j] = lines[j]
        BY <2>1, <2>2
      <3>2. QED
        BY <1>1, <2>1, <2>2, <3>1 DEF TextsFit
    <2>3. CASE i = Len(lines) + 1
      <3>1. line \in TextLines /\ i - 1 = Len(lines)
        BY <2>1, <2>3
      <3>2. QED
        BY <1>1, <2>1, <3>1 DEF Holds
    <2>4. QED
      BY <2>1, <2>2, <2>3
  <1>2. ASSUME lines # <<>>, TextsFit(lines, requests), NEW others,
               Head(lines) \in ReplyLines \/ others = requests
        PROVE  TextsFit(Tail(lines), others)
    <2> DEFINE shorter == Tail(lines)
    <2>1. /\ Len(shorter) = Len(lines) - 1 /\ Len(lines) \in Nat /\ Head(lines) = lines[1]
          /\ \A i \in 1..(Len(lines) - 1) : shorter[i] = lines[i + 1]
      BY <1>2, TailIsSeq
    <2> HIDE DEF shorter
    <2> SUFFICES ASSUME NEW i \in 1..Len(shorter), shorter[i] \in TextLines
                 PROVE  /\ Begins(shorter[i], others)
                        /\ \A j \in 1..(i - 1) : shorter[j] \notin ReplyLines
      BY DEF TextsFit, shorter
    <2>2. i + 1 \in 1..Len(lines) /\ lines[i + 1] \in TextLines
      BY <2>1
    <2>3. /\ Begins(lines[i + 1], requests)
          /\ \A j \in 1..i : lines[j] \notin ReplyLines
      <3>1. (i + 1) - 1 = i
        OBVIOUS
      <3>2. QED
        BY <1>2, <2>2, <3>1 DEF TextsFit
    <2>4. 1 \in 1..i /\ \A j \in 1..(i - 1) : j + 1 \in 1..i /\ j \in 1..(Len(lines) - 1)
      BY <2>1
    <2>5. QED
      BY <1>2, <2>1, <2>3, <2>4
  <1>3. \A others :
            TextsFit(lines, requests) /\ (requests # <<>> => others # <<>> /\ Head(others) = Head(requests))
            => TextsFit(lines, others)
    BY DEF TextsFit, Begins
  <1>4. ~Holds(lines, TextLines) => TextsFit(lines, requests)
    BY DEF TextsFit, Holds
  <1>5. QED
    BY <1>1, <1>2, <1>3, <1>4

-----------------------------------------------------------------------------
(* What each step does to the alignment of lines and requests *)

\* Concatenations.
Queues(S) ==
    /\ <<>> \in Seq(S)
    /\ \A s \in Seq(S) : <<>> \o s = s /\ s \o <<>> = s
    /\ \A s, t \in Seq(S) :
           s \o t \in Seq(S) /\ (s \o t = <<>> <=> s = <<>> /\ t = <<>>)
    /\ \A s, t \in Seq(S) :
           s # <<>> => Head(s \o t) = Head(s) /\ Tail(s \o t) = Tail(s) \o t
    /\ \A s, t, u \in Seq(S) : (s \o t) \o u = s \o (t \o u)
    /\ \A r \in S :
           /\ <<r>> \in Seq(S) /\ <<r>> # <<>>
           /\ Head(<<r>>) = r /\ Tail(<<r>>) = <<>>
    /\ \A s \in Seq(S) : \A r \in S : Append(s, r) = s \o <<r>>
    /\ \A s, t \in Seq(S) : \A r \in S :
           Append(s \o t, r) = s \o Append(t, r)
    /\ \A s \in Seq(S) : s # <<>> =>
           Head(s) \in S /\ Tail(s) \in Seq(S)
           /\ s = <<Head(s)>> \o Tail(s)

LEMMA QueueFacts ==
    ASSUME NEW S
    PROVE  Queues(S)
  <1>1. <<>> \in Seq(S)
    BY EmptySeq
  <1>2. \A s \in Seq(S) : <<>> \o s = s /\ s \o <<>> = s
    BY <1>1, ConcatParts
  <1>3. ASSUME NEW s \in Seq(S), NEW t \in Seq(S)
        PROVE  /\ s \o t \in Seq(S) /\ (s \o t = <<>> <=> s = <<>> /\ t = <<>>)
               /\ s # <<>> => Head(s \o t) = Head(s) /\ Tail(s \o t) = Tail(s) \o t
               /\ \A u \in Seq(S) : (s \o t) \o u = s \o (t \o u)
    BY ConcatParts
  <1>4. ASSUME NEW r \in S
        PROVE  /\ <<r>> \in Seq(S) /\ <<r>> # <<>>
               /\ Head(<<r>>) = r /\ Tail(<<r>>) = <<>>
               /\ \A s \in Seq(S) : Append(s, r) = s \o <<r>>
    OBVIOUS
  <1>7. ASSUME NEW s \in Seq(S), NEW t \in Seq(S),
               NEW r \in S
        PROVE  Append(s \o t, r) = s \o Append(t, r)
    <2>1. <<r>> \in Seq(S) /\ s \o t \in Seq(S)
      BY <1>3, <1>4
    <2>2. (s \o t) \o <<r>> = s \o (t \o <<r>>)
      BY <1>3, <2>1
    <2>3. Append(s \o t, r) = (s \o t) \o <<r>> /\ Append(t, r) = t \o <<r>>
      BY <1>4, <2>1
    <2>4. QED
      BY <2>2, <2>3
  <1>5. ASSUME NEW s \in Seq(S), s # <<>>
        PROVE  Head(s) \in S /\ Tail(s) \in Seq(S)
               /\ s = <<Head(s)>> \o Tail(s)
    BY <1>5, ConcatParts
  <1>6. QED
    <2>1. \A s, t \in Seq(S) :
              s \o t \in Seq(S) /\ (s \o t = <<>> <=> s = <<>> /\ t = <<>>)
      BY <1>3, Zenon
    <2>2. \A s, t \in Seq(S) :
              s # <<>> => Head(s \o t) = Head(s) /\ Tail(s \o t) = Tail(s) \o t
      BY <1>3, Zenon
    <2>3. \A s, t, u \in Seq(S) : (s \o t) \o u = s \o (t \o u)
      BY <1>3, Zenon
    <2>4. \A r \in S :
              /\ <<r>> \in Seq(S) /\ <<r>> # <<>>
              /\ Head(<<r>>) = r /\ Tail(<<r>>) = <<>>
      BY <1>4, Zenon
    <2>5. \A s \in Seq(S) : \A r \in S : Append(s, r) = s \o <<r>>
      BY <1>4, Zenon
    <2>6. \A s, t \in Seq(S) : \A r \in S :
              Append(s \o t, r) = s \o Append(t, r)
      BY <1>7, Zenon
    <2>7. \A s \in Seq(S) : s # <<>> =>
              Head(s) \in S /\ Tail(s) \in Seq(S)
              /\ s = <<Head(s)>> \o Tail(s)
      BY <1>5, Zenon
    <2>8. QED
      BY <1>1, <1>2, <2>1, <2>2, <2>3, <2>4, <2>5, <2>6, <2>7, Zenon DEF Queues

LEMMA RequestQueues == Queues(Flow!Request)
  BY QueueFacts

LEMMA LineQueues == Queues(Flow!Line)
  BY QueueFacts

\* FlowControl transmits a request.
LEMMA AlignedSend ==
    ASSUME NEW before \in Seq(Flow!Line), NEW after \in Seq(Flow!Line),
           NEW answered \in Seq(Flow!Request), NEW rest \in Seq(Flow!Request),
           NEW in \in Seq(Flow!Request), NEW serial \in Seq(Flow!SerialMessages),
           NEW boots \in BOOLEAN,
           AlignedBy(before, after, answered, rest, in, serial, boots),
           NEW r \in CalmRequests
    PROVE  /\ Ordinary(r) => AlignedBy(before, after, answered, Append(rest, r), in,
                                       Append(serial, Flow!Data(r)), boots)
           /\ ~Ordinary(r) => AlignedBy(before, after, answered, rest, in,
                                        Append(serial, Flow!Data(r)), boots)
  <1> DEFINE message == Flow!Data(r)
             longer == Append(serial, message)
  <1>1. /\ r \in Flow!Request /\ message \in Flow!SerialMessages /\ message.kind = "Data"
        /\ message.request = r
    BY MessageTypes DEF CalmRequests, Flow!Data
  <1>2. SentFor[message] = IF Ordinary(r) THEN <<r>> ELSE <<>>
    BY <1>1 DEF SentFor, OwedFor
  <1> HIDE DEF message
  <1>3. Sent[longer] = Sent[serial] \o SentFor[message] /\ Sent[serial] \in Seq(Flow!Request)
    BY <1>1, Gatherings DEF Gathers
  <1> HIDE DEF longer
  <1>4. CASE Ordinary(r)
    <2>1. Sent[longer] = Append(Sent[serial], r)
      <3>1. Append(Sent[serial], r) = Sent[serial] \o <<r>>
        BY <1>1, <1>3, RequestQueues DEF Queues
      <3>2. QED
        BY <1>2, <1>3, <1>4, <3>1
    <2>2. /\ SumSizes[Append(rest, r)] = SumSizes[rest] + Flow!PlannedSize(r)
          /\ SumSizes[Append(Sent[serial], r)] = SumSizes[Sent[serial]] + Flow!PlannedSize(r)
          /\ SumSizes[rest] \in Nat /\ SumSizes[Sent[serial]] \in Nat /\ SumSizes[in] \in Nat
          /\ Flow!PlannedSize(r) \in Nat
      BY <1>1, <1>3, Sums
    <2>3. SumSizes[in] + SumSizes[Sent[serial]] <= SumSizes[rest]
      BY DEF AlignedBy
    <2>4. SumSizes[in] + SumSizes[Sent[longer]] <= SumSizes[Append(rest, r)]
      <3>1. SumSizes[Sent[longer]] = SumSizes[Sent[serial]] + Flow!PlannedSize(r)
        BY <2>1, <2>2
      <3>2. QED
        BY <2>2, <2>3, <3>1
    <2>5. Append(rest, r) # <<>> /\ Append(rest, r) \in Seq(Flow!Request)
      BY <1>1, AppendIsSeq
    <2>6. after = <<>> /\ ~boots => Append(rest, r) = Owed[in] \o Sent[longer]
      <3>1. Owed[in] \in Seq(Flow!Request)
        BY Gatherings DEF Gathers
      <3>2. Append(Owed[in] \o Sent[serial], r) = Owed[in] \o Append(Sent[serial], r)
        <4>1. \A s, t \in Seq(Flow!Request) : \A q \in Flow!Request :
                  Append(s \o t, q) = s \o Append(t, q)
          BY RequestQueues DEF Queues
        <4>2. QED
          BY <1>1, <1>3, <3>1, <4>1
      <3>3. QED
        BY <2>1, <3>2 DEF AlignedBy
    <2>7. TextsFit(before, answered \o Append(rest, r))
      <3>1. /\ answered \o rest # <<>> => answered \o Append(rest, r) # <<>>
            /\ answered \o rest # <<>> =>
                   Head(answered \o Append(rest, r)) = Head(answered \o rest)
        <4>1. answered \o Append(rest, r) = (answered \o rest) \o <<r>>
              /\ answered \o rest \in Seq(Flow!Request) /\ <<r>> \in Seq(Flow!Request)
          <5>1. <<r>> \in Seq(Flow!Request) /\ answered \o rest \in Seq(Flow!Request)
            BY <1>1, RequestQueues DEF Queues
          <5>2. Append(rest, r) = rest \o <<r>>
            BY <1>1, RequestQueues DEF Queues
          <5>3. \A s, t, u \in Seq(Flow!Request) : (s \o t) \o u = s \o (t \o u)
            BY RequestQueues DEF Queues
          <5>4. QED
            BY <5>1, <5>2, <5>3
        <4>2. \A s, t \in Seq(Flow!Request) :
                  s # <<>> => s \o t # <<>> /\ Head(s \o t) = Head(s)
          BY RequestQueues DEF Queues
        <4>3. QED
          BY <4>1, <4>2
      <3>2. TextsFit(before, answered \o rest)
        BY DEF AlignedBy
      <3>3. QED
        BY <3>1, <3>2, TextsFitSteps
    <2>8. AlignedBy(before, after, answered, Append(rest, r), in, longer, boots)
      BY <2>4, <2>5, <2>6, <2>7 DEF AlignedBy
    <2>9. QED
      BY <1>4, <2>8 DEF longer, message
  <1>5. CASE ~Ordinary(r)
    <2>1. Sent[longer] = Sent[serial]
      BY <1>2, <1>3, <1>5, RequestQueues DEF Queues
    <2>2. AlignedBy(before, after, answered, rest, in, longer, boots)
      BY <2>1 DEF AlignedBy
    <2>3. QED
      BY <1>5, <2>2 DEF longer, message
  <1>6. QED
    BY <1>4, <1>5

\* SerialConnection writes a request.
LEMMA AlignedWrite ==
    ASSUME NEW before \in Seq(Flow!Line), NEW after \in Seq(Flow!Line),
           NEW answered \in Seq(Flow!Request), NEW rest \in Seq(Flow!Request),
           NEW in \in Seq(Flow!Request), NEW serial \in Seq(Flow!SerialMessages),
           NEW boots \in BOOLEAN,
           AlignedBy(before, after, answered, rest, in, serial, boots),
           serial # <<>>, Head(serial).kind = "Data", Head(serial).request \in CalmRequests
    PROVE  AlignedBy(before, after, answered, rest, Append(in, Head(serial).request),
                     Tail(serial), boots)
  <1> DEFINE r == Head(serial).request
             longer == Append(in, r)
             shorter == Tail(serial)
  <1>1. /\ Head(serial) \in Flow!SerialMessages /\ shorter \in Seq(Flow!SerialMessages)
        /\ r \in CalmRequests /\ r \in Flow!Request
    BY TailIsSeq, RealtimeCounts
  <1>2. SentFor[Head(serial)] = OwedFor[r] /\ OwedFor[r] \in Seq(Flow!Request)
        /\ OwedFor[r] = IF Ordinary(r) THEN <<r>> ELSE <<>>
    BY <1>1, EmptySeq DEF SentFor, OwedFor
  <1>3. /\ Sent[serial] = OwedFor[r] \o Sent[shorter] /\ Sent[shorter] \in Seq(Flow!Request)
        /\ Owed[longer] = Owed[in] \o OwedFor[r] /\ Owed[in] \in Seq(Flow!Request)
    <2>1. Sent[serial] = SentFor[Head(serial)] \o Sent[shorter]
          /\ Sent[shorter] \in Seq(Flow!Request)
      BY <1>1, Gatherings DEF Gathers
    <2>2. Owed[longer] = Owed[in] \o OwedFor[r] /\ Owed[in] \in Seq(Flow!Request)
      <3>1. \A q \in Flow!Request : Owed[Append(in, q)] = Owed[in] \o OwedFor[q]
        BY Gatherings DEF Gathers
      <3>2. QED
        BY <1>1, <3>1, Gatherings DEF Gathers
    <2>3. QED
      BY <1>2, <2>1, <2>2
  <1>4. SumSizes[OwedFor[r]] = Flow!PlannedSize(r)
    BY <1>1, <1>2, Sums, RealtimeCounts
  <1>5. /\ SumSizes[longer] = SumSizes[in] + Flow!PlannedSize(r)
        /\ SumSizes[OwedFor[r] \o Sent[shorter]] = SumSizes[OwedFor[r]] + SumSizes[Sent[shorter]]
        /\ SumSizes[in] \in Nat /\ SumSizes[Sent[shorter]] \in Nat /\ Flow!PlannedSize(r) \in Nat
    BY <1>1, <1>2, <1>3, Sums
  <1> HIDE DEF longer, shorter, r
  <1>6. SumSizes[longer] + SumSizes[Sent[shorter]] = SumSizes[in] + SumSizes[Sent[serial]]
    BY <1>3, <1>4, <1>5
  <1>7. Owed[in] \o Sent[serial] = Owed[longer] \o Sent[shorter]
    <2>1. (Owed[in] \o OwedFor[r]) \o Sent[shorter] = Owed[in] \o (OwedFor[r] \o Sent[shorter])
      <3>1. \A s, t, u \in Seq(Flow!Request) : (s \o t) \o u = s \o (t \o u)
        BY RequestQueues DEF Queues
      <3>2. QED
        BY <1>2, <1>3, <3>1
    <2>2. QED
      BY <1>3, <2>1
  <1>8. Owed[in] = <<>> /\ Sent[serial] = <<>> => Owed[longer] = <<>> /\ Sent[shorter] = <<>>
    <2>1. Sent[serial] = <<>> => OwedFor[r] = <<>> /\ Sent[shorter] = <<>>
      <3>1. \A s, t \in Seq(Flow!Request) : s \o t = <<>> <=> s = <<>> /\ t = <<>>
        BY RequestQueues DEF Queues
      <3>2. QED
        BY <1>2, <1>3, <3>1
    <2>2. <<>> \o <<>> = <<>>
      OBVIOUS
    <2>3. QED
      BY <1>3, <2>1, <2>2
  <1>9. AlignedBy(before, after, answered, rest, longer, shorter, boots)
    BY <1>6, <1>7, <1>8 DEF AlignedBy
  <1>10. QED
    BY <1>9 DEF longer, shorter, r

-----------------------------------------------------------------------------
(* The lines the device prints *)

\* Lines in two parts and requests in two parts are aligned.
AlignedAs(lines, requests, in, serial, boots) ==
    \E before, after \in Seq(Flow!Line) : \E answered, rest \in Seq(Flow!Request) :
        /\ lines = before \o after /\ requests = answered \o rest
        /\ AlignedBy(before, after, answered, rest, in, serial, boots)

\* Which lines have replies, and which queues have tags.
LEMMA RepliesAndTags ==
    /\ Replies[<<>>] = <<>> /\ Tags[<<>>] = <<>>
    /\ \A s \in Seq(Flow!Line) : Replies[s] \in Seq(Nat)
    /\ \A q \in Seq(Flow!Request) : Tags[q] \in Seq(Nat)
    /\ \A s \in Seq(Flow!Line) : \A line \in Flow!Line :
           Replies[Append(s, line)] =
               IF line \in ReplyLines THEN Replies[s] \o <<line.tag>> ELSE Replies[s]
    /\ \A s \in Seq(Flow!Line) : s # <<>> =>
           Replies[s] = IF Head(s) \in ReplyLines THEN <<Head(s).tag>> \o Replies[Tail(s)]
                                                  ELSE Replies[Tail(s)]
    /\ \A q \in Seq(Flow!Request) : \A r \in Flow!Request :
           Tags[Append(q, r)] = Tags[q] \o <<r.tag>>
    /\ \A q \in Seq(Flow!Request) : q # <<>> =>
           Tags[q] = <<Head(q).tag>> \o Tags[Tail(q)] /\ Tags[q] # <<>>
    /\ \A s \in Seq(Flow!Line) : Replies[s] = <<>> <=> ~Holds(s, ReplyLines)
  <1>1. /\ \A line \in Flow!Line : line.tag \in Nat /\ ReplyFor[line] \in Seq(Nat)
        /\ \A line \in Flow!Line : ReplyFor[line] = IF line \in ReplyLines THEN <<line.tag>> ELSE <<>>
    <2>1. \A line \in Flow!Line : line.tag \in Nat /\ <<line.tag>> \in Seq(Nat)
      BY DEF Flow!Line
    <2>2. <<>> \in Seq(Nat)
      BY EmptySeq
    <2>3. QED
      BY <2>1, <2>2 DEF ReplyFor, ReplyLines
  <1>2. \A r \in Flow!Request : r.tag \in Nat /\ TagFor[r] = <<r.tag>>
    BY DEF TagFor, Flow!Request
  <1>3. Queues(Nat)
    BY QueueFacts
  <1>4. /\ Replies[<<>>] = <<>> /\ Tags[<<>>] = <<>>
        /\ \A s \in Seq(Flow!Line) : Replies[s] \in Seq(Nat)
        /\ \A q \in Seq(Flow!Request) : Tags[q] \in Seq(Nat)
    BY Gatherings DEF Gathers
  <1>5. ASSUME NEW s \in Seq(Flow!Line), NEW line \in Flow!Line
        PROVE  Replies[Append(s, line)] =
                   IF line \in ReplyLines THEN Replies[s] \o <<line.tag>> ELSE Replies[s]
    <2>1. Replies[Append(s, line)] = Replies[s] \o ReplyFor[line]
      BY Gatherings DEF Gathers
    <2>2. Replies[s] \o <<>> = Replies[s]
      BY <1>3, <1>4 DEF Queues
    <2>3. QED
      BY <1>1, <2>1, <2>2
  <1>6. ASSUME NEW s \in Seq(Flow!Line), s # <<>>
        PROVE  Replies[s] = IF Head(s) \in ReplyLines THEN <<Head(s).tag>> \o Replies[Tail(s)]
                                                      ELSE Replies[Tail(s)]
    <2>1. Replies[s] = ReplyFor[Head(s)] \o Replies[Tail(s)]
      BY <1>6, Gatherings DEF Gathers
    <2>2. Head(s) \in Flow!Line /\ Tail(s) \in Seq(Flow!Line)
      BY <1>6, TailIsSeq
    <2>3. <<>> \o Replies[Tail(s)] = Replies[Tail(s)]
      BY <1>3, <1>4, <2>2 DEF Queues
    <2>4. QED
      BY <1>1, <2>1, <2>2, <2>3
  <1>7. ASSUME NEW q \in Seq(Flow!Request), NEW r \in Flow!Request
        PROVE  Tags[Append(q, r)] = Tags[q] \o <<r.tag>>
    <2>1. Tags[Append(q, r)] = Tags[q] \o TagFor[r]
      BY Gatherings DEF Gathers
    <2>2. QED
      BY <1>2, <2>1
  <1>8. ASSUME NEW q \in Seq(Flow!Request), q # <<>>
        PROVE  Tags[q] = <<Head(q).tag>> \o Tags[Tail(q)] /\ Tags[q] # <<>>
    <2>1. Tags[q] = TagFor[Head(q)] \o Tags[Tail(q)]
      BY <1>8, Gatherings DEF Gathers
    <2>2. Head(q) \in Flow!Request /\ Tail(q) \in Seq(Flow!Request)
      BY <1>8, TailIsSeq
    <2>3. <<Head(q).tag>> \in Seq(Nat) /\ <<Head(q).tag>> # <<>> /\ Tags[Tail(q)] \in Seq(Nat)
      BY <1>2, <1>3, <1>4, <2>2 DEF Queues
    <2>4. \A s, t \in Seq(Nat) : s \o t = <<>> <=> s = <<>> /\ t = <<>>
      BY <1>3 DEF Queues
    <2>5. QED
      BY <1>2, <2>1, <2>2, <2>3, <2>4
  <1>9. ASSUME NEW s \in Seq(Flow!Line), ~Holds(s, ReplyLines) PROVE Replies[s] = <<>>
    <2>1. ReplyFor \in [Flow!Line -> Seq(Nat)]
      BY <1>1 DEF ReplyFor
    <2>2. Contributors(ReplyFor, Flow!Line, ReplyLines)
      BY <1>1 DEF Contributors
    <2>3. Gathers(Replies, Flow!Line, Nat, ReplyFor)
      BY Gatherings
    <2>4. Contributions(Replies, Flow!Line, ReplyLines)
      BY <2>1, <2>2, <2>3, FlatOfOthers
    <2>5. QED
      BY <1>9, <2>4 DEF Contributions
  <1>10. ASSUME NEW s \in Seq(Flow!Line), Replies[s] = <<>> PROVE ~Holds(s, ReplyLines)
    <2>1. PICK a, b \in Seq(Flow!Line) :
              s = a \o b /\ ~Holds(a, ReplyLines) /\ (b # <<>> => Head(b) \in ReplyLines)
      BY SplitBefore
    <2>2. Replies[s] = Replies[a] \o Replies[b]
      BY <2>1, Gatherings DEF Gathers
    <2>3. Replies[b] = <<>>
      <3>1. \A u, v \in Seq(Nat) : u \o v = <<>> <=> u = <<>> /\ v = <<>>
        BY <1>3 DEF Queues
      <3>2. Replies[a] \in Seq(Nat) /\ Replies[b] \in Seq(Nat)
        BY <1>4
      <3>3. Replies[a] \o Replies[b] = <<>>
        BY <1>10, <2>2
      <3>4. QED
        BY <3>1, <3>2, <3>3, Zenon
    <2>4. ASSUME b # <<>> PROVE FALSE
      <3>1. Replies[b] = <<Head(b).tag>> \o Replies[Tail(b)]
        BY <1>6, <2>1, <2>4
      <3>2. Head(b) \in Flow!Line /\ Tail(b) \in Seq(Flow!Line)
        BY <2>4, TailIsSeq
      <3>3. <<Head(b).tag>> \in Seq(Nat) /\ <<Head(b).tag>> # <<>> /\ Replies[Tail(b)] \in Seq(Nat)
        BY <1>1, <1>3, <1>4, <3>2 DEF Queues
      <3>4. \A u, v \in Seq(Nat) : u \o v = <<>> <=> u = <<>> /\ v = <<>>
        BY <1>3 DEF Queues
      <3>5. QED
        BY <2>3, <3>1, <3>3, <3>4
    <2>5. s = a
      BY <2>1, <2>4, LineQueues DEF Queues
    <2>6. QED
      BY <2>1, <2>5
  <1>11. \A s \in Seq(Flow!Line) : Replies[s] = <<>> <=> ~Holds(s, ReplyLines)
    BY <1>9, <1>10
  <1>12. QED
    BY <1>4, <1>5, <1>6, <1>7, <1>8, <1>11

\* What the device owes for a queue of requests.
LEMMA OwedRequests ==
    /\ Owed[<<>>] = <<>>
    /\ \A q \in Seq(Flow!Request) : Owed[q] \in Seq(Flow!Request)
    /\ \A q \in Seq(Flow!Request) : q # <<>> /\ Ordinary(Head(q)) =>
           /\ Owed[q] = <<Head(q)>> \o Owed[Tail(q)]
           /\ Owed[q] # <<>> /\ Head(Owed[q]) = Head(q) /\ Tail(Owed[q]) = Owed[Tail(q)]
    /\ \A s, t \in Seq(Flow!Request) : \A r \in Flow!Request :
           ~Ordinary(r) => Owed[(s \o <<r>>) \o t] = Owed[s \o t]
  <1>1. /\ Owed[<<>>] = <<>>
        /\ \A q \in Seq(Flow!Request) : Owed[q] \in Seq(Flow!Request)
        /\ \A s, t \in Seq(Flow!Request) : Owed[s \o t] = Owed[s] \o Owed[t]
    BY Gatherings DEF Gathers
  <1>2. ASSUME NEW q \in Seq(Flow!Request), q # <<>>, Ordinary(Head(q))
        PROVE  /\ Owed[q] = <<Head(q)>> \o Owed[Tail(q)]
               /\ Owed[q] # <<>> /\ Head(Owed[q]) = Head(q) /\ Tail(Owed[q]) = Owed[Tail(q)]
    <2>1. Owed[q] = OwedFor[Head(q)] \o Owed[Tail(q)]
      BY <1>2, Gatherings DEF Gathers
    <2>2. Head(q) \in Flow!Request /\ Tail(q) \in Seq(Flow!Request)
      BY <1>2, TailIsSeq
    <2>3. OwedFor[Head(q)] = <<Head(q)>>
      BY <1>2, <2>2 DEF OwedFor
    <2>4. /\ <<Head(q)>> \in Seq(Flow!Request) /\ <<Head(q)>> # <<>>
          /\ Head(<<Head(q)>>) = Head(q) /\ Tail(<<Head(q)>>) = <<>>
      BY <2>2, RequestQueues DEF Queues
    <2> DEFINE u == <<Head(q)>>
               v == Owed[Tail(q)]
    <2>5. v \in Seq(Flow!Request) /\ u \in Seq(Flow!Request) /\ u # <<>> /\ Head(u) = Head(q)
          /\ Tail(u) = <<>> /\ Owed[q] = u \o v
      BY <1>1, <2>1, <2>2, <2>3, <2>4
    <2> HIDE DEF u, v
    <2>6. u \o v # <<>> /\ Head(u \o v) = Head(u) /\ Tail(u \o v) = Tail(u) \o v /\ <<>> \o v = v
      BY <2>5, RequestQueues DEF Queues
    <2>7. QED
      BY <2>5, <2>6 DEF u, v
  <1>3. ASSUME NEW s \in Seq(Flow!Request), NEW t \in Seq(Flow!Request), NEW r \in Flow!Request,
               ~Ordinary(r)
        PROVE  Owed[(s \o <<r>>) \o t] = Owed[s \o t]
    <2>1. OwedFor[r] = <<>>
      BY <1>3 DEF OwedFor
    <2>2. s \o <<r>> = Append(s, r) /\ s \o <<r>> \in Seq(Flow!Request)
      BY RequestQueues DEF Queues
    <2>3. Owed[Append(s, r)] = Owed[s] \o OwedFor[r]
      BY Gatherings DEF Gathers
    <2>4. Owed[s] \o <<>> = Owed[s]
      BY <1>1, RequestQueues DEF Queues
    <2>5. Owed[s \o <<r>>] = Owed[s]
      BY <2>1, <2>2, <2>3, <2>4
    <2>6. Owed[(s \o <<r>>) \o t] = Owed[s \o <<r>>] \o Owed[t]
          /\ Owed[s \o t] = Owed[s] \o Owed[t]
      BY <1>1, <2>2
    <2>7. QED
      BY <2>5, <2>6
  <1>4. QED
    BY <1>1, <1>2, <1>3

\* Where a printed line goes: behind the lines before the first startup line, or behind
\* all lines.
LEMMA PrintedBehind ==
    \A before, after \in Seq(Flow!Line) : \A line \in Flow!Line :
        /\ Append(before, line) \in Seq(Flow!Line) /\ Append(after, line) \in Seq(Flow!Line)
        /\ after = <<>> => Append(before \o after, line) = Append(before, line) \o after
        /\ Append(before \o after, line) = before \o Append(after, line)
        /\ after # <<>> => Append(after, line) # <<>> /\ Head(Append(after, line)) = Head(after)
        /\ Append(<<>>, line) # <<>> /\ Head(Append(<<>>, line)) = line
        /\ \A T : /\ Holds(Append(before, line), T) <=> Holds(before, T) \/ line \in T
                  /\ Holds(Append(after, line), T) <=> Holds(after, T) \/ line \in T
  <1> TAKE before, after \in Seq(Flow!Line)
  <1> TAKE line \in Flow!Line
  <1>1. Append(before, line) \in Seq(Flow!Line) /\ Append(after, line) \in Seq(Flow!Line)
    BY AppendIsSeq
  <1>2. after = <<>> => Append(before \o after, line) = Append(before, line) \o after
    BY <1>1, LineQueues DEF Queues
  <1>3. Append(before \o after, line) = before \o Append(after, line)
    <2>1. \A s, t \in Seq(Flow!Line) : \A e \in Flow!Line : Append(s \o t, e) = s \o Append(t, e)
      BY LineQueues DEF Queues
    <2>2. QED
      BY <2>1
  <1>4. after # <<>> => Append(after, line) # <<>> /\ Head(Append(after, line)) = Head(after)
    <2>1. Append(after, line) = after \o <<line>> /\ <<line>> \in Seq(Flow!Line)
      BY LineQueues DEF Queues
    <2>2. \A s, t \in Seq(Flow!Line) : s # <<>> => Head(s \o t) = Head(s)
      BY LineQueues DEF Queues
    <2>3. QED
      BY <2>1, <2>2, AppendIsSeq
  <1>5. Append(<<>>, line) # <<>> /\ Head(Append(<<>>, line)) = line
    BY LineQueues DEF Queues
  <1>6. \A T : \A s \in Seq(Flow!Line) : Holds(Append(s, line), T) <=> Holds(s, T) \/ line \in T
    <2> TAKE T
    <2>1. QED
      BY HoldsOfAppend
  <1>7. QED
    BY <1>1, <1>2, <1>3, <1>4, <1>5, <1>6

\* The device prints a line that is neither a startup line nor part of a reply.
LEMMA AlignedOther ==
    ASSUME NEW lines \in Seq(Flow!Line), NEW requests \in Seq(Flow!Request),
           NEW in \in Seq(Flow!Request), NEW serial \in Seq(Flow!SerialMessages),
           NEW boots \in BOOLEAN, NEW line \in Flow!Line,
           AlignedAs(lines, requests, in, serial, boots),
           line \notin StartupLines, line \notin AnswerLines
    PROVE  AlignedAs(Append(lines, line), requests, in, serial, boots)
  <1>1. PICK before, after \in Seq(Flow!Line) : \E answered, rest \in Seq(Flow!Request) :
            /\ lines = before \o after /\ requests = answered \o rest
            /\ AlignedBy(before, after, answered, rest, in, serial, boots)
    BY DEF AlignedAs
  <1>2. PICK answered, rest \in Seq(Flow!Request) :
            /\ lines = before \o after /\ requests = answered \o rest
            /\ AlignedBy(before, after, answered, rest, in, serial, boots)
    BY <1>1
  <1>3. line \notin ReplyLines /\ line \notin TextLines
    BY DEF AnswerLines
  <1>4. CASE after = <<>>
    <2> DEFINE longer == Append(before, line)
    <2>1. /\ longer \in Seq(Flow!Line) /\ Append(lines, line) = longer \o after
          /\ ~Holds(before, StartupLines) => ~Holds(longer, StartupLines)
      BY <1>2, <1>4, PrintedBehind
    <2>2. Replies[longer] = Replies[before]
      BY <1>3, RepliesAndTags
    <2>3. TextsFit(before, answered \o rest) => TextsFit(longer, answered \o rest)
      BY <1>3, TextsFitSteps
    <2> HIDE DEF longer
    <2>4. AlignedBy(longer, after, answered, rest, in, serial, boots)
      BY <1>2, <2>1, <2>2, <2>3 DEF AlignedBy
    <2>5. QED
      BY <1>2, <2>1, <2>4 DEF AlignedAs
  <1>5. CASE after # <<>>
    <2> DEFINE longer == Append(after, line)
    <2>1. /\ longer \in Seq(Flow!Line) /\ Append(lines, line) = before \o longer
          /\ longer # <<>> /\ Head(longer) = Head(after)
          /\ ~Holds(after, AnswerLines) => ~Holds(longer, AnswerLines)
      <3>0. \A s, t \in Seq(Flow!Line) : \A e \in Flow!Line : Append(s \o t, e) = s \o Append(t, e)
        BY LineQueues DEF Queues
      <3>1. longer \in Seq(Flow!Line) /\ Append(before \o after, line) = before \o longer
            /\ longer # <<>> /\ Head(longer) = Head(after)
        <4>1. Append(before \o after, line) = before \o Append(after, line)
          BY <1>1, <3>0
        <4>2. Append(after, line) # <<>> /\ Head(Append(after, line)) = Head(after)
              /\ Append(after, line) \in Seq(Flow!Line)
          BY <1>1, <1>5, PrintedBehind
        <4>3. QED
          BY <4>1, <4>2
      <3>2. Holds(longer, AnswerLines) <=> Holds(after, AnswerLines) \/ line \in AnswerLines
        BY <1>1, PrintedBehind
      <3>3. QED
        BY <1>2, <3>1, <3>2
    <2> HIDE DEF longer
    <2>2. AlignedBy(before, longer, answered, rest, in, serial, boots)
      BY <1>2, <1>5, <2>1 DEF AlignedBy
    <2>3. QED
      BY <1>2, <2>1, <2>2 DEF AlignedAs
  <1>6. QED
    BY <1>4, <1>5

\* The device starts up: what was written to it is lost.
LEMMA AlignedBoot ==
    ASSUME NEW lines \in Seq(Flow!Line), NEW requests \in Seq(Flow!Request),
           NEW in \in Seq(Flow!Request), NEW serial \in Seq(Flow!SerialMessages),
           NEW line \in StartupLines,
           AlignedAs(lines, requests, in, serial, TRUE)
    PROVE  AlignedAs(Append(lines, line), requests, <<>>, serial, FALSE)
  <1>1. PICK before, after \in Seq(Flow!Line) : \E answered, rest \in Seq(Flow!Request) :
            /\ lines = before \o after /\ requests = answered \o rest
            /\ AlignedBy(before, after, answered, rest, in, serial, TRUE)
    BY DEF AlignedAs
  <1>2. PICK answered, rest \in Seq(Flow!Request) :
            /\ lines = before \o after /\ requests = answered \o rest
            /\ AlignedBy(before, after, answered, rest, in, serial, TRUE)
    BY <1>1
  <1>3. line \in Flow!Line /\ line \notin AnswerLines
    BY DEF StartupLines, Startup, AnswerLines, ReplyLines, TextLines
  <1> DEFINE longer == Append(after, line)
  <1>4. /\ longer \in Seq(Flow!Line) /\ Append(lines, line) = before \o longer
        /\ longer # <<>> /\ Head(longer) = (IF after = <<>> THEN line ELSE Head(after))
        /\ ~Holds(after, AnswerLines) => ~Holds(longer, AnswerLines)
    <2>1. longer \in Seq(Flow!Line) /\ Append(before \o after, line) = before \o longer
      <3>1. \A s, t \in Seq(Flow!Line) : \A e \in Flow!Line : Append(s \o t, e) = s \o Append(t, e)
        BY LineQueues DEF Queues
      <3>2. QED
        BY <1>1, <1>3, <3>1, AppendIsSeq
    <2>2. longer # <<>> /\ Head(longer) = (IF after = <<>> THEN line ELSE Head(after))
      BY <1>1, <1>3, PrintedBehind
    <2>3. Holds(longer, AnswerLines) <=> Holds(after, AnswerLines) \/ line \in AnswerLines
      BY <1>1, <1>3, PrintedBehind
    <2>4. QED
      BY <1>2, <1>3, <2>1, <2>2, <2>3
  <1> HIDE DEF longer
  <1>5. /\ SumSizes[<<>>] = 0 /\ SumSizes[in] \in Nat /\ SumSizes[Sent[serial]] \in Nat
        /\ SumSizes[rest] \in Nat
    <2>1. Sent[serial] \in Seq(Flow!Request)
      BY Gatherings DEF Gathers
    <2>2. QED
      BY <2>1, Sums
  <1>6. SumSizes[<<>>] + SumSizes[Sent[serial]] <= SumSizes[rest]
    <2>1. SumSizes[in] + SumSizes[Sent[serial]] <= SumSizes[rest]
      BY <1>2 DEF AlignedBy
    <2>2. QED
      BY <1>5, <2>1
  <1>7. AlignedBy(before, longer, answered, rest, <<>>, serial, FALSE)
    BY <1>2, <1>4, <1>6, OwedRequests DEF AlignedBy
  <1>8. QED
    BY <1>2, <1>4, <1>7 DEF AlignedAs

\* The device restarts.
LEMMA AlignedRestart ==
    ASSUME NEW lines, NEW requests, NEW in \in Seq(Flow!Request),
           NEW serial \in Seq(Flow!SerialMessages),
           AlignedAs(lines, requests, in, serial, FALSE)
    PROVE  AlignedAs(lines, requests, in, serial, TRUE)
  <1>1. PICK before, after \in Seq(Flow!Line) : \E answered, rest \in Seq(Flow!Request) :
            /\ lines = before \o after /\ requests = answered \o rest
            /\ AlignedBy(before, after, answered, rest, in, serial, FALSE)
    BY DEF AlignedAs
  <1>2. PICK answered, rest \in Seq(Flow!Request) :
            /\ lines = before \o after /\ requests = answered \o rest
            /\ AlignedBy(before, after, answered, rest, in, serial, FALSE)
    BY <1>1
  <1>3. after = <<>> /\ rest = <<>> => Owed[in] = <<>> /\ Sent[serial] = <<>>
    <2>1. after = <<>> => rest = Owed[in] \o Sent[serial]
      BY <1>2 DEF AlignedBy
    <2>2. Owed[in] \in Seq(Flow!Request) /\ Sent[serial] \in Seq(Flow!Request)
      BY Gatherings DEF Gathers
    <2>3. \A s, t \in Seq(Flow!Request) : s \o t = <<>> <=> s = <<>> /\ t = <<>>
      BY RequestQueues DEF Queues
    <2>4. QED
      BY <2>1, <2>2, <2>3
  <1>4. AlignedBy(before, after, answered, rest, in, serial, TRUE)
    BY <1>2, <1>3, HoldsOfEmpty DEF AlignedBy
  <1>5. QED
    BY <1>2, <1>4 DEF AlignedAs

\* The device takes a realtime request out of its input.
LEMMA AlignedTake ==
    ASSUME NEW lines, NEW requests, NEW a \in Seq(Flow!Request), NEW b \in Seq(Flow!Request),
           NEW r \in CalmRequests, ~Ordinary(r),
           NEW serial \in Seq(Flow!SerialMessages), NEW boots \in BOOLEAN,
           AlignedAs(lines, requests, (a \o <<r>>) \o b, serial, boots)
    PROVE  AlignedAs(lines, requests, a \o b, serial, boots)
  <1> DEFINE in == (a \o <<r>>) \o b
  <1>1. PICK before, after \in Seq(Flow!Line) : \E answered, rest \in Seq(Flow!Request) :
            /\ lines = before \o after /\ requests = answered \o rest
            /\ AlignedBy(before, after, answered, rest, in, serial, boots)
    BY DEF AlignedAs
  <1>2. PICK answered, rest \in Seq(Flow!Request) :
            /\ lines = before \o after /\ requests = answered \o rest
            /\ AlignedBy(before, after, answered, rest, in, serial, boots)
    BY <1>1
  <1>3. r \in Flow!Request /\ Flow!PlannedSize(r) = 0
    BY RealtimeCounts
  <1>4. Owed[in] = Owed[a \o b]
    BY <1>3, OwedRequests
  <1>5. SumSizes[in] = SumSizes[a \o b]
    <2>1. a \o <<r>> \in Seq(Flow!Request) /\ a \o <<r>> = Append(a, r)
      BY <1>3, RequestQueues DEF Queues
    <2>2. SumSizes[in] = SumSizes[a \o <<r>>] + SumSizes[b]
      BY <2>1, Sums
    <2>3. SumSizes[a \o <<r>>] = SumSizes[a] + Flow!PlannedSize(r) /\ SumSizes[a] \in Nat
      BY <1>3, <2>1, Sums
    <2>4. SumSizes[a \o b] = SumSizes[a] + SumSizes[b]
      BY Sums
    <2>5. QED
      BY <1>3, <2>2, <2>3, <2>4
  <1> HIDE DEF in
  <1>6. AlignedBy(before, after, answered, rest, a \o b, serial, boots)
    BY <1>2, <1>4, <1>5 DEF AlignedBy
  <1>7. QED
    BY <1>2, <1>6 DEF AlignedAs

\* The request the device replies to next is the first of those without a reply.
OwedNext(rest, in, serial) ==
    Head(rest) = Head(in) /\ Tail(rest) = Owed[Tail(in)] \o Sent[serial]

LEMMA AlignedNext ==
    ASSUME NEW after, NEW rest \in Seq(Flow!Request),
           NEW in \in Seq(Flow!Request), NEW serial \in Seq(Flow!SerialMessages),
           after = <<>> => rest = Owed[in] \o Sent[serial],
           after # <<>> /\ rest = <<>> => Owed[in] = <<>>,
           in # <<>>, Ordinary(Head(in))
    PROVE  rest # <<>> /\ (after = <<>> => OwedNext(rest, in, serial))
  <1>1. /\ Owed[in] \in Seq(Flow!Request) /\ Owed[in] # <<>> /\ Head(Owed[in]) = Head(in)
        /\ Tail(Owed[in]) = Owed[Tail(in)]
    BY OwedRequests
  <1>2. Sent[serial] \in Seq(Flow!Request)
    BY Gatherings DEF Gathers
  <1>3. CASE after = <<>>
    <2>1. rest = Owed[in] \o Sent[serial]
      BY <1>3
    <2>2. \A s, t \in Seq(Flow!Request) :
              s # <<>> => Head(s \o t) = Head(s) /\ Tail(s \o t) = Tail(s) \o t
      BY RequestQueues DEF Queues
    <2>6. \A s, t \in Seq(Flow!Request) : s \o t = <<>> <=> s = <<>> /\ t = <<>>
      BY RequestQueues DEF Queues
    <2> DEFINE u == Owed[in]
               v == Sent[serial]
    <2>3. u \in Seq(Flow!Request) /\ v \in Seq(Flow!Request) /\ u # <<>> /\ rest = u \o v
      BY <1>1, <1>2, <2>1
    <2> HIDE DEF u, v
    <2>4. u \o v # <<>> /\ Head(u \o v) = Head(u) /\ Tail(u \o v) = Tail(u) \o v
      BY <2>2, <2>3, <2>6
    <2>5. QED
      BY <1>1, <1>3, <2>3, <2>4 DEF u, v, OwedNext
  <1>4. CASE after # <<>>
    BY <1>1, <1>4
  <1>5. QED
    BY <1>3, <1>4

\* The device replies.
LEMMA AlignedReply ==
    ASSUME NEW lines \in Seq(Flow!Line), NEW requests \in Seq(Flow!Request),
           NEW in \in Seq(Flow!Request), NEW serial \in Seq(Flow!SerialMessages),
           AlignedAs(lines, requests, in, serial, FALSE),
           in # <<>>, Ordinary(Head(in)),
           NEW line \in ReplyLines, line.tag = Head(in).tag
    PROVE  AlignedAs(Append(lines, line), requests, Tail(in), serial, FALSE)
  <1>1. PICK before, after \in Seq(Flow!Line) : \E answered, rest \in Seq(Flow!Request) :
            /\ lines = before \o after /\ requests = answered \o rest
            /\ AlignedBy(before, after, answered, rest, in, serial, FALSE)
    BY DEF AlignedAs
  <1>2. PICK answered, rest \in Seq(Flow!Request) :
            /\ lines = before \o after /\ requests = answered \o rest
            /\ AlignedBy(before, after, answered, rest, in, serial, FALSE)
    BY <1>1
  <1>3. line \in Flow!Line /\ line \notin TextLines /\ line \notin StartupLines
    BY DEF ReplyLines, TextLines, StartupLines, Startup
  <1>4. /\ rest # <<>>
        /\ after = <<>> => /\ Head(rest) = Head(in)
                           /\ Tail(rest) = Owed[Tail(in)] \o Sent[serial]
    <2>1. /\ rest \in Seq(Flow!Request)
          /\ after = <<>> => rest = Owed[in] \o Sent[serial]
          /\ after # <<>> /\ rest = <<>> => Owed[in] = <<>>
      BY <1>1, <1>2 DEF AlignedBy
    <2>2. rest # <<>> /\ (after = <<>> => OwedNext(rest, in, serial))
      BY <2>1, AlignedNext
    <2>3. QED
      BY <2>2 DEF OwedNext
  <1>5. /\ Head(in) \in Flow!Request /\ Tail(in) \in Seq(Flow!Request)
        /\ Tail(rest) \in Seq(Flow!Request) /\ Head(rest) \in Flow!Request
    BY <1>2, <1>4, TailIsSeq
  <1>6. /\ SumSizes[in] = Flow!PlannedSize(Head(in)) + SumSizes[Tail(in)]
        /\ SumSizes[rest] = Flow!PlannedSize(Head(rest)) + SumSizes[Tail(rest)]
        /\ Flow!PlannedSize(Head(in)) \in Nat /\ Flow!PlannedSize(Head(rest)) \in Nat
        /\ SumSizes[Tail(in)] \in Nat /\ SumSizes[Tail(rest)] \in Nat
    BY <1>2, <1>4, <1>5, Sums
  <1>7. SumSizes[Sent[serial]] \in Nat
    <2>1. Sent[serial] \in Seq(Flow!Request)
      BY Gatherings DEF Gathers
    <2>2. QED
      BY <2>1, Sums
  <1>8. SumSizes[in] + SumSizes[Sent[serial]] <= SumSizes[rest]
    BY <1>2 DEF AlignedBy
  <1>9. CASE after = <<>>
    <2> DEFINE longer == Append(before, line)
               done == Append(answered, Head(rest))
    <2>1. /\ longer \in Seq(Flow!Line) /\ Append(lines, line) = longer \o after
          /\ ~Holds(before, StartupLines) => ~Holds(longer, StartupLines)
      BY <1>1, <1>2, <1>3, <1>9, PrintedBehind
    <2>2. Replies[longer] = Replies[before] \o <<Head(in).tag>>
      BY <1>1, <1>3, RepliesAndTags
    <2>3. Tags[done] = Tags[answered] \o <<Head(in).tag>>
      <3>1. \A r \in Flow!Request : Tags[Append(answered, r)] = Tags[answered] \o <<r.tag>>
        BY <1>2, RepliesAndTags
      <3>2. Head(rest) = Head(in)
        BY <1>4, <1>9
      <3>3. QED
        BY <1>5, <3>1, <3>2
    <2>4. requests = done \o Tail(rest) /\ done \in Seq(Flow!Request)
      <3>1. done = answered \o <<Head(rest)>> /\ <<Head(rest)>> \in Seq(Flow!Request)
            /\ done \in Seq(Flow!Request)
        BY <1>2, <1>5, RequestQueues, AppendIsSeq DEF Queues
      <3>2. rest = <<Head(rest)>> \o Tail(rest)
        BY <1>2, <1>4, RequestQueues DEF Queues
      <3>3. \A s, t, u \in Seq(Flow!Request) : (s \o t) \o u = s \o (t \o u)
        BY RequestQueues DEF Queues
      <3>4. \A t, u \in Seq(Flow!Request) : (answered \o t) \o u = answered \o (t \o u)
        <4>1. answered \in Seq(Flow!Request)
          BY <1>2
        <4>2. QED
          BY <3>3, <4>1
      <3> DEFINE first == <<Head(rest)>>
      <3>5. first \in Seq(Flow!Request) /\ done = answered \o first /\ rest = first \o Tail(rest)
        BY <3>1, <3>2
      <3> HIDE DEF first, done
      <3>6. (answered \o first) \o Tail(rest) = answered \o (first \o Tail(rest))
        BY <1>5, <3>4, <3>5
      <3>7. QED
        BY <1>2, <3>1, <3>5, <3>6
    <2>5. TextsFit(longer, requests)
      <3>1. TextsFit(before, requests)
        BY <1>2 DEF AlignedBy
      <3>2. QED
        BY <1>1, <1>3, <3>1, TextsFitSteps
    <2>6. SumSizes[Tail(in)] + SumSizes[Sent[serial]] <= SumSizes[Tail(rest)]
      <3>1. Head(rest) = Head(in)
        BY <1>4, <1>9
      <3> DEFINE size == Flow!PlannedSize(Head(in))
      <3>2. /\ SumSizes[in] = size + SumSizes[Tail(in)]
            /\ SumSizes[rest] = size + SumSizes[Tail(rest)]
            /\ size \in Nat /\ SumSizes[Tail(in)] \in Nat /\ SumSizes[Tail(rest)] \in Nat
        BY <1>6, <3>1
      <3>3. \A a, b, c, d \in Nat : (a + b) + c <= a + d => b + c <= d
        OBVIOUS
      <3> HIDE DEF size
      <3>4. (size + SumSizes[Tail(in)]) + SumSizes[Sent[serial]] <= size + SumSizes[Tail(rest)]
        BY <1>8, <3>2
      <3>5. QED
        BY <1>7, <3>2, <3>3, <3>4
    <2> HIDE DEF longer, done
    <2>7. AlignedBy(longer, after, done, Tail(rest), Tail(in), serial, FALSE)
      BY <1>2, <1>4, <1>9, <2>1, <2>2, <2>3, <2>4, <2>5, <2>6 DEF AlignedBy
    <2>8. QED
      BY <1>1, <1>5, <2>1, <2>4, <2>7 DEF AlignedAs
  <1>10. CASE after # <<>>
    <2> DEFINE longer == Append(after, line)
    <2>1. /\ longer \in Seq(Flow!Line) /\ Append(lines, line) = before \o longer
          /\ longer # <<>> /\ Head(longer) = Head(after)
      <3>1. \A s, t \in Seq(Flow!Line) : \A e \in Flow!Line : Append(s \o t, e) = s \o Append(t, e)
        BY LineQueues DEF Queues
      <3>2. Append(lines, line) = before \o longer
        BY <1>1, <1>2, <1>3, <3>1
      <3>3. Append(after, line) # <<>> /\ Head(Append(after, line)) = Head(after)
            /\ Append(after, line) \in Seq(Flow!Line)
        BY <1>1, <1>3, <1>10, PrintedBehind
      <3>4. QED
        BY <3>2, <3>3
    <2>2. SumSizes[Tail(in)] + SumSizes[Sent[serial]] <= SumSizes[rest]
      <3> DEFINE size == Flow!PlannedSize(Head(in))
      <3>1. /\ SumSizes[in] = size + SumSizes[Tail(in)] /\ SumSizes[rest] \in Nat
            /\ size \in Nat /\ SumSizes[Tail(in)] \in Nat
        <4>1. SumSizes[rest] \in Nat
          BY <1>2, Sums
        <4>2. QED
          BY <1>6, <4>1
      <3>2. \A a, b, c, d \in Nat : (a + b) + c <= d => b + c <= d
        OBVIOUS
      <3> HIDE DEF size
      <3>3. (size + SumSizes[Tail(in)]) + SumSizes[Sent[serial]] <= SumSizes[rest]
        BY <1>8, <3>1
      <3>4. QED
        BY <1>7, <3>1, <3>2, <3>3
    <2> HIDE DEF longer
    <2>3. AlignedBy(before, longer, answered, rest, Tail(in), serial, FALSE)
      BY <1>2, <1>4, <1>10, <2>1, <2>2 DEF AlignedBy
    <2>4. QED
      BY <1>1, <1>2, <2>1, <2>3 DEF AlignedAs
  <1>11. QED
    BY <1>9, <1>10

\* A greedy request is transmitted when nothing is outstanding.
GreedyFirstIn(requests) == \A i \in 2..Len(requests) : requests[i].type \notin Greedy

\* The device begins a reply of several lines.
LEMMA AlignedText ==
    ASSUME NEW lines \in Seq(Flow!Line), NEW requests \in Seq(Flow!Request),
           NEW in \in Seq(Flow!Request), NEW serial \in Seq(Flow!SerialMessages),
           AlignedAs(lines, requests, in, serial, FALSE),
           GreedyFirstIn(requests),
           in # <<>>, Head(in) \in CalmRequests, Head(in).type \in Multiline,
           NEW line \in TextLines, line.tag = Head(in).tag
    PROVE  AlignedAs(Append(lines, line), requests, in, serial, FALSE)
  <1>1. PICK before, after \in Seq(Flow!Line) : \E answered, rest \in Seq(Flow!Request) :
            /\ lines = before \o after /\ requests = answered \o rest
            /\ AlignedBy(before, after, answered, rest, in, serial, FALSE)
    BY DEF AlignedAs
  <1>2. PICK answered, rest \in Seq(Flow!Request) :
            /\ lines = before \o after /\ requests = answered \o rest
            /\ AlignedBy(before, after, answered, rest, in, serial, FALSE)
    BY <1>1
  <1>3. line \in Flow!Line /\ line \notin ReplyLines /\ line \notin StartupLines
    BY DEF ReplyLines, TextLines, StartupLines, Startup
  <1>4. Ordinary(Head(in)) /\ Head(in).type \in Greedy
    BY RealtimeCounts
  <1>5. rest # <<>> /\ (after = <<>> => Head(rest) = Head(in))
    <2>1. /\ rest \in Seq(Flow!Request)
          /\ after = <<>> => rest = Owed[in] \o Sent[serial]
          /\ after # <<>> /\ rest = <<>> => Owed[in] = <<>>
      BY <1>1, <1>2 DEF AlignedBy
    <2>2. QED
      BY <1>4, <2>1, AlignedNext DEF OwedNext
  <1>6. CASE after = <<>>
    <2> DEFINE longer == Append(before, line)
    <2>1. /\ longer \in Seq(Flow!Line) /\ Append(lines, line) = longer \o after
          /\ ~Holds(before, StartupLines) => ~Holds(longer, StartupLines)
      BY <1>1, <1>2, <1>3, <1>6, PrintedBehind
    <2>2. Replies[longer] = Replies[before]
      BY <1>1, <1>3, RepliesAndTags
    <2>3. answered = <<>>
      <3> SUFFICES ASSUME answered # <<>> PROVE FALSE
        OBVIOUS
      <3>1. /\ Len(answered) \in Nat /\ Len(answered) > 0 /\ Len(rest) \in Nat /\ Len(rest) > 0
            /\ Head(rest) = rest[1]
        BY <1>2, <1>5, TailIsSeq
      <3>2. Len(requests) = Len(answered) + Len(rest)
            /\ requests[Len(answered) + 1] = rest[1]
        BY <1>2, <3>1, ConcatProperties
      <3>3. Len(answered) + 1 \in 2..Len(requests)
        BY <3>1, <3>2
      <3>4. requests[Len(answered) + 1].type \in Greedy
        BY <1>4, <1>5, <1>6, <3>1, <3>2
      <3>5. QED
        BY <3>3, <3>4 DEF GreedyFirstIn
    <2>4. requests = rest
      BY <1>2, <2>3, RequestQueues DEF Queues
    <2>5. ~Holds(before, ReplyLines)
      <3>1. Replies[before] = <<>>
        BY <1>2, <2>3, RepliesAndTags DEF AlignedBy
      <3>2. QED
        BY <1>1, <3>1, RepliesAndTags
    <2>6. TextsFit(longer, requests)
      <3>1. TextsFit(before, requests)
        BY <1>2 DEF AlignedBy
      <3>2. Begins(line, requests)
        BY <1>5, <1>6, <2>4 DEF Begins
      <3>3. QED
        BY <1>1, <1>3, <2>5, <3>1, <3>2, TextsFitSteps
    <2> HIDE DEF longer
    <2>7. AlignedBy(longer, after, answered, rest, in, serial, FALSE)
      BY <1>2, <2>1, <2>2, <2>6 DEF AlignedBy
    <2>8. QED
      BY <1>1, <1>2, <2>1, <2>7 DEF AlignedAs
  <1>7. CASE after # <<>>
    <2> DEFINE longer == Append(after, line)
    <2>1. /\ longer \in Seq(Flow!Line) /\ Append(lines, line) = before \o longer
          /\ longer # <<>> /\ Head(longer) = Head(after)
      <3>1. \A s, t \in Seq(Flow!Line) : \A e \in Flow!Line : Append(s \o t, e) = s \o Append(t, e)
        BY LineQueues DEF Queues
      <3>2. Append(lines, line) = before \o longer
        BY <1>1, <1>2, <1>3, <3>1
      <3>3. Append(after, line) # <<>> /\ Head(Append(after, line)) = Head(after)
            /\ Append(after, line) \in Seq(Flow!Line)
        BY <1>1, <1>3, <1>7, PrintedBehind
      <3>4. QED
        BY <3>2, <3>3
    <2> HIDE DEF longer
    <2>2. AlignedBy(before, longer, answered, rest, in, serial, FALSE)
      BY <1>2, <1>5, <1>7, <2>1 DEF AlignedBy
    <2>3. QED
      BY <1>1, <1>2, <2>1, <2>2 DEF AlignedAs
  <1>8. QED
    BY <1>6, <1>7

-----------------------------------------------------------------------------
(* The lines FlowControl reads *)

\* FlowControl reads a line that neither ends a reply nor starts the device up.
LEMMA AlignedReadOther ==
    ASSUME NEW lines \in Seq(Flow!Line), NEW requests \in Seq(Flow!Request),
           NEW in \in Seq(Flow!Request), NEW serial \in Seq(Flow!SerialMessages),
           NEW boots \in BOOLEAN,
           AlignedAs(lines, requests, in, serial, boots),
           lines # <<>>, Head(lines) \notin StartupLines, Head(lines) \notin ReplyLines
    PROVE  /\ AlignedAs(Tail(lines), requests, in, serial, boots)
           /\ Head(lines) \in TextLines => Begins(Head(lines), requests)
  <1>1. PICK before, after \in Seq(Flow!Line) : \E answered, rest \in Seq(Flow!Request) :
            /\ lines = before \o after /\ requests = answered \o rest
            /\ AlignedBy(before, after, answered, rest, in, serial, boots)
    BY DEF AlignedAs
  <1>2. PICK answered, rest \in Seq(Flow!Request) :
            /\ lines = before \o after /\ requests = answered \o rest
            /\ AlignedBy(before, after, answered, rest, in, serial, boots)
    BY <1>1
  <1>3. before # <<>>
    <2>1. before = <<>> => lines = after
      BY <1>1, <1>2, LineQueues DEF Queues
    <2>2. QED
      BY <1>2, <2>1 DEF AlignedBy
  <1>4. /\ Head(lines) = Head(before) /\ Tail(lines) = Tail(before) \o after
        /\ Tail(before) \in Seq(Flow!Line) /\ Head(before) \in Flow!Line
        /\ Head(before) = before[1] /\ 1 \in 1..Len(before)
    <2>1. \A s, t \in Seq(Flow!Line) :
              s # <<>> => Head(s \o t) = Head(s) /\ Tail(s \o t) = Tail(s) \o t
      BY LineQueues DEF Queues
    <2>2. /\ Tail(before) \in Seq(Flow!Line) /\ Head(before) \in Flow!Line
          /\ Head(before) = before[1] /\ 1 \in 1..Len(before)
      BY <1>1, <1>3, TailIsSeq
    <2>3. QED
      BY <1>1, <1>2, <1>3, <2>1, <2>2
  <1>5. Replies[before] = Replies[Tail(before)]
    BY <1>1, <1>3, <1>4, RepliesAndTags
  <1>6. ~Holds(Tail(before), StartupLines)
    BY <1>1, <1>2, <1>3, HoldsOfTail DEF AlignedBy
  <1>7. TextsFit(before, requests)
    BY <1>2 DEF AlignedBy
  <1>8. TextsFit(Tail(before), requests)
    BY <1>1, <1>3, <1>7, TextsFitSteps
  <1>9. Head(lines) \in TextLines => Begins(Head(lines), requests)
    BY <1>4, <1>7 DEF TextsFit
  <1> DEFINE shorter == Tail(before)
  <1>10. AlignedBy(shorter, after, answered, rest, in, serial, boots)
    BY <1>2, <1>5, <1>6, <1>8 DEF AlignedBy
  <1>11. QED
    BY <1>1, <1>2, <1>4, <1>9, <1>10 DEF AlignedAs

\* It reads the end of a reply: there is a request it answers.
LEMMA AlignedReadReply ==
    ASSUME NEW lines \in Seq(Flow!Line), NEW requests \in Seq(Flow!Request),
           NEW in \in Seq(Flow!Request), NEW serial \in Seq(Flow!SerialMessages),
           NEW boots \in BOOLEAN,
           AlignedAs(lines, requests, in, serial, boots),
           lines # <<>>, Head(lines) \in ReplyLines
    PROVE  /\ requests # <<>>
           /\ AlignedAs(Tail(lines), Tail(requests), in, serial, boots)
           /\ Head(lines).tag = Head(requests).tag
  <1>1. PICK before, after \in Seq(Flow!Line) : \E answered, rest \in Seq(Flow!Request) :
            /\ lines = before \o after /\ requests = answered \o rest
            /\ AlignedBy(before, after, answered, rest, in, serial, boots)
    BY DEF AlignedAs
  <1>2. PICK answered, rest \in Seq(Flow!Request) :
            /\ lines = before \o after /\ requests = answered \o rest
            /\ AlignedBy(before, after, answered, rest, in, serial, boots)
    BY <1>1
  <1>3. before # <<>>
    <2>1. before = <<>> => lines = after
      BY <1>1, <1>2, LineQueues DEF Queues
    <2>2. Head(lines) \notin StartupLines
      BY DEF ReplyLines, StartupLines, Startup
    <2>3. QED
      BY <1>2, <2>1, <2>2 DEF AlignedBy
  <1>4. /\ Head(lines) = Head(before) /\ Tail(lines) = Tail(before) \o after
        /\ Tail(before) \in Seq(Flow!Line) /\ Head(before) \in Flow!Line
    <2>1. \A s, t \in Seq(Flow!Line) :
              s # <<>> => Head(s \o t) = Head(s) /\ Tail(s \o t) = Tail(s) \o t
      BY LineQueues DEF Queues
    <2>2. Tail(before) \in Seq(Flow!Line) /\ Head(before) \in Flow!Line
      BY <1>1, <1>3, TailIsSeq
    <2>3. QED
      BY <1>1, <1>2, <1>3, <2>1, <2>2
  <1>5. Tags[answered] = <<Head(before).tag>> \o Replies[Tail(before)]
    <2>1. Replies[before] = <<Head(before).tag>> \o Replies[Tail(before)]
      BY <1>1, <1>3, <1>4, RepliesAndTags
    <2>2. QED
      BY <1>2, <2>1 DEF AlignedBy
  <1>6. /\ Head(before).tag \in Nat /\ <<Head(before).tag>> \in Seq(Nat)
        /\ Replies[Tail(before)] \in Seq(Nat)
    <2>1. \A line \in Flow!Line : line.tag \in Nat
      BY DEF Flow!Line
    <2>2. \A s \in Seq(Flow!Line) : Replies[s] \in Seq(Nat)
      BY RepliesAndTags
    <2>3. Head(before).tag \in Nat
      BY <1>4, <2>1
    <2>4. \A n \in Nat : <<n>> \in Seq(Nat)
      OBVIOUS
    <2>5. QED
      BY <1>4, <2>2, <2>3, <2>4
  <1>7. Queues(Nat)
    BY QueueFacts
  <1>8. answered # <<>>
    <2>1. <<Head(before).tag>> \o Replies[Tail(before)] # <<>>
      <3>1. \A s, t \in Seq(Nat) : s \o t = <<>> <=> s = <<>> /\ t = <<>>
        BY <1>7 DEF Queues
      <3>2. <<Head(before).tag>> # <<>>
        OBVIOUS
      <3>3. QED
        BY <1>6, <3>1, <3>2
    <2>2. QED
      BY <1>5, <2>1, RepliesAndTags
  <1>9. /\ Tail(answered) \in Seq(Flow!Request) /\ Head(answered) \in Flow!Request
        /\ Head(answered).tag \in Nat
    <2>1. Tail(answered) \in Seq(Flow!Request) /\ Head(answered) \in Flow!Request
      BY <1>2, <1>8, TailIsSeq
    <2>2. \A r \in Flow!Request : r.tag \in Nat
      BY DEF Flow!Request
    <2>3. QED
      BY <2>1, <2>2
  <1>10. /\ Head(requests) = Head(answered) /\ Tail(requests) = Tail(answered) \o rest
         /\ requests # <<>>
    <2>1. \A s, t \in Seq(Flow!Request) :
              s # <<>> => Head(s \o t) = Head(s) /\ Tail(s \o t) = Tail(s) \o t
      BY RequestQueues DEF Queues
    <2>2. \A s, t \in Seq(Flow!Request) : s \o t = <<>> <=> s = <<>> /\ t = <<>>
      BY RequestQueues DEF Queues
    <2>3. QED
      BY <1>2, <1>8, <2>1, <2>2
  <1>11. Head(answered).tag = Head(before).tag /\ Tags[Tail(answered)] = Replies[Tail(before)]
    <2> DEFINE u == Tags[Tail(answered)]
               v == Replies[Tail(before)]
               a == Head(answered).tag
               b == Head(before).tag
    <2>1. <<a>> \o u = <<b>> \o v
      BY <1>2, <1>5, <1>8, RepliesAndTags
    <2>2. u \in Seq(Nat) /\ v \in Seq(Nat) /\ a \in Nat /\ b \in Nat
      BY <1>4, <1>6, <1>9, RepliesAndTags
    <2> HIDE DEF u, v, a, b
    <2>3. /\ Head(<<a>> \o u) = a /\ Tail(<<a>> \o u) = u
          /\ Head(<<b>> \o v) = b /\ Tail(<<b>> \o v) = v
      <3>1. Queues(Nat)
        BY QueueFacts
      <3>2. \A n \in Nat : \A q \in Seq(Nat) : Head(<<n>> \o q) = n /\ Tail(<<n>> \o q) = q
        <4> TAKE n \in Nat
        <4> TAKE q \in Seq(Nat)
        <4>1. <<n>> \in Seq(Nat) /\ <<n>> # <<>> /\ Head(<<n>>) = n /\ Tail(<<n>>) = <<>>
          OBVIOUS
        <4>2. \A s, t \in Seq(Nat) :
                  s # <<>> => Head(s \o t) = Head(s) /\ Tail(s \o t) = Tail(s) \o t
          BY <3>1 DEF Queues
        <4>3. <<>> \o q = q
          BY <3>1 DEF Queues
        <4>4. Head(<<n>> \o q) = Head(<<n>>) /\ Tail(<<n>> \o q) = Tail(<<n>>) \o q
          BY <4>1, <4>2
        <4>5. QED
          BY <4>1, <4>3, <4>4
      <3>3. QED
        BY <2>2, <3>2
    <2>4. a = b /\ u = v
      BY <2>1, <2>3
    <2>5. QED
      BY <2>4 DEF u, v, a, b
  <1>12. ~Holds(Tail(before), StartupLines)
    BY <1>1, <1>2, <1>3, HoldsOfTail DEF AlignedBy
  <1>13. TextsFit(Tail(before), Tail(answered) \o rest)
    <2>1. TextsFit(before, requests)
      BY <1>2 DEF AlignedBy
    <2>2. Head(before) \in ReplyLines
      BY <1>4
    <2>3. QED
      BY <1>1, <1>3, <2>1, <2>2, TextsFitSteps
  <1> DEFINE shorter == Tail(before)
             others  == Tail(answered)
  <1>14. AlignedBy(shorter, after, others, rest, in, serial, boots)
    BY <1>2, <1>11, <1>12, <1>13 DEF AlignedBy
  <1>15. QED
    BY <1>1, <1>2, <1>4, <1>9, <1>10, <1>11, <1>14 DEF AlignedAs

\* Without requests, lines without startup lines and replies are aligned.
LEMMA AlignedUnasked ==
    ASSUME NEW before \in Seq(Flow!Line), NEW after \in Seq(Flow!Line),
           ~Holds(before, StartupLines), ~Holds(before, AnswerLines),
           after # <<>> => Head(after) \in StartupLines, ~Holds(after, AnswerLines),
           NEW in \in Seq(Flow!Request), SumSizes[in] = 0, Owed[in] = <<>>,
           NEW serial \in Seq(Flow!SerialMessages), Sent[serial] = <<>>,
           NEW boots \in BOOLEAN
    PROVE  AlignedAs(before \o after, <<>>, in, serial, boots)
  <1>1. <<>> \in Seq(Flow!Request) /\ <<>> \o <<>> = <<>>
    BY EmptySeq
  <1>2. ~Holds(before, ReplyLines) /\ ~Holds(before, TextLines)
    BY DEF Holds, AnswerLines
  <1>3. Tags[<<>>] = Replies[before]
    BY <1>2, RepliesAndTags
  <1>4. TextsFit(before, <<>> \o <<>>)
    BY <1>2 DEF TextsFit, Holds
  <1>5. SumSizes[in] + SumSizes[Sent[serial]] <= SumSizes[<<>>]
    BY Sums
  <1>6. AlignedBy(before, after, <<>>, <<>>, in, serial, boots)
    BY <1>1, <1>3, <1>4, <1>5 DEF AlignedBy
  <1>7. QED
    BY <1>1, <1>6 DEF AlignedAs

LEMMA AlignedIdle ==
    ASSUME NEW serial \in Seq(Flow!SerialMessages), ~Holds(serial, DataMessages),
           NEW boots \in BOOLEAN
    PROVE  AlignedAs(<<>>, <<>>, <<>>, serial, boots)
  <1>1. /\ <<>> \in Seq(Flow!Request) /\ <<>> \in Seq(Flow!Line)
        /\ <<>> \o <<>> = <<>> /\ \A T : ~Holds(<<>>, T)
    BY EmptySeq, HoldsOfEmpty
  <1>2. Owed[<<>>] = <<>> /\ SumSizes[<<>>] = 0
    BY OwedRequests, Sums
  <1>3. Sent[serial] = <<>>
    <2>1. SentFor \in [Flow!SerialMessages -> Seq(Flow!Request)]
      <3>1. OwedFor \in [Flow!Request -> Seq(Flow!Request)]
        BY RequestQueues DEF OwedFor, Queues
      <3>2. QED
        BY <1>1, <3>1, MessageKinds DEF SentFor
    <2>2. Contributors(SentFor, Flow!SerialMessages, DataMessages)
      BY DEF Contributors, SentFor, DataMessages
    <2>3. Gathers(Sent, Flow!SerialMessages, Flow!Request, SentFor)
      BY Gatherings
    <2>4. Contributions(Sent, Flow!SerialMessages, DataMessages)
      BY <2>1, <2>2, <2>3, FlatOfOthers
    <2>5. QED
      BY <2>4 DEF Contributions
  <1>4. AlignedAs(<<>> \o <<>>, <<>>, <<>>, serial, boots)
    BY <1>1, <1>2, <1>3, AlignedUnasked
  <1>5. QED
    BY <1>1, <1>4

\* It reads a startup line when it is owed nothing.
LEMMA AlignedReadStartup ==
    ASSUME NEW lines \in Seq(Flow!Line),
           NEW in \in Seq(Flow!Request), NEW serial \in Seq(Flow!SerialMessages),
           NEW boots \in BOOLEAN,
           AlignedAs(lines, <<>>, in, serial, boots),
           lines # <<>>, Head(lines) \in StartupLines
    PROVE  AlignedAs(Tail(lines), <<>>, in, serial, boots)
  <1>1. PICK before, after \in Seq(Flow!Line) : \E answered, rest \in Seq(Flow!Request) :
            /\ lines = before \o after /\ <<>> = answered \o rest
            /\ AlignedBy(before, after, answered, rest, in, serial, boots)
    BY DEF AlignedAs
  <1>2. PICK answered, rest \in Seq(Flow!Request) :
            /\ lines = before \o after /\ <<>> = answered \o rest
            /\ AlignedBy(before, after, answered, rest, in, serial, boots)
    BY <1>1
  <1>3. rest = <<>>
    <2>1. \A s, t \in Seq(Flow!Request) : s \o t = <<>> <=> s = <<>> /\ t = <<>>
      BY RequestQueues DEF Queues
    <2>2. QED
      BY <1>2, <2>1
  <1>4. before = <<>>
    <2> SUFFICES ASSUME before # <<>> PROVE FALSE
      OBVIOUS
    <2>1. \A s, t \in Seq(Flow!Line) : s # <<>> => Head(s \o t) = Head(s)
      BY LineQueues DEF Queues
    <2>2. Head(lines) = before[1] /\ 1 \in 1..Len(before)
      BY <1>1, <1>2, <2>1, TailIsSeq
    <2>3. QED
      BY <1>2, <2>2 DEF AlignedBy, Holds
  <1>5. after = lines
    BY <1>1, <1>2, <1>4, LineQueues DEF Queues
  <1>6. /\ Owed[in] = <<>> /\ Sent[serial] = <<>> /\ ~Holds(lines, AnswerLines)
        /\ SumSizes[in] + SumSizes[Sent[serial]] <= SumSizes[<<>>]
    BY <1>2, <1>3, <1>5 DEF AlignedBy
  <1>7. SumSizes[in] = 0
    <2>1. SumSizes[<<>>] = 0 /\ SumSizes[in] \in Nat
      BY Sums
    <2>2. QED
      BY <1>6, <2>1
  <1> DEFINE shorter == Tail(lines)
  <1>12. shorter \in Seq(Flow!Line) /\ ~Holds(shorter, AnswerLines)
    BY <1>6, TailIsSeq, HoldsOfTail
  <1> HIDE DEF shorter
  <1>8. PICK a, b \in Seq(Flow!Line) :
            shorter = a \o b /\ ~Holds(a, StartupLines)
            /\ (b # <<>> => Head(b) \in StartupLines)
    BY <1>12, SplitBefore
  <1>9. ~Holds(a, AnswerLines) /\ ~Holds(b, AnswerLines)
    <2>2. \A s, t \in Seq(Flow!Line) :
              Holds(s \o t, AnswerLines) <=> Holds(s, AnswerLines) \/ Holds(t, AnswerLines)
      BY HoldsOfConcat
    <2>3. QED
      BY <1>8, <1>12, <2>2
  <1>10. AlignedAs(a \o b, <<>>, in, serial, boots)
    BY <1>6, <1>7, <1>8, <1>9, AlignedUnasked
  <1>11. QED
    BY <1>8, <1>10 DEF shorter

\* A request sent, and one written to the port.
LEMMA AlignedSends ==
    ASSUME NEW lines, NEW requests \in Seq(Flow!Request), NEW in \in Seq(Flow!Request),
           NEW serial \in Seq(Flow!SerialMessages), NEW boots \in BOOLEAN,
           AlignedAs(lines, requests, in, serial, boots),
           NEW r \in CalmRequests, NEW longer,
           longer = IF Ordinary(r) THEN Append(requests, r) ELSE requests
    PROVE  AlignedAs(lines, longer, in, Append(serial, Flow!Data(r)), boots)
  <1>1. PICK before \in Seq(Flow!Line), after \in Seq(Flow!Line),
             answered \in Seq(Flow!Request), rest \in Seq(Flow!Request) :
               /\ lines = before \o after /\ requests = answered \o rest
               /\ AlignedBy(before, after, answered, rest, in, serial, boots)
    BY DEF AlignedAs
  <1>2. /\ Ordinary(r) => AlignedBy(before, after, answered, Append(rest, r), in,
                                    Append(serial, Flow!Data(r)), boots)
        /\ ~Ordinary(r) => AlignedBy(before, after, answered, rest, in,
                                     Append(serial, Flow!Data(r)), boots)
    BY <1>1, AlignedSend
  <1>3. CASE Ordinary(r)
    <2>1. r \in Flow!Request
      BY DEF CalmRequests
    <2>2. Append(rest, r) \in Seq(Flow!Request)
      BY <1>1, <2>1, AppendIsSeq
    <2>3. Append(answered \o rest, r) = answered \o Append(rest, r)
      <3>1. \A s, t \in Seq(Flow!Request) : \A e \in Flow!Request :
                Append(s \o t, e) = s \o Append(t, e)
        BY RequestQueues DEF Queues
      <3>2. QED
        BY <1>1, <2>1, <3>1
    <2>4. longer = answered \o Append(rest, r)
      BY <1>1, <1>3, <2>3
    <2>5. QED
      BY <1>1, <1>2, <1>3, <2>2, <2>4 DEF AlignedAs
  <1>4. CASE ~Ordinary(r)
    BY <1>1, <1>2, <1>4 DEF AlignedAs
  <1>5. QED
    BY <1>3, <1>4

LEMMA AlignedWrites ==
    ASSUME NEW lines, NEW requests, NEW in \in Seq(Flow!Request),
           NEW serial \in Seq(Flow!SerialMessages), NEW boots \in BOOLEAN,
           AlignedAs(lines, requests, in, serial, boots),
           serial # <<>>, Head(serial).kind = "Data", Head(serial).request \in CalmRequests
    PROVE  AlignedAs(lines, requests, Append(in, Head(serial).request), Tail(serial), boots)
  <1>1. PICK before \in Seq(Flow!Line), after \in Seq(Flow!Line),
             answered \in Seq(Flow!Request), rest \in Seq(Flow!Request) :
               /\ lines = before \o after /\ requests = answered \o rest
               /\ AlignedBy(before, after, answered, rest, in, serial, boots)
    BY DEF AlignedAs
  <1>2. AlignedBy(before, after, answered, rest, Append(in, Head(serial).request),
                  Tail(serial), boots)
    BY <1>1, AlignedWrite
  <1>3. QED
    BY <1>1, <1>2 DEF AlignedAs

-----------------------------------------------------------------------------
(* The inductive invariant *)

\* FlowControl counts what is outstanding, a greedy request is outstanding alone or
\* before the others, and the reply to a multi-line one is read in mode Help.
Counts      == used = SumSizes[outgoing] /\ used <= Limit
GreedyFirst == GreedyFirstIn(outgoing)
HelpMode    == outgoing # <<>> /\ Head(outgoing).type \in Multiline => mode = "Help" \/ crossed

\* The session with the connected device has not begun.
Fresh ==
    /\ toParent = <<>> /\ Cleared
    /\ state \in {"Connected", "Disconnected"} /\ toFlow \in {<<>>, Left}
    /\ ~Holds(toSerial, DataMessages) /\ input = <<>>

\* Only the port lets a device boot.  The rest of a line of the connection before is
\* followed by the startup line; before it no session begins, and but for restarts a
\* device prints it once.
GarbledLines   == {line \in Flow!Line : line.kind = "text" /\ line.tag = 0}
PortBoots      == booting => port = "open"
CutIsFresh     == port = "open" /\ cut => booting /\ fromSerial = <<>> /\ Fresh
GarbledIsFresh == Holds(fromSerial, GarbledLines) =>
                      ~Holds(Tail(fromSerial), GarbledLines) /\ Fresh
BootIsFresh    == restarts = 0 /\ booting => fromSerial = <<>> /\ Fresh
StartupIsFresh == restarts = 0 /\ Holds(fromSerial, StartupLines) =>
                      ~Holds(Tail(fromSerial), StartupLines) /\ Fresh
FirstInv == PortBoots /\ CutIsFresh /\ GarbledIsFresh /\ BootIsFresh /\ StartupIsFresh

\* Flow control is enabled before the first request: no request bypasses the queue.
Sends == {m \in FlowMessages : m.kind = "Send"}
EnablesBeforeSends(queue) ==
    \E i \in 1..Len(queue) : queue[i] = Enable /\ \A j \in 1..(i - 1) : queue[j] \notin Sends
EnabledFirst ==
    \/ active
    \/ state \in {"Connected", "Disconnected"} /\ ~Holds(toFlow, Sends)
    \/ EnablesBeforeSends(toFlow)

\* The lines on their way answer, in order, the oldest outstanding requests.
Aligned == port = "open" /\ ~crossed => AlignedAs(fromSerial, outgoing, input, toSerial, booting)

AnswerInv == Counts /\ GreedyFirst /\ HelpMode /\ FirstInv /\ EnabledFirst /\ Aligned

LEMMA AnswerInit == Init => AnswerInv
  <1> SUFFICES ASSUME Init PROVE AnswerInv
    OBVIOUS
  <1>1. Counts
    BY Sums, LimitAssumption DEF Init, Flow!Init, Counts
  <1>2. GreedyFirst /\ HelpMode
    BY DEF Init, Flow!Init, GreedyFirst, GreedyFirstIn, HelpMode
  <1>3. FirstInv
    BY HoldsOfEmpty DEF Init, Link!Init, FirstInv, PortBoots, CutIsFresh, GarbledIsFresh,
       BootIsFresh, StartupIsFresh
  <1>4. EnabledFirst
    BY HoldsOfEmpty DEF Init, Mach!Init, EnabledFirst
  <1>5. Aligned
    BY DEF Init, Link!Init, Aligned
  <1>6. QED
    BY <1>1, <1>2, <1>3, <1>4, <1>5 DEF AnswerInv

-----------------------------------------------------------------------------
(* Before the session begins *)

\* A step of an actor that reads no line of the device leaves the session unbegun.
LEMMA FreshStays ==
    ASSUME Types, Loops, UsbInv, ~aborted, ~aborted', Fresh, ~Untouched,
           \/ MachineReadsEvent \/ MachineReadsFlow \/ FlowReadsMachine \/ FlowSends
           \/ ClientSends \/ ContextReads \/ Scan \/ Plug
    PROVE  Fresh'
  <1>1. ~HasAdded(events) /\ ~HasAdded(toFlow)
    BY DEF UsbInv, NotYet, AddedInFlow
  <1>2. CASE MachineReadsEvent
    <2>1. /\ events # <<>> /\ Head(events) \in {Added, Removed}
          /\ HasAdded(events) <=> Head(events) = Added \/ HasAdded(Tail(events))
      <3>1. events \in Seq({Added, Removed}) /\ events # <<>>
        BY <1>2 DEF MachineReadsEvent, Types, SocketTypes
      <3>2. \A s \in Seq({Added, Removed}) :
                s # <<>> => (Holds(s, {Added}) <=> Head(s) \in {Added} \/ Holds(Tail(s), {Added}))
        BY HoldsOfTail
      <3>3. QED
        BY <3>1, <3>2, TailIsSeq DEF HasAdded
    <2>2. Head(events) = Removed
      BY <1>1, <2>1
    <2>3. events = Left /\ state # "Disconnected"
      BY <2>1, <2>2, SmallQueues DEF UsbInv, LastEvent
    <2>4. toFlow = <<>>
      BY <2>3, SmallQueues DEF Fresh, UsbInv, ConnectedIsIdle
    <2>5. state' = "Disconnected" /\ toFlow' = Append(toFlow, Removed)
      BY <1>2, <2>2 DEF MachineReadsEvent, Mach!HandleContext, Mach!UsbDeviceAdded,
         Mach!UsbDeviceRemoved, Added, Removed
    <2>6. QED
      BY <1>2, <2>4, <2>5, SmallQueues DEF MachineReadsEvent, Fresh, Cleared, flowVars
  <1>3. CASE MachineReadsFlow
    BY <1>3 DEF MachineReadsFlow, Fresh
  <1>4. CASE FlowReadsMachine
    <2>1. toFlow = Left /\ Head(toFlow) = Removed /\ Tail(toFlow) = <<>>
      BY <1>4, SmallQueues DEF FlowReadsMachine, Fresh
    <2>2. Removed.kind = "USBDeviceRemoved"
      BY DEF Removed
    <2>3. Flow!Reconnect("USBDeviceRemoved")
      BY <1>4, <2>1, <2>2 DEF FlowReadsMachine, FlowHandles
    <2>4. /\ Flow!UsbEvent("USBDeviceRemoved") = Removed
          /\ Removed \in Flow!SerialMessages /\ Removed \notin DataMessages
      BY MessageKinds DEF Removed, Flow!UsbEvent, DataMessages
    <2>5. toSerial' = Append(toSerial, Removed) /\ toSerial \in Seq(Flow!SerialMessages)
      BY <2>3, <2>4 DEF Flow!Reconnect, Types, SocketTypes
    <2>6. Holds(toSerial', DataMessages) <=> Holds(toSerial, DataMessages) \/ Removed \in DataMessages
      <3>1. \A s \in Seq(Flow!SerialMessages) : \A m \in Flow!SerialMessages :
                Holds(Append(s, m), DataMessages) <=> Holds(s, DataMessages) \/ m \in DataMessages
        BY HoldsOfAppend
      <3>2. QED
        BY <2>4, <2>5, <3>1
    <2>7. Cleared'
      BY <2>3 DEF Flow!Reconnect, Fresh, Cleared
    <2>8. toParent' = toParent /\ state' = state /\ input' = input /\ toFlow' = <<>>
      BY <1>4, <2>1, <2>3 DEF FlowReadsMachine, Flow!Reconnect, machineVars
    <2>9. QED
      BY <2>4, <2>6, <2>7, <2>8 DEF Fresh
  <1>5. CASE FlowSends
    BY <1>5 DEF FlowSends, Flow!Loop, Flow!SendRequest, Flow!SendReset, Fresh, Cleared
  <1>6. CASE ClientSends
    <2>1. ~Mach!Forwards(state)
      BY DEF Fresh, Mach!Forwards, Mach!Ready
    <2>2. toFlow' = toFlow /\ state' = state
      BY <1>6, <2>1 DEF ClientSends, Mach!ForwardGrbl
    <2>3. QED
      BY <1>6, <2>2 DEF ClientSends, Fresh, Cleared, flowVars
  <1>7. CASE ContextReads \/ Scan \/ Plug
    BY <1>7 DEF ContextReads, Scan, Plug, Fresh, Cleared, flowVars, machineVars
  <1>8. QED
    BY <1>2, <1>3, <1>4, <1>5, <1>6, <1>7

\* A step that leaves the line and the port alone.
LEMMA FirstKept ==
    ASSUME FirstInv, UNCHANGED <<port, cut, booting, fromSerial, restarts>>,
           Fresh /\ ~Untouched => Fresh'
    PROVE  FirstInv'
  <1>1. Holds(fromSerial, GarbledLines) \/ Holds(fromSerial, StartupLines) => fromSerial # <<>>
    BY HoldsOfEmpty
  <1>2. QED
    BY <1>1 DEF FirstInv, PortBoots, CutIsFresh, GarbledIsFresh, BootIsFresh, StartupIsFresh,
       Untouched

\* What the rest of a queue holds with a line more.
LEMMA RestOfLonger ==
    ASSUME NEW T
    PROVE  \A s \in Seq(Flow!Line) : \A line \in Flow!Line :
               /\ Holds(Append(s, line), T) <=> Holds(s, T) \/ line \in T
               /\ s = <<>> => ~Holds(Tail(Append(s, line)), T)
               /\ s # <<>> => (Holds(Tail(Append(s, line)), T) <=> Holds(Tail(s), T) \/ line \in T)
  <1> TAKE s \in Seq(Flow!Line)
  <1> TAKE line \in Flow!Line
  <1>1. \A t \in Seq(Flow!Line) : Holds(Append(t, line), T) <=> Holds(t, T) \/ line \in T
    BY HoldsOfAppend
  <1>2. CASE s = <<>>
    <2>1. Tail(Append(<<>>, line)) = <<>>
      BY LineQueues DEF Queues
    <2>2. QED
      BY <1>1, <1>2, <2>1, HoldsOfEmpty
  <1>3. CASE s # <<>>
    <2>1. Append(s, line) = s \o <<line>> /\ <<line>> \in Seq(Flow!Line)
      BY LineQueues DEF Queues
    <2>2. Tail(s \o <<line>>) = Tail(s) \o <<line>>
      <3>1. \A u, t \in Seq(Flow!Line) : u # <<>> => Tail(u \o t) = Tail(u) \o t
        BY LineQueues DEF Queues
      <3>2. QED
        BY <1>3, <2>1, <3>1
    <2>3. Tail(s) \in Seq(Flow!Line)
      BY <1>3, TailIsSeq
    <2>4. Tail(s) \o <<line>> = Append(Tail(s), line)
      BY <2>3, LineQueues DEF Queues
    <2>5. Tail(Append(s, line)) = Append(Tail(s), line)
      BY <2>1, <2>2, <2>4
    <2>6. QED
      BY <1>1, <1>3, <2>3, <2>5
  <1>4. QED
    BY <1>2, <1>3

\* A line that is printed while the device runs.
LEMMA FirstPrints ==
    ASSUME Types, FirstInv, NEW line \in Flow!Line,
           line \notin GarbledLines, line \notin StartupLines,
           fromSerial' = Append(fromSerial, line), ~cut',
           UNCHANGED <<port, booting, restarts>>, ~booting, Fresh => Fresh'
    PROVE  FirstInv'
  <1>1. fromSerial \in Seq(Flow!Line)
    BY DEF Types, SocketTypes
  <1>2. /\ Holds(fromSerial', GarbledLines) <=> Holds(fromSerial, GarbledLines)
        /\ fromSerial = <<>> => ~Holds(Tail(fromSerial'), GarbledLines)
        /\ fromSerial # <<>> =>
               (Holds(Tail(fromSerial'), GarbledLines) <=> Holds(Tail(fromSerial), GarbledLines))
    BY <1>1, RestOfLonger
  <1>3. /\ Holds(fromSerial', StartupLines) <=> Holds(fromSerial, StartupLines)
        /\ fromSerial = <<>> => ~Holds(Tail(fromSerial'), StartupLines)
        /\ fromSerial # <<>> =>
               (Holds(Tail(fromSerial'), StartupLines) <=> Holds(Tail(fromSerial), StartupLines))
    BY <1>1, RestOfLonger
  <1>4. QED
    BY <1>2, <1>3 DEF FirstInv, PortBoots, CutIsFresh, GarbledIsFresh, BootIsFresh, StartupIsFresh


\* The line that a printing device adds.
LEMMA PrintedLine ==
    ASSUME NEW kind, NEW tag, Prints(kind, tag)
    PROVE  /\ fromSerial' = Append(fromSerial, IF cut THEN Link!Garbled([kind |-> kind, tag |-> tag])
                                                      ELSE [kind |-> kind, tag |-> tag])
           /\ port = "open" /\ ~aborted /\ cut' = FALSE
           /\ UNCHANGED <<port, incoming, outgoing, used, sending, mode, crossed, toParent, state,
                          toFlow, toSerial, plugged, banner, active, aborted>>
  BY DEF Prints, Link!Flush, flowVars, machineVars

\* A running device has a whole line of it read.
LEMMA RunningIsWhole ==
    ASSUME Types, FirstInv, Running, port = "open"
    PROVE  ~cut
  BY DEF FirstInv, CutIsFresh, Running, Types, DeviceTypes

LEMMA LongerLines ==
    \A s \in Seq(Flow!Line) : \A line \in Flow!Line : \A T \in {GarbledLines, StartupLines} :
        /\ Holds(Append(s, line), T) <=> Holds(s, T) \/ line \in T
        /\ s = <<>> => ~Holds(Tail(Append(s, line)), T)
        /\ s # <<>> => (Holds(Tail(Append(s, line)), T) <=> Holds(Tail(s), T) \/ line \in T)
  BY RestOfLonger

\* The line that starts the session.
LEMMA FirstBoots ==
    ASSUME Types, FirstInv, DeviceBoots
    PROVE  FirstInv'
  <1>1. /\ banner \in {"grbl", "oldGrbl"} /\ booting /\ port = "open" /\ Prints(banner, 0)
        /\ booting' = FALSE /\ input' = <<>> /\ restarts' = restarts
    BY DeviceAssumption DEF DeviceBoots, Prints, Link!Flush, Types, DeviceTypes
  <1> DEFINE line == [kind |-> banner, tag |-> 0]
  <1>2. /\ fromSerial' = Append(fromSerial, IF cut THEN Link!Garbled(line) ELSE line)
        /\ cut' = FALSE /\ fromSerial \in Seq(Flow!Line)
        /\ UNCHANGED <<port, incoming, outgoing, used, sending, toParent, state, toFlow, toSerial>>
    BY <1>1, PrintedLine DEF Types, SocketTypes
  <1>3. Fresh => Fresh'
    BY <1>1, <1>2 DEF Fresh, Cleared
  <1>4. /\ line \in Flow!Line /\ line \in StartupLines /\ line \notin GarbledLines
        /\ Link!Garbled(line) \in Flow!Line /\ Link!Garbled(line) \notin StartupLines
    BY <1>1 DEF Link!Garbled, Flow!Line, Flow!LineKinds, StartupLines, Startup, GarbledLines
  <1>5. PortBoots' /\ CutIsFresh' /\ BootIsFresh'
    BY <1>1, <1>2 DEF PortBoots, CutIsFresh, BootIsFresh
  <1>6. CASE cut
    <2>1. fromSerial = <<>> /\ Fresh
      BY <1>1, <1>6 DEF FirstInv, CutIsFresh
    <2>2. fromSerial' = Append(fromSerial, Link!Garbled(line))
      BY <1>2, <1>6
    <2>3. ~Holds(Tail(fromSerial'), GarbledLines) /\ ~Holds(fromSerial', StartupLines)
      <3> HIDE DEF line
      <3>1. Holds(fromSerial', StartupLines)
                <=> Holds(fromSerial, StartupLines) \/ Link!Garbled(line) \in StartupLines
        BY <1>2, <1>4, <2>2, LongerLines
      <3>2. ~Holds(Tail(fromSerial'), GarbledLines)
        BY <1>2, <1>4, <2>1, <2>2, LongerLines
      <3>3. QED
        BY <1>4, <2>1, <3>1, <3>2, HoldsOfEmpty
    <2>4. QED
      BY <1>3, <1>5, <2>1, <2>3 DEF FirstInv, GarbledIsFresh, StartupIsFresh
  <1>7. CASE ~cut
    <2>1. fromSerial' = Append(fromSerial, line)
      BY <1>2, <1>7
    <2>2. GarbledIsFresh'
      <3>1. /\ Holds(fromSerial', GarbledLines) <=> Holds(fromSerial, GarbledLines)
            /\ fromSerial = <<>> => ~Holds(Tail(fromSerial'), GarbledLines)
            /\ fromSerial # <<>> =>
                   (Holds(Tail(fromSerial'), GarbledLines) <=> Holds(Tail(fromSerial), GarbledLines))
        <4> HIDE DEF line
        <4> QED BY <1>2, <1>4, <2>1, LongerLines
      <3>2. QED
        BY <1>3, <3>1 DEF FirstInv, GarbledIsFresh
    <2>3. StartupIsFresh'
      <3>1. restarts = 0 => fromSerial = <<>> /\ Fresh
        BY <1>1 DEF FirstInv, BootIsFresh
      <3>2. fromSerial = <<>> => ~Holds(Tail(fromSerial'), StartupLines)
        <4> HIDE DEF line
        <4> QED BY <1>2, <1>4, <2>1, LongerLines
      <3>3. QED
        BY <1>1, <1>3, <3>1, <3>2 DEF StartupIsFresh
    <2>4. QED
      BY <1>5, <2>2, <2>3 DEF FirstInv
  <1>8. QED
    BY <1>6, <1>7

\* What the device does before and after.
LEMMA FirstDevice ==
    ASSUME NoAlarms, Types, CalmTypes, UsbInv, FirstInv, ~aborted, Device
    PROVE  FirstInv'
  <1>1. CASE DeviceBoots
    BY <1>1, FirstBoots
  <1>2. CASE DeviceRestarts
    <2>1. /\ UNCHANGED <<port, cut, fromSerial, toParent, state, toFlow, toSerial, input, incoming,
                         outgoing, used, sending>>
          /\ restarts' = restarts + 1 /\ restarts \in Nat /\ booting' = TRUE /\ port = "open" /\ ~cut
      BY <1>2, RunningIsWhole DEF DeviceRestarts, flowVars, machineVars, linkVars, Types, DeviceTypes
    <2>2. restarts' # 0
      BY <2>1
    <2>3. QED
      BY <2>1, <2>2 DEF FirstInv, PortBoots, CutIsFresh, GarbledIsFresh, BootIsFresh, StartupIsFresh,
         Fresh, Cleared
  <1>3. ASSUME NEW kind \in {"status", "text", "reply", "push"}, NEW tag \in Nat,
               kind = "text" => tag > 0, Running, Prints(kind, tag),
               booting' = booting, restarts' = restarts, Fresh => input' = <<>>
        PROVE  FirstInv'
    <2> DEFINE line == [kind |-> kind, tag |-> tag]
    <2>1. line \in Flow!Line /\ line \notin GarbledLines /\ line \notin StartupLines
      BY <1>3 DEF Flow!Line, Flow!LineKinds, GarbledLines, StartupLines, Startup
    <2>2. fromSerial' = Append(fromSerial, line) /\ ~cut' /\ ~booting /\ UNCHANGED port
      BY <1>3, PrintedLine, RunningIsWhole DEF Running
    <2>3. Fresh => Fresh'
      BY <1>3, PrintedLine DEF Fresh, Cleared
    <2> HIDE DEF line
    <2>4. QED
      BY <1>3, <2>1, <2>2, <2>3, FirstPrints
  <1>4. CASE DeviceReports
    <2>1. input # <<>> /\ Running /\ Prints("status", 0) /\ booting' = booting /\ restarts' = restarts
      BY <1>4 DEF DeviceReports, TakesRealtime
    <2>2. QED
      BY <1>3, <2>1 DEF Fresh
  <1>5. CASE DeviceObeys
    <2>1. PICK i \in 1..Len(input) :
                 TakesRealtime(i) /\ booting' = (RealtimeByte(input[i].type) = ResetByte)
      BY <1>5 DEF DeviceObeys
    <2>2. input[i] \in CalmRequests
      BY AroundElement DEF CalmTypes
    <2>3. input[i].type \in Realtime
      BY <2>1, <2>2 DEF TakesRealtime, CalmRequests
    <2>4. booting' = FALSE /\ booting = FALSE /\ input # <<>>
      BY <2>1, <2>3, DeviceAssumption DEF TakesRealtime, Running, Types, DeviceTypes
    <2>5. UNCHANGED <<port, cut, fromSerial, restarts>>
      BY <1>5 DEF DeviceObeys, linkVars
    <2>6. QED
      BY <2>4, <2>5, FirstKept DEF Fresh
  <1>6. input # <<>> => Head(input).tag \in Nat /\ Head(input).tag > 0
    <2>1. input # <<>> => Head(input) \in CalmRequests
      BY TailIsSeq DEF CalmTypes
    <2>2. QED
      BY <2>1, RealtimeCounts
  <1>7. CASE DeviceStartsReply
    BY <1>3, <1>6, <1>7 DEF DeviceStartsReply, Fresh
  <1>8. CASE DeviceReplies
    BY <1>3, <1>6, <1>8 DEF DeviceReplies, Fresh
  <1>9. CASE DeviceSpeaks
    <2>1. Running /\ Prints("push", 0) /\ input' = input /\ booting' = booting /\ restarts' = restarts
      BY <1>9, DeviceAssumption DEF DeviceSpeaks, NoAlarms
    <2>2. QED
      BY <1>3, <2>1 DEF Fresh
  <1>10. QED
    BY <1>1, <1>2, <1>4, <1>5, <1>7, <1>8, <1>9 DEF Device

\* The port opens before the session begins, and it is written to afterwards.
LEMMA FirstSerial ==
    ASSUME Types, UsbInv, FirstInv, ~aborted, ~aborted', SerialReadsFlow
    PROVE  FirstInv'
  <1> DEFINE msg == Head(toSerial)
  <1>1. /\ toSerial # <<>> /\ toSerial' = Tail(toSerial) /\ toSerial \in Seq(Flow!SerialMessages)
        /\ UNCHANGED <<incoming, outgoing, used, sending, toParent, state, toFlow, restarts, cut,
                       fromSerial, plugged>>
    BY DEF SerialReadsFlow, SerialHandles, Link!Transmit, Link!Connect, Link!Disconnect, flowVars,
       machineVars, Types, SocketTypes
  <1>2. /\ msg \in Flow!SerialMessages
        /\ HasAdded(toSerial) <=> msg = Added \/ HasAdded(toSerial')
        /\ HasRemoved(toSerial) <=> msg = Removed \/ HasRemoved(toSerial')
        /\ Holds(toSerial, DataMessages) <=> msg.kind = "Data" \/ Holds(toSerial', DataMessages)
    BY <1>1, SerialTails
  <1>3. CASE msg.kind = "Data"
    <2>1. UNCHANGED <<port, booting>> /\ ~Fresh
      BY <1>2, <1>3 DEF SerialReadsFlow, SerialHandles, Link!Transmit, Fresh
    <2>2. QED
      BY <1>1, <2>1, FirstKept
  <1>4. CASE msg.kind = "USBDeviceAdded"
    <2>1. HasAdded(toSerial)
      BY <1>2, <1>4, MessageKinds
    <2>2. /\ toSerial \in {Came, CameAndLeft} /\ state \in {"Connected", "Disconnected"}
          /\ toFlow \in {<<>>, Left} /\ Cleared /\ Untouched
      BY <2>1 DEF UsbInv, AddedInSerial
    <2>3. input' = <<>> /\ port' = "open"
      BY <1>4, <2>2 DEF SerialReadsFlow, SerialHandles, Link!Connect, UsbInv, Basics, Untouched
    <2>4. ~Holds(toSerial', DataMessages)
      <3>1. toSerial' \in {<<>>, Left}
        BY <1>1, <2>2, SmallQueues
      <3>2. ~Holds(Left, DataMessages)
        <4>1. \A T, a : Holds(<<a>>, T) <=> a \in T
          BY HoldsOfPair
        <4>2. Holds(<<Removed>>, DataMessages) <=> Removed \in DataMessages
          BY <4>1
        <4>3. QED
          BY <4>2 DEF Left, Removed, DataMessages
      <3>3. QED
        BY <3>1, <3>2, HoldsOfEmpty
    <2>5. Fresh' /\ fromSerial' = <<>>
      BY <1>1, <2>2, <2>3, <2>4 DEF Fresh, Cleared, Untouched
    <2>6. booting' = plugged /\ plugged
      BY <1>4 DEF SerialReadsFlow, SerialHandles, Link!Connect
    <2>7. QED
      BY <2>3, <2>5, <2>6, HoldsOfEmpty DEF FirstInv, PortBoots, CutIsFresh, GarbledIsFresh, BootIsFresh,
         StartupIsFresh, Types, DeviceTypes
  <1>5. CASE msg.kind = "USBDeviceRemoved"
    <2>1. HasRemoved(toSerial)
      BY <1>2, <1>5, MessageKinds
    <2>2. ~booting
      BY <2>1 DEF UsbInv, NoRemoval, FirstInv, PortBoots, Types, DeviceTypes
    <2>3. port' = "closed" /\ booting' = booting /\ input' = input
      BY <1>5 DEF SerialReadsFlow, SerialHandles, Link!Disconnect
    <2>4. Fresh => Fresh'
      BY <1>1, <1>2, <2>3 DEF Fresh, Cleared
    <2>5. QED
      BY <1>1, <2>2, <2>3, <2>4 DEF FirstInv, PortBoots, CutIsFresh, GarbledIsFresh, BootIsFresh,
         StartupIsFresh
  <1>6. QED
    BY <1>3, <1>4, <1>5 DEF SerialReadsFlow, SerialHandles

\* Every step.
LEMMA FirstStep ==
    ASSUME NoAlarms, Types, Loops, CalmTypes, UsbInv, FirstInv, ~aborted, ~aborted', [Next]_vars
    PROVE  FirstInv'
  <1>1. CASE UNCHANGED vars
    BY <1>1, FirstKept DEF vars, flowVars, machineVars, linkVars, deviceVars, Fresh, Cleared
  <1>2. CASE \/ MachineReadsEvent \/ MachineReadsFlow \/ FlowReadsMachine \/ FlowSends
             \/ ClientSends \/ ContextReads \/ Scan \/ Plug
    <2>1. UNCHANGED <<port, cut, booting, fromSerial, restarts>>
      BY <1>2 DEF MachineReadsEvent, MachineReadsFlow, FlowReadsMachine, FlowSends, ClientSends,
         ContextReads, Scan, Plug, linkVars, deviceVars
    <2>2. QED
      BY <1>2, <2>1, FreshStays, FirstKept
  <1>3. CASE FlowReadsSerial
    <2>1. /\ fromSerial # <<>> /\ fromSerial' = Tail(fromSerial)
          /\ UNCHANGED <<port, cut, booting, restarts>>
      BY <1>3 DEF FlowReadsSerial, linkVars, deviceVars
    <2>2. \A T : Holds(Tail(fromSerial), T) => Holds(fromSerial, T)
      BY <2>1, HoldsOfTail DEF Types, SocketTypes
    <2>3. QED
      BY <2>1, <2>2 DEF FirstInv, PortBoots, CutIsFresh, GarbledIsFresh, BootIsFresh, StartupIsFresh
  <1>4. CASE Unplug
    <2>1. /\ UNCHANGED <<fromSerial, restarts, incoming, outgoing, used, sending, toParent, state,
                         toFlow, toSerial>>
          /\ port' # "open" /\ booting' = FALSE /\ input' = <<>>
      BY <1>4 DEF Unplug, Link!Lose, flowVars, machineVars
    <2>2. QED
      BY <2>1 DEF FirstInv, PortBoots, CutIsFresh, GarbledIsFresh, BootIsFresh, StartupIsFresh, Fresh,
         Cleared
  <1>5. QED
    BY <1>1, <1>2, <1>3, <1>4, FirstDevice, FirstSerial DEF Next, Actors

-----------------------------------------------------------------------------
(* Flow control is enabled before the first request *)

LEMMA EnableFacts ==
    /\ \A s \in Seq(FlowMessages) : \A e \in FlowMessages :
           EnablesBeforeSends(s) => EnablesBeforeSends(Append(s, e))
    /\ \A s \in Seq(FlowMessages) : s # <<>> /\ EnablesBeforeSends(s) =>
           Head(s) = Enable \/ (Head(s) \notin Sends /\ EnablesBeforeSends(Tail(s)))
    /\ \A s \in Seq(FlowMessages) : ~Holds(s, Sends) \/ EnablesBeforeSends(s) =>
           EnablesBeforeSends(s \o Mach!EnableAndAsk)
  <1>1. ASSUME NEW s \in Seq(FlowMessages), NEW e \in FlowMessages, EnablesBeforeSends(s)
        PROVE  EnablesBeforeSends(Append(s, e))
    <2> DEFINE t == Append(s, e)
    <2>1. Len(t) = Len(s) + 1 /\ Len(s) \in Nat /\ \A i \in 1..Len(s) : t[i] = s[i]
      BY AppendIsSeq, LenProperties
    <2> HIDE DEF t
    <2>2. EnablesBeforeSends(t)
      BY <1>1, <2>1 DEF EnablesBeforeSends
    <2>3. QED
      BY <2>2 DEF t
  <1>2. ASSUME NEW s \in Seq(FlowMessages), s # <<>>, EnablesBeforeSends(s), Head(s) # Enable
        PROVE  Head(s) \notin Sends /\ EnablesBeforeSends(Tail(s))
    <2> DEFINE t == Tail(s)
    <2>1. /\ Len(t) = Len(s) - 1 /\ Len(s) \in Nat /\ Len(s) > 0 /\ Head(s) = s[1]
          /\ \A i \in 1..(Len(s) - 1) : t[i] = s[i + 1]
      BY <1>2, TailIsSeq
    <2> HIDE DEF t
    <2>2. PICK i \in 1..Len(s) : s[i] = Enable /\ \A j \in 1..(i - 1) : s[j] \notin Sends
      BY <1>2 DEF EnablesBeforeSends
    <2>3. i # 1
      BY <1>2, <2>1, <2>2
    <2>4. i - 1 \in 1..Len(t) /\ (i - 1) + 1 = i /\ 1 \in 1..(i - 1)
      BY <2>1, <2>3
    <2>5. t[i - 1] = Enable
      BY <2>1, <2>2, <2>4
    <2>6. \A j \in 1..((i - 1) - 1) : t[j] \notin Sends
      <3>1. \A j \in 1..((i - 1) - 1) : j \in 1..(Len(s) - 1) /\ j + 1 \in 1..(i - 1)
        BY <2>1, <2>4
      <3>2. QED
        BY <2>1, <2>2, <3>1
    <2>7. QED
      BY <2>1, <2>2, <2>4, <2>5, <2>6 DEF EnablesBeforeSends, t
  <1>3. ASSUME NEW s \in Seq(FlowMessages), ~Holds(s, Sends) \/ EnablesBeforeSends(s)
        PROVE  EnablesBeforeSends(s \o Mach!EnableAndAsk)
    <2> DEFINE p == <<Enable, AskVersion>>
               t == s \o p
    <2>1. p \in Seq(FlowMessages) /\ Len(p) = 2 /\ p[1] = Enable
      BY AskVersionIsSend, MessageKinds
    <2>2. /\ Len(s) \in Nat /\ Len(t) = Len(s) + 2
          /\ \A i \in 1..(Len(s) + 2) : t[i] = IF i <= Len(s) THEN s[i] ELSE p[i - Len(s)]
      BY <2>1, ConcatProperties, LenProperties
    <2> HIDE DEF p, t
    <2>3. \A i \in 1..Len(s) : t[i] = s[i]
      BY <2>2
    <2>4. EnablesBeforeSends(s) => EnablesBeforeSends(t)
      BY <2>2, <2>3 DEF EnablesBeforeSends
    <2>5. ASSUME ~Holds(s, Sends) PROVE EnablesBeforeSends(t)
      <3>1. t[Len(s) + 1] = Enable
        BY <2>1, <2>2
      <3>2. \A j \in 1..((Len(s) + 1) - 1) : t[j] \notin Sends
        BY <2>2, <2>3, <2>5 DEF Holds
      <3>3. Len(s) + 1 \in 1..Len(t)
        BY <2>2
      <3>4. QED
        BY <3>1, <3>2, <3>3 DEF EnablesBeforeSends
    <2>6. QED
      BY <1>3, <2>4, <2>5, AskVersionIsSend DEF t, p
  <1>4. QED
    BY <1>1, <1>2, <1>3

\* A step that leaves flow control, the machine and its messages alone, or adds a message
\* that is no request.
LEMMA EnabledKept ==
    ASSUME Types, EnabledFirst, active' = active, state' \in {state, "Connected", "Disconnected"},
           \/ toFlow' = toFlow
           \/ toFlow' = Append(toFlow, Added) \/ toFlow' = Append(toFlow, Removed)
    PROVE  EnabledFirst'
  <1>1. \A s \in Seq(FlowMessages) : \A e \in FlowMessages :
            Holds(Append(s, e), Sends) <=> Holds(s, Sends) \/ e \in Sends
    BY HoldsOfAppend
  <1>2. /\ Added \in FlowMessages /\ Removed \in FlowMessages
        /\ Added \notin Sends /\ Removed \notin Sends
    BY MessageKinds DEF Sends, Added, Removed
  <1>3. toFlow \in Seq(FlowMessages)
    BY DEF Types, SocketTypes
  <1>4. \A e \in {Added, Removed} :
            /\ ~Holds(toFlow, Sends) => ~Holds(Append(toFlow, e), Sends)
            /\ EnablesBeforeSends(toFlow) => EnablesBeforeSends(Append(toFlow, e))
    BY <1>1, <1>2, <1>3, EnableFacts
  <1>5. /\ ~Holds(toFlow, Sends) => ~Holds(toFlow', Sends)
        /\ EnablesBeforeSends(toFlow) => EnablesBeforeSends(toFlow')
    <2>1. CASE toFlow' = toFlow
      BY <2>1
    <2>2. ASSUME NEW e \in {Added, Removed}, toFlow' = Append(toFlow, e)
          PROVE  /\ ~Holds(toFlow, Sends) => ~Holds(toFlow', Sends)
                 /\ EnablesBeforeSends(toFlow) => EnablesBeforeSends(toFlow')
      BY <1>4, <2>2
    <2>3. QED
      BY <2>1, <2>2
  <1>6. QED
    BY <1>5 DEF EnabledFirst

LEMMA EnabledStep ==
    ASSUME Types, Loops, CalmTypes, EnabledFirst, [Next]_vars
    PROVE  EnabledFirst'
  <1>0. toFlow \in Seq(FlowMessages)
    BY DEF Types, SocketTypes
  <1>1. CASE MachineReadsEvent
    <2>1. Head(events) \in {Added, Removed}
      BY <1>1, TailIsSeq DEF MachineReadsEvent, Types, SocketTypes
    <2>2. /\ toFlow' = Append(toFlow, Head(events)) /\ active' = active
          /\ state' \in {"Connected", "Disconnected"}
      BY <1>1, <2>1 DEF MachineReadsEvent, Mach!HandleContext, Mach!UsbDeviceAdded,
         Mach!UsbDeviceRemoved, Added, Removed, flowVars
    <2>3. QED
      BY <2>1, <2>2, EnabledKept
  <1>2. CASE MachineReadsFlow
    <2>1. active' = active
      BY <1>2 DEF MachineReadsFlow, flowVars
    <2>2. CASE Mach!InitSupported(Head(toParent))
      <3>1. toFlow' = toFlow \o Mach!EnableAndAsk
        BY <2>2 DEF Mach!InitSupported
      <3>2. QED
        BY <1>0, <2>1, <3>1, EnableFacts DEF EnabledFirst
    <2>3. CASE toFlow' = toFlow /\ state' = state
      BY <2>1, <2>3, EnabledKept
    <2>4. CASE Mach!ResponseVersion(Head(toParent))
      <3>1. state = "Grbl" /\ toFlow' = toFlow
        BY <2>4 DEF Mach!ResponseVersion
      <3>2. QED
        BY <2>1, <3>1 DEF EnabledFirst
    <2>5. QED
      BY <1>2, <2>2, <2>3, <2>4 DEF MachineReadsFlow, Mach!HandleFlow, Mach!InitUnsupported,
         Mach!PushReceived, Mach!DropResponse, Mach!Response, Mach!ResponseAborts, Mach!vars
  <1>3. CASE ClientSends
    <2>1. active' = active /\ state' = state
      BY <1>3 DEF ClientSends, Mach!ForwardGrbl, flowVars
    <2>2. CASE Mach!Forwards(state)
      <3>1. \A type \in ClientCommands :
            \A size \in IF type \in Planned THEN GcodeSizes ELSE {TextSize(type)} :
                type \in Commands /\ size \in Nat
        BY SMT, CommandAssumption, SizeAssumption DEF TextSize
      <3>2. PICK type \in Commands : \E size \in Nat : toFlow' = Append(toFlow, Mach!Send(type, size))
        BY <1>3, <2>2, <3>1 DEF ClientSends, Mach!ForwardGrbl
      <3>3. PICK size \in Nat : toFlow' = Append(toFlow, Mach!Send(type, size))
        BY <3>2
      <3>4. EnablesBeforeSends(toFlow) => EnablesBeforeSends(toFlow')
        BY <1>0, <3>3, MessageTypes, EnableFacts
      <3>5. QED
        BY <2>1, <2>2, <3>4 DEF EnabledFirst, Mach!Forwards, Mach!Ready
    <2>3. CASE ~Mach!Forwards(state)
      <3>1. toFlow' = toFlow
        BY <1>3, <2>3 DEF ClientSends, Mach!ForwardGrbl
      <3>2. QED
        BY <2>1, <3>1, EnabledKept
    <2>4. QED
      BY <2>2, <2>3
  <1>4. CASE FlowReadsMachine
    <2> DEFINE msg == Head(toFlow)
    <2>1. /\ toFlow # <<>> /\ toFlow' = Tail(toFlow) /\ state' = state
          /\ FlowHandles(msg) /\ msg \in FlowMessages
      BY <1>4, TailIsSeq DEF FlowReadsMachine, machineVars, Types, SocketTypes
    <2>2. CASE msg = Enable
      BY <2>1, <2>2 DEF FlowHandles, Enable, Flow!EnableFlowControl, Flow!UsbEvents, EnabledFirst
    <2>3. CASE msg # Enable
      <3>1. active' = active
        <4>1. msg.kind # "EnableFlowControl"
          BY <2>1, <2>3, MessageKinds
        <4>2. QED
          BY <2>1, <4>1 DEF FlowHandles, Flow!SendMessage, Flow!Refuse, Flow!PassThrough,
             Flow!AssertionFails, Flow!Enqueue, Flow!Reconnect
      <3>2. ~Holds(toFlow, Sends) => ~Holds(toFlow', Sends)
        BY <1>0, <2>1, HoldsOfTail
      <3>3. EnablesBeforeSends(toFlow) => EnablesBeforeSends(toFlow')
        BY <1>0, <2>1, <2>3, EnableFacts
      <3>4. QED
        BY <2>1, <3>1, <3>2, <3>3 DEF EnabledFirst
    <2>4. QED
      BY <2>2, <2>3
  <1>5. CASE FlowSends
    <2>1. incoming # <<>>
      BY <1>5 DEF FlowSends, Flow!Loop, Flow!SendRequest, Flow!SendReset, Loops, Flow!CanSend
    <2>2. Head(incoming).type # "GrblSoftReset"
      BY <2>1, TailIsSeq DEF CalmTypes, CalmRequests
    <2>3. Flow!Position(Head(incoming).type) # "Reset"
      BY SMT, <2>2 DEF Flow!Position
    <2>4. active' = active /\ state' = state /\ toFlow' = toFlow
      BY <1>5, <2>3 DEF FlowSends, Flow!Loop, Flow!SendRequest, Flow!SendReset, machineVars
    <2>5. QED
      BY <2>4, EnabledKept
  <1>6. CASE FlowReadsSerial
    BY <1>6, EnabledKept DEF FlowReadsSerial, Flow!ReceiveData, Flow!ReceiveEmpty, Flow!ReceiveStartup,
       Flow!ReceivePush, Flow!ReceiveMultiline, Flow!ReceiveAlarm, Flow!ReceiveReply, machineVars
  <1>7. CASE UNCHANGED vars \/ ContextReads \/ Scan \/ SerialReadsFlow \/ Plug \/ Unplug \/ Device
    <2>1. UNCHANGED <<active, state, toFlow>>
      BY <1>7 DEF vars, ContextReads, Scan, SerialReadsFlow, Plug, Unplug, Device, DeviceBoots,
         DeviceRestarts, DeviceReports, DeviceObeys, DeviceStartsReply, DeviceReplies, DeviceSpeaks,
         Prints, flowVars, machineVars
    <2>2. QED
      BY <2>1, EnabledKept
  <1>8. QED
    BY <1>1, <1>2, <1>3, <1>4, <1>5, <1>6, <1>7 DEF Next, Actors

-----------------------------------------------------------------------------
(* The requests outstanding, and the lines that answer them *)

Outstanding == Counts /\ GreedyFirst /\ HelpMode /\ Aligned

\* A step that leaves FlowControl's queue and what the device owes alone.
LEMMA OutstandingKept ==
    ASSUME Outstanding,
           UNCHANGED <<used, outgoing, mode, crossed, fromSerial, input, toSerial, booting, port>>
    PROVE  Outstanding'
  BY DEF Outstanding, Counts, GreedyFirst, HelpMode, Aligned

\* FlowControl queues a command, or forwards an event while there is no port.
LEMMA OutstandingFlowReadsMachine ==
    ASSUME Types, CalmTypes, UsbInv, EnabledFirst, Outstanding, ~aborted, ~aborted', FlowReadsMachine
    PROVE  Outstanding'
  <1> DEFINE msg == Head(toFlow)
  <1>1. /\ UNCHANGED <<port, booting, fromSerial, input>>
        /\ toFlow # <<>> /\ toFlow \in Seq(FlowMessages) /\ msg \in FlowMessages
        /\ FlowHandles(msg) /\ crossed' = (crossed /\ msg.kind # "USBDeviceAdded")
    BY TailIsSeq DEF FlowReadsMachine, linkVars, deviceVars, Types, SocketTypes
  <1>2. /\ HasAdded(toFlow) <=> msg = Added \/ HasAdded(Tail(toFlow))
        /\ HasRemoved(toFlow) <=> msg = Removed \/ HasRemoved(Tail(toFlow))
    BY <1>1, FlowTails
  <1>3. CASE msg.kind = "Send"
    <2>1. active
      <3>1. msg \in Sends /\ msg # Enable
        BY <1>1, <1>3 DEF Sends, Enable
      <3>2. Holds(toFlow, Sends)
        BY <1>1, <3>1, HoldsOfTail
      <3>3. ~EnablesBeforeSends(toFlow)
        BY <1>1, <3>1, EnableFacts
      <3>4. QED
        BY <3>2, <3>3 DEF EnabledFirst
    <2>2. Flow!SendMessage(msg.type, msg.size)
      BY <1>1, <1>3 DEF FlowHandles, Flow!UsbEvents
    <2>3. ~Flow!PassThrough(msg.type, msg.size) /\ ~Flow!AssertionFails(msg.type, msg.size)
      BY <2>1 DEF Flow!PassThrough, Flow!AssertionFails
    <2>4. UNCHANGED <<used, outgoing, mode, toSerial>>
      BY <2>2, <2>3 DEF Flow!SendMessage, Flow!Refuse, Flow!Enqueue, Flow!queues, Flow!classifier,
         Flow!sockets
    <2>5. crossed' = crossed
      BY <1>1, <1>3 DEF Types, DeviceTypes
    <2>6. QED
      BY <1>1, <2>4, <2>5, OutstandingKept
  <1>4. CASE msg.kind = "EnableFlowControl"
    <2>1. Flow!EnableFlowControl
      BY <1>1, <1>4 DEF FlowHandles, Flow!UsbEvents
    <2>2. crossed' = crossed
      BY <1>1, <1>4 DEF Types, DeviceTypes
    <2>3. QED
      BY <1>1, <2>1, <2>2, OutstandingKept DEF Flow!EnableFlowControl, Flow!queues, Flow!classifier,
         Flow!sockets
  <1>5. CASE msg.kind \in Flow!UsbEvents
    <2>1. Flow!Reconnect(msg.kind)
      BY <1>1, <1>5 DEF FlowHandles, Flow!UsbEvents
    <2>2. port # "open"
      <3>1. msg = Added \/ msg = Removed
        BY <1>1, <1>5, MessageKinds DEF Flow!UsbEvents
      <3>2. HasAdded(toFlow) => port # "open"
        BY DEF UsbInv, AddedInFlow, Untouched
      <3>3. HasRemoved(toFlow) => port # "open"
        BY DEF UsbInv, NoRemoval, Basics
      <3>4. QED
        BY <1>2, <3>1, <3>2, <3>3
    <2>3. outgoing' = <<>> /\ used' = 0
      BY <2>1 DEF Flow!Reconnect, UsbInv, Basics, Cleared
    <2>4. Counts'
      BY <2>3, Sums, LimitAssumption DEF Counts
    <2>5. GreedyFirst' /\ HelpMode'
      BY <2>3 DEF GreedyFirst, GreedyFirstIn, HelpMode
    <2>6. Aligned'
      BY <1>1, <2>2 DEF Aligned
    <2>7. QED
      BY <2>4, <2>5, <2>6 DEF Outstanding
  <1>6. QED
    BY <1>1, <1>3, <1>4, <1>5 DEF FlowHandles

\* FlowControl transmits a request.
LEMMA OutstandingFlowSends ==
    ASSUME Types, Loops, CalmTypes, Outstanding, ~aborted, FlowSends
    PROVE  Outstanding'
  <1> DEFINE r == Head(incoming)
  <1>1. /\ UNCHANGED <<port, booting, fromSerial, input, crossed>>
        /\ sending /\ Flow!CanSend /\ incoming # <<>>
    BY DEF FlowSends, linkVars, deviceVars, Loops, Flow!CanSend, Flow!Loop, Flow!SendRequest,
       Flow!SendReset
  <1>2. r \in CalmRequests /\ r \in Flow!Request
    BY <1>1, TailIsSeq DEF CalmTypes, CalmRequests
  <1>3. Flow!SendRequest
    <2>1. r.type # "GrblSoftReset"
      BY <1>2 DEF CalmRequests
    <2>2. Flow!Position(r.type) # "Reset"
      BY SMT, <2>1 DEF Flow!Position
    <2>3. QED
      BY <2>2 DEF FlowSends, Flow!Loop, Flow!SendReset
  <1>4. /\ toSerial' = Append(toSerial, Flow!Data(r))
        /\ used' = used + Flow!PlannedSize(r)
        /\ outgoing' = IF Ordinary(r) THEN Append(outgoing, r) ELSE outgoing
        /\ outgoing' # <<>> /\ Head(outgoing').type \in Multiline => mode' = "Help"
    <2>1. r.type \in Flow!Realtime <=> ~Ordinary(r)
      BY <1>2, RealtimeCounts, SameTables
    <2>2. /\ toSerial' = Append(toSerial, Flow!Data(r))
          /\ used' = used + Flow!PlannedSize(r)
          /\ outgoing' = IF r.type \in Flow!Realtime THEN outgoing ELSE Append(outgoing, r)
          /\ \E multiline \in Flow!FrontIsMultiline(outgoing') :
                 mode' = IF multiline THEN "Help" ELSE mode
      BY <1>3 DEF Flow!SendRequest
    <2>3. QED
      BY <2>1, <2>2, SameTables DEF Flow!FrontIsMultiline
  <1>5. /\ Flow!PlannedSize(r) <= Limit - used
        /\ r.type \in Greedy => outgoing = <<>>
    BY <1>1, SameTables DEF Flow!CanSend
  <1>6. Counts'
    <2>1. SumSizes[outgoing'] = SumSizes[outgoing] + Flow!PlannedSize(r)
      <3>1. CASE Ordinary(r)
        BY <1>2, <1>4, <3>1, Sums DEF Types, FlowTypes
      <3>2. CASE ~Ordinary(r)
        <4>1. Flow!PlannedSize(r) = 0 /\ outgoing' = outgoing
          BY <1>2, <1>4, <3>2, RealtimeCounts
        <4>2. SumSizes[outgoing] \in Nat
          BY Sums DEF Types, FlowTypes
        <4>3. QED
          BY <4>1, <4>2
      <3>3. QED
        BY <3>1, <3>2
    <2>2. Flow!PlannedSize(r) \in Nat /\ used \in Int
      BY <1>2, Sums DEF Types, FlowTypes
    <2>3. QED
      BY <1>4, <1>5, <2>1, <2>2, LimitAssumption DEF Outstanding, Counts
  <1>7. GreedyFirst'
    <2>1. CASE Ordinary(r)
      <3>1. /\ outgoing' = Append(outgoing, r) /\ Len(outgoing') = Len(outgoing) + 1
            /\ Len(outgoing) \in Nat /\ (outgoing # <<>> <=> Len(outgoing) > 0)
            /\ \A i \in 1..Len(outgoing) : outgoing'[i] = outgoing[i]
            /\ outgoing'[Len(outgoing) + 1] = r
        BY <1>2, <1>4, <2>1, AppendIsSeq, EmptySeq, LenProperties DEF Types, FlowTypes
      <3>2. QED
        BY <1>5, <3>1 DEF Outstanding, GreedyFirst, GreedyFirstIn
    <2>2. CASE ~Ordinary(r)
      BY <1>4, <2>2 DEF Outstanding, GreedyFirst
    <2>3. QED
      BY <2>1, <2>2
  <1>8. HelpMode'
    BY <1>4 DEF HelpMode
  <1>9. Aligned'
    <2> SUFFICES ASSUME port = "open", ~crossed
                 PROVE  AlignedAs(fromSerial, outgoing', input, toSerial', booting)
      BY <1>1 DEF Aligned
    <2>1. AlignedAs(fromSerial, outgoing, input, toSerial, booting)
      BY DEF Outstanding, Aligned
    <2>2. /\ outgoing \in Seq(Flow!Request) /\ input \in Seq(Flow!Request)
          /\ toSerial \in Seq(Flow!SerialMessages) /\ booting \in BOOLEAN
      BY DEF Types, FlowTypes, SocketTypes, DeviceTypes
    <2> HIDE DEF r
    <2>3. AlignedAs(fromSerial, outgoing', input, Append(toSerial, Flow!Data(r)), booting)
      BY <1>2, <1>4, <2>1, <2>2, AlignedSends
    <2>4. QED
      BY <1>4, <2>3
  <1>10. QED
    BY <1>6, <1>7, <1>8, <1>9 DEF Outstanding

\* What the line that FlowControl reads does to its queue.
LineAnswers(line) ==
    /\ Flow!ReceiveReply(line)
    /\ line.kind \in {"reply", "text"}
    /\ line.kind = "text" => mode # "Help"
LinePasses(line) ==
    /\ line.kind # "reply"
    /\ UNCHANGED <<outgoing, used>>
    /\ mode' = mode \/ (mode' = "Normal" /\ line.kind \in {"grbl", "oldGrbl", "status"})

LEMMA LineHandled ==
    ASSUME NEW line \in CalmLines, Flow!ReceiveData(line)
    PROVE  LineAnswers(line) \/ LinePasses(line)
  <1>1. /\ line.kind \in {"grbl", "oldGrbl", "status", "push", "reply", "text"}
    BY DEF CalmLines, Flow!Line, Flow!LineKinds
  <1>2. /\ Flow!Class(line) \notin {"Empty", "Alarm"}
        /\ Flow!Class(line) = "Startup" <=> line.kind \in {"grbl", "oldGrbl", "status"}
        /\ Flow!Class(line) \in {"Push", "Multiline"} => line.kind # "reply"
        /\ Flow!Class(line) \in {"Response", "MultilineDone", "Unknown"}
               => line.kind \in {"reply", "text"} /\ (line.kind = "text" => mode # "Help")
    BY SMT, <1>1 DEF Flow!Class
  <1>3. CASE Flow!ReceiveStartup(line) \/ Flow!ReceivePush(line) \/ Flow!ReceiveMultiline(line)
    BY <1>2, <1>3 DEF Flow!ReceiveStartup, Flow!ReceivePush, Flow!ReceiveMultiline, LinePasses,
       Flow!queues
  <1>4. CASE Flow!ReceiveReply(line)
    BY <1>2, <1>4 DEF Flow!ReceiveReply, LineAnswers
  <1>5. QED
    BY <1>2, <1>3, <1>4 DEF Flow!ReceiveData, Flow!ReceiveEmpty, Flow!ReceiveAlarm

\* FlowControl reads a line.
LEMMA OutstandingFlowReadsSerial ==
    ASSUME Types, CalmTypes, FirstInv, Outstanding, FlowReadsSerial
    PROVE  Outstanding'
  <1> DEFINE line == Head(fromSerial)
  <1>1. /\ UNCHANGED <<port, booting, input, restarts>>
        /\ fromSerial # <<>> /\ fromSerial' = Tail(fromSerial) /\ Flow!ReceiveData(line)
        /\ crossed' = (crossed \/ (outgoing # <<>> /\ CutsReply(line)))
    BY DEF FlowReadsSerial, linkVars, deviceVars
  <1>2. /\ line \in CalmLines /\ line \in Flow!Line /\ fromSerial \in Seq(Flow!Line)
        /\ outgoing \in Seq(Flow!Request) /\ input \in Seq(Flow!Request)
        /\ toSerial \in Seq(Flow!SerialMessages) /\ booting \in BOOLEAN
        /\ mode \in {"Normal", "Help"} /\ used \in Int /\ toSerial' = toSerial
    <2>1. toSerial' = toSerial
      BY <1>1 DEF Flow!ReceiveData, Flow!ReceiveEmpty, Flow!ReceiveStartup, Flow!ReceivePush,
         Flow!ReceiveMultiline, Flow!ReceiveAlarm, Flow!ReceiveReply, Flow!sockets
    <2>2. QED
      BY <1>1, <2>1, TailIsSeq DEF CalmTypes, CalmLines, Types, FlowTypes, SocketTypes, DeviceTypes
  <1>3. Holds(fromSerial, GarbledLines) /\ line \in GarbledLines => outgoing = <<>>
    BY DEF FirstInv, GarbledIsFresh, Fresh, Cleared
  <1>4. line \in GarbledLines => outgoing = <<>>
    <2>1. line \in GarbledLines => Holds(fromSerial, GarbledLines)
      BY <1>1, <1>2, HoldsOfTail
    <2>2. QED
      BY <1>3, <2>1
  <1>5. line \in StartupLines /\ restarts = 0 => outgoing = <<>>
    <2>1. line \in StartupLines => Holds(fromSerial, StartupLines)
      BY <1>1, <1>2, HoldsOfTail
    <2>2. QED
      BY <2>1 DEF FirstInv, StartupIsFresh, Fresh, Cleared
  <1>6. line \in StartupLines /\ ~crossed' => outgoing = <<>>
    <2>1. restarts = 0 \/ restarts > 0
      BY DEF Types, DeviceTypes
    <2>2. line \in StartupLines => Startup(line)
      BY DEF StartupLines
    <2>3. Startup(line) /\ restarts > 0 => CutsReply(line)
      BY DEF CutsReply
    <2>4. QED
      BY <1>1, <1>5, <2>1, <2>2, <2>3
  <1>7. /\ line \in StartupLines <=> line.kind \in {"grbl", "oldGrbl"}
        /\ line \in ReplyLines <=> line.kind = "reply"
        /\ (line \in TextLines \/ line \in GarbledLines) <=> line.kind = "text"
    <2>1. line.tag > 0 \/ line.tag = 0
      BY <1>2 DEF Flow!Line
    <2>2. QED
      BY <1>2, <2>1 DEF StartupLines, Startup, ReplyLines, TextLines, GarbledLines
  <1>8. port = "open" /\ ~crossed => AlignedAs(fromSerial, outgoing, input, toSerial, booting)
    BY DEF Outstanding, Aligned
  <1>9. port = "open" /\ ~crossed /\ line \notin StartupLines /\ line \notin ReplyLines =>
            /\ AlignedAs(Tail(fromSerial), outgoing, input, toSerial, booting)
            /\ line \in TextLines => outgoing # <<>> /\ Head(outgoing).type \in Multiline
    <2> SUFFICES ASSUME AlignedAs(fromSerial, outgoing, input, toSerial, booting),
                        line \notin StartupLines, line \notin ReplyLines
                 PROVE  /\ AlignedAs(Tail(fromSerial), outgoing, input, toSerial, booting)
                        /\ line \in TextLines => outgoing # <<>> /\ Head(outgoing).type \in Multiline
      BY <1>8
    <2>1. QED
      BY <1>1, <1>2, AlignedReadOther DEF Begins
  <1>10. /\ Counts /\ GreedyFirst /\ HelpMode
    BY DEF Outstanding
  <1>11. CASE LinePasses(line)
    <2>1. outgoing' = outgoing /\ used' = used
      BY <1>11 DEF LinePasses
    <2>2. HelpMode'
      <3>1. CASE mode' = mode
        BY <1>1, <1>10, <2>1, <3>1 DEF HelpMode
      <3>2. CASE line.kind \in {"grbl", "oldGrbl"}
        BY <1>6, <1>7, <2>1, <3>2 DEF HelpMode
      <3>3. CASE line.kind = "status"
        BY <1>1, <2>1, <3>3 DEF HelpMode, CutsReply
      <3>4. QED
        BY <1>11, <3>1, <3>2, <3>3 DEF LinePasses
    <2>3. Aligned'
      <3> SUFFICES ASSUME port = "open", ~crossed'
                   PROVE  AlignedAs(Tail(fromSerial), outgoing, input, toSerial, booting)
        BY <1>1, <1>2, <2>1 DEF Aligned
      <3>1. CASE line \in StartupLines
        <4>1. outgoing = <<>> /\ AlignedAs(fromSerial, <<>>, input, toSerial, booting)
          BY <1>1, <1>6, <1>8, <3>1
        <4>2. AlignedAs(Tail(fromSerial), <<>>, input, toSerial, booting)
          BY <1>1, <1>2, <3>1, <4>1, AlignedReadStartup
        <4>3. QED
          BY <4>1, <4>2
      <3>2. CASE line \notin StartupLines
        BY <1>1, <1>7, <1>9, <1>11, <3>2 DEF LinePasses
      <3>3. QED
        BY <3>1, <3>2
    <2>4. QED
      BY <1>10, <2>1, <2>2, <2>3 DEF Outstanding, Counts, GreedyFirst
  <1>12. CASE LineAnswers(line)
    <2>1. /\ used' = used - Flow!Released(IF outgoing = <<>> THEN Flow!NoRequest ELSE Head(outgoing))
          /\ outgoing' = IF outgoing = <<>> THEN <<>> ELSE Tail(outgoing)
      BY <1>12 DEF LineAnswers, Flow!ReceiveReply
    <2>2. CASE outgoing = <<>>
      <3>1. Flow!Released(Flow!NoRequest) = 0
        BY DEF Flow!Released, Flow!PlannedSize, Flow!NoRequest, Flow!Planned
      <3>2. outgoing' = outgoing /\ used' = used
        BY <1>2, <2>1, <2>2, <3>1
      <3>3. HelpMode'
        BY <2>2, <3>2 DEF HelpMode
      <3>4. Aligned'
        <4> SUFFICES ASSUME port = "open", ~crossed'
                     PROVE  AlignedAs(Tail(fromSerial), outgoing, input, toSerial, booting)
          BY <1>1, <1>2, <3>2 DEF Aligned
        <4>1. line \notin ReplyLines
          BY <1>1, <1>2, <1>8, <2>2, AlignedReadReply
        <4>2. QED
          BY <1>1, <1>7, <1>9, <1>12, <4>1 DEF LineAnswers
      <3>5. QED
        BY <1>10, <3>2, <3>3, <3>4 DEF Outstanding, Counts, GreedyFirst
    <2>3. CASE outgoing # <<>>
      <3>1. /\ outgoing' = Tail(outgoing) /\ Tail(outgoing) \in Seq(Flow!Request)
            /\ Head(outgoing) \in Flow!Request
            /\ used' = used - Flow!PlannedSize(Head(outgoing))
        BY <1>2, <2>1, <2>3, TailIsSeq DEF Flow!Released
      <3>2. Counts'
        <4>1. SumSizes[outgoing] = Flow!PlannedSize(Head(outgoing)) + SumSizes[Tail(outgoing)]
          BY <1>2, <2>3, Sums
        <4>2. Flow!PlannedSize(Head(outgoing)) \in Nat /\ SumSizes[Tail(outgoing)] \in Nat
          BY <3>1, Sums
        <4>3. QED
          BY <1>2, <1>10, <3>1, <4>1, <4>2, LimitAssumption DEF Counts
      <3>3. /\ Len(Tail(outgoing)) = Len(outgoing) - 1 /\ Len(outgoing) \in Nat
            /\ \A i \in 1..(Len(outgoing) - 1) : Tail(outgoing)[i] = outgoing[i + 1]
            /\ Tail(outgoing) # <<>> => Head(Tail(outgoing)) = outgoing[2] /\ 2 \in 2..Len(outgoing)
        <4>1. /\ Len(Tail(outgoing)) = Len(outgoing) - 1 /\ Len(outgoing) \in Nat
              /\ \A i \in 1..(Len(outgoing) - 1) : Tail(outgoing)[i] = outgoing[i + 1]
          BY <1>2, <2>3, TailIsSeq
        <4>2. Tail(outgoing) # <<>> =>
                  Head(Tail(outgoing)) = Tail(outgoing)[1] /\ Len(Tail(outgoing)) > 0
          BY <3>1, TailIsSeq
        <4>3. QED
          BY <4>1, <4>2
      <3>4. GreedyFirst'
        BY <1>10, <3>1, <3>3 DEF GreedyFirst, GreedyFirstIn
      <3>5. HelpMode'
        BY <1>10, <3>1, <3>3 DEF GreedyFirst, GreedyFirstIn, HelpMode, Greedy
      <3>6. Aligned'
        <4> SUFFICES ASSUME port = "open", ~crossed'
                     PROVE  AlignedAs(Tail(fromSerial), Tail(outgoing), input, toSerial, booting)
          BY <1>1, <1>2, <3>1 DEF Aligned
        <4>1. CASE line \in ReplyLines
          BY <1>1, <1>2, <1>8, <4>1, AlignedReadReply
        <4>2. CASE line \notin ReplyLines
          <5>1. line.kind = "text" /\ mode # "Help"
            BY <1>7, <1>12, <4>2 DEF LineAnswers
          <5>2. line \in TextLines
            BY <1>4, <1>7, <2>3, <5>1
          <5>3. outgoing # <<>> /\ Head(outgoing).type \in Multiline
            BY <1>1, <1>7, <1>9, <5>1, <5>2
          <5>4. QED
            BY <1>1, <1>10, <5>1, <5>3 DEF HelpMode
        <4>3. QED
          BY <4>1, <4>2
      <3>7. QED
        BY <3>2, <3>4, <3>5, <3>6 DEF Outstanding
    <2>4. QED
      BY <2>2, <2>3
  <1>13. QED
    BY <1>1, <1>2, <1>11, <1>12, LineHandled

\* SerialConnection opens its port, writes, or closes it.
LEMMA OutstandingSerial ==
    ASSUME Types, CalmTypes, UsbInv, Outstanding, ~aborted, ~aborted', SerialReadsFlow
    PROVE  Outstanding'
  <1> DEFINE msg == Head(toSerial)
  <1>1. /\ toSerial # <<>> /\ toSerial' = Tail(toSerial) /\ SerialHandles(msg)
        /\ UNCHANGED <<outgoing, used, mode, crossed, fromSerial>>
        /\ toSerial \in Seq(Flow!SerialMessages) /\ toSerial \in Seq(CalmMessages)
    BY DEF SerialReadsFlow, SerialHandles, Link!Transmit, Link!Connect, Link!Disconnect, flowVars,
       Types, SocketTypes, CalmTypes
  <1>2. Counts' /\ GreedyFirst' /\ HelpMode'
    BY <1>1 DEF Outstanding, Counts, GreedyFirst, HelpMode
  <1>3. CASE msg.kind = "Data"
    <2>1. port' = port /\ booting' = booting /\ (port = "open" => input' = Append(input, msg.request))
      BY <1>1, <1>3 DEF SerialHandles, Link!Transmit
    <2>2. msg.request \in CalmRequests
      BY <1>1, <1>3, TailIsSeq DEF CalmMessages
    <2>3. input \in Seq(Flow!Request) /\ booting \in BOOLEAN
      BY DEF Types, DeviceTypes
    <2>4. Aligned'
      <3> SUFFICES ASSUME port = "open", ~crossed
                   PROVE  AlignedAs(fromSerial, outgoing, Append(input, msg.request), Tail(toSerial),
                                    booting)
        BY <1>1, <2>1 DEF Aligned
      <3>1. AlignedAs(fromSerial, outgoing, input, toSerial, booting)
        BY DEF Outstanding, Aligned
      <3>2. QED
        BY <1>1, <1>3, <2>2, <2>3, <3>1, AlignedWrites
    <2>5. QED
      BY <1>2, <2>4 DEF Outstanding
  <1>4. CASE msg.kind = "USBDeviceAdded"
    <2>1. HasAdded(toSerial)
      <3>1. msg = Added
        BY <1>1, <1>4, MessageKinds, TailIsSeq
      <3>2. QED
        BY <1>1, <3>1, SerialTails
    <2>2. /\ toSerial \in {Came, CameAndLeft} /\ outgoing = <<>> /\ fromSerial = <<>> /\ port # "open"
      BY <2>1 DEF UsbInv, AddedInSerial, Cleared, Untouched
    <2>3. input' = <<>> /\ booting' \in BOOLEAN
      BY <1>1, <1>4, <2>2 DEF SerialHandles, Link!Connect, UsbInv, Basics, Types, DeviceTypes
    <2>4. toSerial' \in Seq(Flow!SerialMessages) /\ ~Holds(toSerial', DataMessages)
      <3>1. toSerial' \in {<<>>, Left}
        BY <1>1, <2>2, SmallQueues
      <3>2. \A T, a : Holds(<<a>>, T) <=> a \in T
        BY HoldsOfPair
      <3>3. Holds(Left, DataMessages) <=> Removed \in DataMessages
        BY <3>2 DEF Left
      <3>4. Removed \notin DataMessages
        BY DEF Removed, DataMessages
      <3>5. QED
        BY <1>1, <3>1, <3>3, <3>4, HoldsOfEmpty, TailIsSeq
    <2>5. AlignedAs(<<>>, <<>>, <<>>, toSerial', booting')
      BY <2>3, <2>4, AlignedIdle
    <2>6. QED
      BY <1>1, <1>2, <2>2, <2>3, <2>5 DEF Outstanding, Aligned
  <1>5. CASE msg.kind = "USBDeviceRemoved"
    <2>1. port' # "open"
      BY <1>1, <1>5 DEF SerialHandles, Link!Disconnect
    <2>2. QED
      BY <1>2, <2>1 DEF Outstanding, Aligned
  <1>6. QED
    BY <1>1, <1>3, <1>4, <1>5 DEF SerialHandles

\* The device.
LEMMA OutstandingDevice ==
    ASSUME NoAlarms, Types, CalmTypes, UsbInv, FirstInv, Outstanding, ~aborted, Device
    PROVE  Outstanding'
  <1>1. /\ UNCHANGED <<outgoing, used, mode, crossed, toSerial, port>>
        /\ outgoing \in Seq(Flow!Request) /\ input \in Seq(Flow!Request)
        /\ toSerial \in Seq(Flow!SerialMessages) /\ fromSerial \in Seq(Flow!Line)
        /\ booting \in BOOLEAN
    BY DEF Device, DeviceBoots, DeviceRestarts, DeviceReports, DeviceObeys, DeviceStartsReply,
       DeviceReplies, DeviceSpeaks, Prints, Link!Flush, flowVars, linkVars,
       Types, FlowTypes, SocketTypes, DeviceTypes
  <1>2. Counts' /\ GreedyFirst' /\ HelpMode'
    BY <1>1 DEF Outstanding, Counts, GreedyFirst, HelpMode
  <1>3. SUFFICES ASSUME port = "open", ~crossed,
                        AlignedAs(fromSerial, outgoing, input, toSerial, booting)
                 PROVE  AlignedAs(fromSerial', outgoing, input', toSerial, booting')
    BY <1>1, <1>2 DEF Outstanding, Aligned
  <1>4. ASSUME NEW kind \in Flow!LineKinds, NEW tag \in Nat, Running, Prints(kind, tag)
        PROVE  /\ fromSerial' = Append(fromSerial, [kind |-> kind, tag |-> tag])
               /\ [kind |-> kind, tag |-> tag] \in Flow!Line
    BY <1>3, <1>4, PrintedLine, RunningIsWhole DEF Flow!Line
  <1>5. {"status", "text", "reply", "push", "grbl", "oldGrbl"} \subseteq Flow!LineKinds
    BY DEF Flow!LineKinds
  <1>6. \A kind \in {"status", "push"} : [kind |-> kind, tag |-> 0] \in Flow!Line
            => [kind |-> kind, tag |-> 0] \notin StartupLines \cup AnswerLines
    BY DEF StartupLines, Startup, AnswerLines, ReplyLines, TextLines
  <1>7. CASE DeviceBoots
    <2>1. /\ banner \in {"grbl", "oldGrbl"} /\ booting /\ Prints(banner, 0)
          /\ booting' = FALSE /\ input' = <<>>
      BY <1>7, DeviceAssumption DEF DeviceBoots, Prints, Link!Flush, Types, DeviceTypes
    <2> DEFINE line == [kind |-> banner, tag |-> 0]
    <2>2. /\ line \in StartupLines /\ Link!Garbled(line) \in Flow!Line
          /\ Link!Garbled(line) \notin StartupLines \cup AnswerLines
          /\ fromSerial' = Append(fromSerial, IF cut THEN Link!Garbled(line) ELSE line)
      <3>1. line \in StartupLines
        BY <2>1 DEF Flow!Line, Flow!LineKinds, StartupLines, Startup
      <3>2. Link!Garbled(line) \in GarbledLines
        BY DEF Link!Garbled, Flow!Line, Flow!LineKinds, GarbledLines
      <3>3. \A other \in GarbledLines :
                other \in Flow!Line /\ other \notin StartupLines \cup AnswerLines
        BY DEF GarbledLines, StartupLines, Startup, AnswerLines, ReplyLines, TextLines
      <3>4. fromSerial' = Append(fromSerial, IF cut THEN Link!Garbled(line) ELSE line)
        BY <2>1, PrintedLine
      <3>5. QED
        BY <3>1, <3>2, <3>3, <3>4
    <2> HIDE DEF line
    <2>3. CASE cut
      <3>1. fromSerial = <<>> /\ outgoing = <<>> /\ ~Holds(toSerial, DataMessages)
        BY <1>3, <2>3 DEF FirstInv, CutIsFresh, Fresh, Cleared
      <3>2. AlignedAs(<<>>, <<>>, <<>>, toSerial, FALSE)
        BY <1>1, <3>1, AlignedIdle
      <3>3. <<>> \in Seq(Flow!Line) /\ <<>> \in Seq(Flow!Request)
        BY EmptySeq
      <3>4. AlignedAs(Append(<<>>, Link!Garbled(line)), <<>>, <<>>, toSerial, FALSE)
        BY <1>1, <2>2, <3>2, <3>3, AlignedOther
      <3>5. QED
        BY <2>1, <2>2, <2>3, <3>1, <3>4
    <2>4. CASE ~cut
      <3>1. AlignedAs(fromSerial, outgoing, input, toSerial, TRUE)
        BY <1>1, <1>3, <2>1
      <3>2. AlignedAs(Append(fromSerial, line), outgoing, <<>>, toSerial, FALSE)
        BY <1>1, <2>2, <3>1, AlignedBoot
      <3>3. QED
        BY <2>1, <2>2, <2>4, <3>2
    <2>5. QED
      BY <2>3, <2>4
  <1>8. CASE DeviceRestarts
    <2>1. /\ booting = FALSE /\ booting' = TRUE /\ UNCHANGED <<fromSerial, input>>
      BY <1>1, <1>8 DEF DeviceRestarts, Running
    <2>2. AlignedAs(fromSerial, outgoing, input, toSerial, TRUE)
      BY <1>1, <1>3, <2>1, AlignedRestart
    <2>3. QED
      BY <2>1, <2>2
  <1>9. ASSUME NEW i \in 1..Len(input), TakesRealtime(i)
        PROVE  AlignedAs(fromSerial, outgoing, input', toSerial, booting) /\ input' \in Seq(Flow!Request)
    <2> DEFINE a == SubSeq(input, 1, i - 1)
               b == SubSeq(input, i + 1, Len(input))
    <2>1. /\ a \in Seq(Flow!Request) /\ b \in Seq(Flow!Request)
          /\ input = (a \o <<input[i]>>) \o b
      BY <1>1, AroundElement
    <2>2. input[i] \in CalmRequests
      BY AroundElement DEF CalmTypes
    <2>3. ~Ordinary(input[i]) /\ input' = a \o b
      BY <1>9 DEF TakesRealtime, Ordinary
    <2> HIDE DEF a, b
    <2>4. AlignedAs(fromSerial, outgoing, (a \o <<input[i]>>) \o b, toSerial, booting)
      BY <1>3, <2>1
    <2>5. AlignedAs(fromSerial, outgoing, a \o b, toSerial, booting)
      BY <1>1, <2>1, <2>2, <2>3, <2>4, AlignedTake
    <2>6. QED
      BY <2>1, <2>3, <2>5, ConcatProperties
  <1>10. CASE DeviceReports
    <2>1. /\ AlignedAs(fromSerial, outgoing, input', toSerial, booting)
          /\ input' \in Seq(Flow!Request) /\ Running /\ Prints("status", 0) /\ booting' = booting
      BY <1>9, <1>10 DEF DeviceReports, TakesRealtime
    <2> DEFINE line == [kind |-> "status", tag |-> 0]
    <2>2. fromSerial' = Append(fromSerial, line) /\ line \in Flow!Line
          /\ line \notin StartupLines /\ line \notin AnswerLines
      BY <1>4, <1>5, <1>6, <2>1
    <2> HIDE DEF line
    <2>3. AlignedAs(Append(fromSerial, line), outgoing, input', toSerial, booting)
      BY <1>1, <2>1, <2>2, AlignedOther
    <2>4. QED
      BY <2>1, <2>2, <2>3
  <1>11. CASE DeviceObeys
    <2>1. PICK i \in 1..Len(input) :
                 TakesRealtime(i) /\ booting' = (RealtimeByte(input[i].type) = ResetByte)
      BY <1>11 DEF DeviceObeys
    <2>2. input[i].type \in Realtime
      <3>1. input[i] \in CalmRequests
        BY AroundElement DEF CalmTypes
      <3>2. QED
        BY <2>1, <3>1 DEF TakesRealtime, CalmRequests
    <2>3. booting' = booting
      BY <1>1, <2>1, <2>2, DeviceAssumption DEF TakesRealtime, Running
    <2>4. fromSerial' = fromSerial
      BY <1>11 DEF DeviceObeys
    <2>5. QED
      BY <1>9, <2>1, <2>3, <2>4
  <1>12. input # <<>> => /\ Head(input) \in CalmRequests
                         /\ Head(input).tag \in Nat /\ Head(input).tag > 0
    <2>1. input # <<>> => Head(input) \in CalmRequests
      BY TailIsSeq DEF CalmTypes
    <2>2. QED
      BY <2>1, RealtimeCounts
  <1>13. CASE DeviceStartsReply
    <2> DEFINE line == [kind |-> "text", tag |-> Head(input).tag]
    <2>1. /\ Running /\ input # <<>> /\ Head(input).type \in Multiline
          /\ Prints("text", Head(input).tag) /\ booting' = booting /\ booting = FALSE
          /\ input' = input
      BY <1>1, <1>13 DEF DeviceStartsReply, Running
    <2>2. fromSerial' = Append(fromSerial, line) /\ line \in TextLines
          /\ line.tag = Head(input).tag
      BY <1>4, <1>5, <1>12, <2>1 DEF TextLines
    <2> HIDE DEF line
    <2>3. AlignedAs(fromSerial, outgoing, input, toSerial, FALSE) /\ GreedyFirstIn(outgoing)
      BY <1>3, <2>1 DEF Outstanding, GreedyFirst
    <2>4. AlignedAs(Append(fromSerial, line), outgoing, input, toSerial, FALSE)
      BY <1>1, <1>12, <2>1, <2>2, <2>3, AlignedText
    <2>5. QED
      BY <2>1, <2>2, <2>4
  <1>14. CASE DeviceReplies
    <2> DEFINE line == [kind |-> "reply", tag |-> Head(input).tag]
    <2>1. /\ Running /\ input # <<>> /\ Ordinary(Head(input))
          /\ Prints("reply", Head(input).tag) /\ booting' = booting /\ booting = FALSE
          /\ input' = Tail(input)
      BY <1>1, <1>14 DEF DeviceReplies, Running
    <2>2. fromSerial' = Append(fromSerial, line) /\ line \in ReplyLines /\ line.tag = Head(input).tag
      BY <1>4, <1>5, <1>12, <2>1 DEF ReplyLines
    <2> HIDE DEF line
    <2>3. AlignedAs(fromSerial, outgoing, input, toSerial, FALSE)
      BY <1>3, <2>1
    <2>4. AlignedAs(Append(fromSerial, line), outgoing, Tail(input), toSerial, FALSE)
      BY <1>1, <2>1, <2>2, <2>3, AlignedReply
    <2>5. QED
      BY <2>1, <2>2, <2>4
  <1>15. CASE DeviceSpeaks
    <2> DEFINE line == [kind |-> "push", tag |-> 0]
    <2>1. Running /\ Prints("push", 0) /\ input' = input /\ booting' = booting
      BY <1>15, DeviceAssumption DEF DeviceSpeaks, NoAlarms
    <2>2. fromSerial' = Append(fromSerial, line) /\ line \in Flow!Line
          /\ line \notin StartupLines /\ line \notin AnswerLines
      <3>1. "push" \in Flow!LineKinds /\ "push" \in {"status", "push"} /\ 0 \in Nat
        BY <1>5
      <3>2. fromSerial' = Append(fromSerial, line) /\ line \in Flow!Line
        BY <1>4, <2>1, <3>1
      <3>3. QED
        BY <1>6, <3>1, <3>2
    <2> HIDE DEF line
    <2>3. AlignedAs(Append(fromSerial, line), outgoing, input, toSerial, booting)
      BY <1>1, <1>3, <2>2, AlignedOther
    <2>4. QED
      BY <2>1, <2>2, <2>3
  <1>16. QED
    BY <1>7, <1>8, <1>10, <1>11, <1>13, <1>14, <1>15 DEF Device

\* Every step.
LEMMA AnswerStep ==
    ASSUME NoAlarms, Types, Loops, CalmTypes, UsbInv, AnswerInv, ~aborted, ~aborted', [Next]_vars
    PROVE  AnswerInv'
  <1>1. FirstInv' /\ EnabledFirst'
    BY FirstStep, EnabledStep DEF AnswerInv
  <1>2. Outstanding /\ FirstInv /\ EnabledFirst
    BY DEF AnswerInv, Outstanding
  <1>3. CASE \/ UNCHANGED vars
             \/ MachineReadsEvent \/ MachineReadsFlow \/ ClientSends \/ ContextReads \/ Scan \/ Plug
    <2>1. UNCHANGED <<used, outgoing, mode, crossed, fromSerial, input, toSerial, booting, port>>
      BY <1>3 DEF vars, MachineReadsEvent, MachineReadsFlow, ClientSends, ContextReads, Scan, Plug,
         flowVars, linkVars, deviceVars
    <2>2. Outstanding'
      BY <1>2, <2>1, OutstandingKept
    <2>3. QED
      BY <1>1, <2>2 DEF AnswerInv, Outstanding
  <1>4. CASE Unplug
    <2>1. UNCHANGED <<used, outgoing, mode, crossed>> /\ port' # "open"
      BY <1>4 DEF Unplug, Link!Lose, flowVars
    <2>2. QED
      BY <1>1, <1>2, <2>1 DEF AnswerInv, Outstanding, Counts, GreedyFirst, HelpMode, Aligned
  <1>5. CASE FlowReadsMachine \/ FlowReadsSerial \/ FlowSends \/ SerialReadsFlow \/ Device
    <2>1. Outstanding'
      BY <1>2, <1>5, OutstandingFlowReadsMachine, OutstandingFlowReadsSerial, OutstandingFlowSends,
         OutstandingSerial, OutstandingDevice
    <2>2. QED
      BY <1>1, <2>1 DEF AnswerInv, Outstanding
  <1>6. QED
    BY <1>3, <1>4, <1>5 DEF Next, Actors

-----------------------------------------------------------------------------
(* The theorems *)

LEMMA AnswerAlways ==
    ASSUME NoAlarms, NoSoftReset
    PROVE  Spec => [](Types /\ Loops /\ CalmTypes /\ (~aborted => UsbInv /\ AnswerInv))
  <1>1. Init => Types /\ Loops /\ CalmTypes /\ (~aborted => UsbInv /\ AnswerInv)
    BY InitTypes, CalmInit, UsbInit, AnswerInit DEF Init, Flow!Init, Loops
  <1>2. Types /\ Loops /\ CalmTypes /\ (~aborted => UsbInv /\ AnswerInv) /\ [Next]_vars
        => (Types /\ Loops /\ CalmTypes /\ (~aborted => UsbInv /\ AnswerInv))'
    <2> SUFFICES ASSUME Types, Loops, CalmTypes, ~aborted => UsbInv /\ AnswerInv, [Next]_vars
                 PROVE  Types' /\ Loops' /\ CalmTypes' /\ (~aborted' => UsbInv' /\ AnswerInv')
      OBVIOUS
    <2>1. Types' /\ Loops' /\ CalmTypes' /\ (~aborted' => UsbInv')
      BY TypesStep, LoopsStep, CalmStep, UsbStep
    <2>2. ~aborted' => ~aborted
      BY EndedIsStill DEF vars
    <2>3. ~aborted' => AnswerInv'
      BY <2>2, AnswerStep
    <2>4. QED
      BY <2>1, <2>3
  <1>3. QED
    BY <1>1, <1>2, PTL DEF Spec

\* The step that ends the process forgets nothing of the replies that went astray.
LEMMA EndKeepsCrossed ==
    ASSUME Types, Next, aborted', crossed
    PROVE  crossed'
  <1>1. CASE FlowReadsMachine
    <2>1. Head(toFlow) \in FlowMessages
      BY <1>1, TailIsSeq DEF FlowReadsMachine, Types, SocketTypes
    <2>2. Head(toFlow).kind # "USBDeviceAdded"
      BY <1>1, <2>1 DEF FlowReadsMachine, FlowHandles, Flow!Reconnect, Flow!Ready
    <2>3. QED
      BY <1>1, <2>2 DEF FlowReadsMachine
  <1>2. CASE FlowReadsSerial
    BY <1>2 DEF FlowReadsSerial
  <1>3. CASE MachineReadsEvent \/ MachineReadsFlow \/ ClientSends \/ ContextReads \/ Scan
             \/ FlowSends \/ SerialReadsFlow \/ Plug \/ Unplug
    BY <1>3 DEF MachineReadsEvent, MachineReadsFlow, ClientSends, ContextReads, Scan, FlowSends,
       SerialReadsFlow, Plug, Unplug
  <1>4. CASE Device
    BY <1>4 DEF Device, DeviceBoots, DeviceRestarts, DeviceReports, DeviceObeys,
       DeviceStartsReply, DeviceReplies, DeviceSpeaks, Prints
  <1>5. QED
    BY <1>1, <1>2, <1>3, <1>4 DEF Next, Actors

\* Where devices announce no alarm and clients send no soft reset, the requests in the
\* device's receive buffer have no more planned bytes than limit_, for every interleaving
\* of the actors, the device and its plug: what FlowControl counts covers what is written,
\* though answers, writes and startup lines are still on their way.  Only a
\* restart under outstanding requests, or a status report within a long reply, is
\* excepted until the next connection.
THEOREM BufferNeverFills ==
    ASSUME NoAlarms, NoSoftReset
    PROVE  Spec => []BufferNeverOverflows
  <1>1. ASSUME Types, UsbInv, AnswerInv PROVE BufferNeverOverflows
    <2> SUFFICES ASSUME ~crossed PROVE SumSizes[input] <= Limit
      BY DEF BufferNeverOverflows
    <2>1. CASE port # "open"
      <3>1. input = <<>>
        BY <1>1, <2>1 DEF UsbInv, Basics
      <3>2. QED
        BY <3>1, Sums, LimitAssumption
    <2>2. CASE port = "open"
      <3>1. AlignedAs(fromSerial, outgoing, input, toSerial, booting)
        BY <1>1, <2>2 DEF AnswerInv, Aligned
      <3>2. PICK before \in Seq(Flow!Line), after \in Seq(Flow!Line),
                 answered \in Seq(Flow!Request), rest \in Seq(Flow!Request) :
                   /\ outgoing = answered \o rest
                   /\ AlignedBy(before, after, answered, rest, input, toSerial, booting)
        BY <3>1 DEF AlignedAs
      <3>3. SumSizes[input] + SumSizes[Sent[toSerial]] <= SumSizes[rest]
        BY <3>2 DEF AlignedBy
      <3>4. /\ SumSizes[outgoing] = SumSizes[answered] + SumSizes[rest]
            /\ SumSizes[answered] \in Nat /\ SumSizes[rest] \in Nat
        BY <3>2, Sums
      <3>5. SumSizes[input] \in Nat /\ SumSizes[Sent[toSerial]] \in Nat
        <4>1. input \in Seq(Flow!Request) /\ Sent[toSerial] \in Seq(Flow!Request)
          BY <1>1, Gatherings DEF Gathers, Types, SocketTypes, DeviceTypes
        <4>2. QED
          BY <4>1, Sums
      <3>6. SumSizes[outgoing] <= Limit
        BY <1>1 DEF AnswerInv, Counts
      <3>7. QED
        BY <3>3, <3>4, <3>5, <3>6, LimitAssumption
    <2>3. QED
      BY <2>1, <2>2
  <1>2. Init => BufferNeverOverflows
    BY InitTypes, UsbInit, AnswerInit, <1>1
  <1>3. /\ Types /\ Types' /\ (~aborted => UsbInv /\ AnswerInv)'
        /\ BufferNeverOverflows /\ [Next]_vars
        => BufferNeverOverflows'
    <2> SUFFICES ASSUME Types, Types', (~aborted => UsbInv /\ AnswerInv)',
                        BufferNeverOverflows, [Next]_vars
                 PROVE  BufferNeverOverflows'
      OBVIOUS
    <2>1. CASE ~aborted'
      BY <1>1, <2>1, PTL
    <2>2. CASE UNCHANGED vars
      BY <2>2 DEF vars, BufferNeverOverflows
    <2>3. CASE aborted' /\ Next
      BY <2>3, EndWritesNothing, EndKeepsCrossed DEF BufferNeverOverflows, Types, DeviceTypes
    <2>4. QED
      BY <2>1, <2>2, <2>3
  <1>4. QED
    BY <1>2, <1>3, AnswerAlways, PTL DEF Spec
=============================================================================
