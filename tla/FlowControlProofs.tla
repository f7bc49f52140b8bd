-------------------------- MODULE FlowControlProofs --------------------------
(***************************************************************************)
(* Proofs about FlowControl for every limit, socket capacity, command set  *)
(* and alphabet of lines, and without the bounds of the runs.              *)
(*                                                                         *)
(* TypeOK is not inductive: that used_ stays a natural number rests on the *)
(* count (CountOK), and that the loop finds a request rests on its guard   *)
(* (LoopOK).  The three are proved together; the other invariants each add *)
(* what they need to them.                                                 *)
(***************************************************************************)
EXTENDS FlowControl, SequenceTheorems, TLAPS

-----------------------------------------------------------------------------
(* Sequences *)

\* The longer sequence keeps what it had and ends with the new element.
LEMMA AppendIsSeq ==
    ASSUME NEW S, NEW s \in Seq(S), NEW e \in S
    PROVE  /\ Append(s, e) \in Seq(S)
           /\ Append(s, e) # <<>>
           /\ Len(Append(s, e)) = Len(s) + 1
           /\ \A i \in 1..Len(s) : Append(s, e)[i] = s[i]
           /\ Append(s, e)[Len(s) + 1] = e
  OBVIOUS

\* The properties of a sequence of one element.
LEMMA SingletonIsSeq ==
    ASSUME NEW S, NEW e \in S
    PROVE  <<e>> \in Seq(S) /\ <<e>> # <<>> /\ Len(<<e>>) = 1 /\ <<e>>[1] = e
                /\ Head(<<e>>) = e
  OBVIOUS

\* The head of a sequence is its first element.
LEMMA HeadIsFirst ==
    ASSUME NEW S, NEW s \in Seq(S), s # <<>>
    PROVE  Head(s) = s[1] /\ Len(s) \in Nat \ {0}
  OBVIOUS

-----------------------------------------------------------------------------
(* Requests and messages *)

\* How the rows of the flags table exclude each other, and what they determine.
LEMMA CommandSets ==
    /\ Multiline \subseteq Greedy
    /\ Planned \cap Greedy = {}
    /\ Planned \cap Realtime = {}
    /\ Realtime \cap Greedy = {}
    /\ "GrblSoftReset" \notin Greedy \cup Realtime \cup Planned
    /\ \A type \in Commands :
           /\ type \in Greedy \cup Planned <=> Position(type) = "Back"
           /\ type = "GrblSoftReset" <=> Position(type) = "Reset"
           /\ type \in Realtime \cup {"GrblResetAlarm"} <=> Position(type) = "Front"
           /\ TextSize(type) \in 1..3
  BY DEF Multiline, Greedy, Realtime, Planned, ClearsAlarm, Commands, Position,
         TextSize

\* Only G-code can be empty.
LEMMA SizesAreNatural ==
    ASSUME NEW type \in ClientCommands, NEW size \in Sizes(type)
    PROVE  type \in Commands /\ size \in Nat /\ (type \notin Planned => size > 0)
  <1>1. type \in Commands
    BY CommandAssumption
  <1>2. TextSize(type) \in 1..3
    BY <1>1, CommandSets
  <1>3. QED
    BY <1>1, <1>2, SizeAssumption DEF Sizes

\* A request takes no negative room.
LEMMA PlannedSizeIsNatural ==
    ASSUME NEW request \in Request
    PROVE  PlannedSize(request) \in Nat
  BY DEF PlannedSize, Request

\* An answer to no request gives nothing back.
LEMMA NothingReleased == Released(NoRequest) = 0
  BY DEF Released, PlannedSize, NoRequest, Planned

-----------------------------------------------------------------------------
(* The base invariant *)

\* The loop finds a request that its guards let through.
LoopOK == sending => CanSend

\* UsedIsOutstanding, with the sums over longer suffixes no smaller: that
\* bounds them all by the first.
CountOK ==
    \E rest \in [1..(Len(outgoing) + 1) -> Nat] :
        /\ rest[1] = used
        /\ rest[Len(outgoing) + 1] = 0
        /\ \A i \in 1..Len(outgoing) :
               rest[i] = PlannedSize(outgoing[i]) + rest[i + 1]
        /\ \A i, j \in 1..(Len(outgoing) + 1) : i <= j => rest[j] <= rest[i]
        /\ used <= Limit

Base == TypeOK /\ LoopOK /\ CountOK /\ NothingHeldWhileInactive

\* The count depends on outgoing_ and used_ alone.
LEMMA CountStays == ASSUME CountOK, UNCHANGED <<outgoing, used>> PROVE CountOK'
  BY DEF CountOK

\* A reset or reconnection, which clears outgoing_ and used_, keeps the count.
LEMMA CountEmpties ==
    ASSUME outgoing' = <<>>, used' = 0
    PROVE  CountOK'
  <1> DEFINE rest == [i \in 1..1 |-> 0]
  <1>1. Len(outgoing') = 0
    OBVIOUS
  <1>2. rest \in [1..(Len(outgoing') + 1) -> Nat] /\ rest[1] = 0
    BY <1>1
  <1>3. \A i, j \in 1..(Len(outgoing') + 1) : i <= j => rest[j] <= rest[i]
    BY <1>1
  <1>4. \A i \in 1..Len(outgoing') :
            rest[i] = PlannedSize(outgoing'[i]) + rest[i + 1]
    BY <1>1
  <1>5. 0 <= Limit
    BY LimitAssumption
  <1> HIDE DEF rest
  <1>6. QED
    BY <1>1, <1>2, <1>3, <1>4, <1>5 DEF CountOK

\* A transmission keeps the count.
LEMMA CountGrows ==
    ASSUME TypeOK, CountOK, NEW head \in Request,
           PlannedSize(head) <= Limit - used,
           outgoing' = Append(outgoing, head),
           used' = used + PlannedSize(head)
    PROVE  CountOK'
  <1>1. PICK rest \in [1..(Len(outgoing) + 1) -> Nat] :
            /\ rest[1] = used
            /\ rest[Len(outgoing) + 1] = 0
            /\ \A i \in 1..Len(outgoing) :
                   rest[i] = PlannedSize(outgoing[i]) + rest[i + 1]
            /\ \A i, j \in 1..(Len(outgoing) + 1) : i <= j => rest[j] <= rest[i]
            /\ used <= Limit
    BY DEF CountOK
  <1> DEFINE n == Len(outgoing)
             size == PlannedSize(head)
             longer == [i \in 1..(n + 2) |-> IF i = n + 2 THEN 0 ELSE rest[i] + size]
  <1>2. n \in Nat /\ used \in Nat /\ size \in Nat /\ Limit \in Nat
    BY PlannedSizeIsNatural, LimitAssumption DEF TypeOK
  <1>3. /\ Len(outgoing') = n + 1
        /\ \A i \in 1..n : outgoing'[i] = outgoing[i]
        /\ outgoing'[n + 1] = head
    BY AppendIsSeq DEF TypeOK
  <1> HIDE DEF n, size
  <1>4. longer \in [1..(Len(outgoing') + 1) -> Nat]
    <2>1. \A i \in 1..(n + 1) : rest[i] + size \in Nat
      BY <1>1, <1>2 DEF n
    <2>2. QED
      BY <2>1, <1>2, <1>3
  <1>5. longer[1] = used' /\ longer[Len(outgoing') + 1] = 0
    BY <1>1, <1>2, <1>3 DEF n, size
  <1>6. \A i \in 1..Len(outgoing') :
            longer[i] = PlannedSize(outgoing'[i]) + longer[i + 1]
    <2> SUFFICES ASSUME NEW i \in 1..(n + 1)
                 PROVE  longer[i] = PlannedSize(outgoing'[i]) + longer[i + 1]
      BY <1>3
    <2>1. CASE i = n + 1
      BY <2>1, <1>1, <1>2, <1>3 DEF n, size
    <2>2. CASE i # n + 1
      <3>1. i \in 1..n /\ rest[i] \in Nat /\ rest[i + 1] \in Nat
        BY <2>2, <1>1, <1>2 DEF n
      <3>2. rest[i] = PlannedSize(outgoing[i]) + rest[i + 1]
        BY <3>1, <1>1 DEF n
      <3>3. PlannedSize(outgoing[i]) \in Nat
        BY <3>1, PlannedSizeIsNatural, ElementOfSeq DEF n, TypeOK
      <3>4. outgoing'[i] = outgoing[i]
        BY <3>1, <1>3
      <3>5. longer[i] = rest[i] + size /\ longer[i + 1] = rest[i + 1] + size
        BY <2>2, <3>1, <1>2
      <3>6. QED
        BY <3>1, <3>2, <3>3, <3>4, <3>5, <1>2
    <2>3. QED
      BY <2>1, <2>2
  <1>7. \A i, j \in 1..(Len(outgoing') + 1) : i <= j => longer[j] <= longer[i]
    <2>1. \A i, j \in 1..(n + 1) : i <= j => rest[j] <= rest[i]
      BY <1>1 DEF n
    <2>2. \A i \in 1..(n + 1) : rest[i] \in Nat
      BY <1>1 DEF n
    <2>3. QED
      BY <2>1, <2>2, <1>2, <1>3
  <1>8. used' <= Limit
    BY <1>2 DEF size
  <1>9. QED
    BY <1>4, <1>5, <1>6, <1>7, <1>8 DEF CountOK

\* An answer keeps the count, and `used_ -= size' does not wrap.
LEMMA CountShrinks ==
    ASSUME TypeOK, CountOK, outgoing # <<>>,
           outgoing' = Tail(outgoing),
           used' = used - Released(Head(outgoing))
    PROVE  CountOK' /\ used' \in Nat
  <1>1. PICK rest \in [1..(Len(outgoing) + 1) -> Nat] :
            /\ rest[1] = used
            /\ rest[Len(outgoing) + 1] = 0
            /\ \A i \in 1..Len(outgoing) :
                   rest[i] = PlannedSize(outgoing[i]) + rest[i + 1]
            /\ \A i, j \in 1..(Len(outgoing) + 1) : i <= j => rest[j] <= rest[i]
            /\ used <= Limit
    BY DEF CountOK
  <1> DEFINE n == Len(outgoing)
             shorter == [i \in 1..n |-> rest[i + 1]]
  <1>2. n \in Nat \ {0} /\ used \in Nat /\ Limit \in Nat
    BY HeadIsFirst, LimitAssumption DEF TypeOK
  <1>3. /\ Len(outgoing') = n - 1
        /\ \A i \in 1..(n - 1) : outgoing'[i] = outgoing[i + 1]
    BY HeadTailProperties DEF TypeOK
  <1>4. PlannedSize(Head(outgoing)) \in Nat /\ Head(outgoing) = outgoing[1]
    BY HeadTailProperties, HeadIsFirst, PlannedSizeIsNatural DEF TypeOK
  <1>5. used' = rest[2] /\ rest[2] \in Nat
    <2>1. rest[1] = PlannedSize(Head(outgoing)) + rest[1 + 1] /\ rest[1 + 1] \in Nat
      BY <1>1, <1>2, <1>4
    <2>2. QED
      BY <1>1, <1>2, <1>4, <2>1 DEF Released
  <1>6. shorter \in [1..(Len(outgoing') + 1) -> Nat]
    BY <1>1, <1>2, <1>3
  <1>7. shorter[1] = used' /\ shorter[Len(outgoing') + 1] = 0
    BY <1>1, <1>2, <1>3, <1>5
  <1>8. \A i \in 1..Len(outgoing') :
            shorter[i] = PlannedSize(outgoing'[i]) + shorter[i + 1]
    BY <1>1, <1>2, <1>3
  <1>9. \A i, j \in 1..(Len(outgoing') + 1) : i <= j => shorter[j] <= shorter[i]
    <2> SUFFICES ASSUME NEW i \in 1..n, NEW j \in 1..n, i <= j
                 PROVE  rest[j + 1] <= rest[i + 1]
      BY <1>2, <1>3
    <2>1. i + 1 \in 1..(n + 1) /\ j + 1 \in 1..(n + 1) /\ i + 1 <= j + 1
      BY <1>2
    <2>2. QED
      BY <2>1, <1>1
  <1>10. used' <= Limit
    BY <1>1, <1>2, <1>5
  <1>11. QED
    BY <1>5, <1>6, <1>7, <1>8, <1>9, <1>10 DEF CountOK

-----------------------------------------------------------------------------
(* Every action preserves the base invariant *)

\* What is made of a line of the device is of its type.
LEMMA LineTypes ==
    ASSUME TypeOK, NEW line \in Lines
    PROVE  /\ line \in Line
           /\ Buffered(line) \in Seq(Line)
           /\ InitGrbl(line) \in ParentMessages
           /\ GrblPush(line) \in ParentMessages
  <1>1. line \in Line
    BY LineAssumption DEF Line
  <1>2. <<line>> \in Seq(Line) /\ Append(buffer, line) \in Seq(Line)
    BY <1>1 DEF TypeOK
  <1>3. Version(line) \in Nat \X Nat
    BY DEF Version
  <1>4. QED
    BY <1>1, <1>2, <1>3 DEF Buffered, InitGrbl, GrblPush, ParentMessages

\* An answer is a message to the parent.
LEMMA ResponseType ==
    ASSUME NEW request \in Request \cup {NoRequest}, NEW lines \in Seq(Line)
    PROVE  Response(request, lines) \in ParentMessages
  BY DEF Response, ParentMessages, Request, NoRequest

\* A transmission is a message to the serial connection.
LEMMA DataType == ASSUME NEW request \in Request PROVE Data(request) \in SerialMessages
  BY DEF Data, SerialMessages

\* So is a USB event.
LEMMA EventType == ASSUME NEW event \in UsbEvents PROVE UsbEvent(event) \in SerialMessages
  BY DEF UsbEvent, SerialMessages

\* The guards of the loop have a truth value in every state.
LEMMA CanSendIsBoolean == CanSend' \in BOOLEAN
  BY DEF CanSend

\* Requests are sent from the queue only while flow control is on.
LEMMA LoopIsActive == ASSUME Base, sending PROVE active
  BY DEF Base, NothingHeldWhileInactive

\* What the guards say of the request the loop is about to send.
LEMMA LoopHead ==
    ASSUME Base, sending
    PROVE  /\ incoming # <<>>
           /\ Head(incoming) \in Request
           /\ Tail(incoming) \in Seq(Request)
           /\ PlannedSize(Head(incoming)) <= Limit - used
           /\ Head(incoming).type \in Greedy => outgoing = <<>>
           /\ Head(incoming).type \in Realtime => realtime = NoRequest
  <1>1. CanSend
    BY DEF Base, LoopOK
  <1>2. QED
    BY <1>1, HeadTailProperties DEF CanSend, Base, TypeOK

\* One iteration of run(): what is sent is counted and becomes outstanding.
LEMMA SendRequestKeepsBase == ASSUME Base, SendRequest PROVE Base'
  <1> DEFINE head == Head(incoming)
  <1>1. /\ sending /\ incoming # <<>> /\ head \in Request
        /\ Tail(incoming) \in Seq(Request)
        /\ PlannedSize(head) \in Nat /\ PlannedSize(head) <= Limit - used
    BY LoopHead, PlannedSizeIsNatural DEF SendRequest
  <1>2. /\ toSerial' = Append(toSerial, Data(head))
        /\ used' = used + PlannedSize(head)
        /\ incoming' = Tail(incoming)
        /\ sending' = CanSend'
        /\ \/ realtime' = head /\ outgoing' = outgoing /\ head.type \in Realtime
           \/ realtime' = realtime /\ outgoing' = Append(outgoing, head)
        /\ mode' \in {mode, "Help"}
        /\ UNCHANGED <<active, alarm, buffer, received, toParent, aborted>>
    BY DEF SendRequest
  <1>3. CountOK'
    <2>1. CASE realtime' = head /\ outgoing' = outgoing /\ head.type \in Realtime
      <3>1. PlannedSize(head) = 0
        BY <2>1, CommandSets DEF PlannedSize
      <3>2. used' = used
        BY <1>2, <3>1 DEF Base, TypeOK
      <3>3. QED
        BY <2>1, <3>2, CountStays DEF Base
    <2>2. CASE realtime' = realtime /\ outgoing' = Append(outgoing, head)
      BY <1>1, <1>2, <2>2, CountGrows DEF Base
    <2>3. QED
      BY <1>2, <2>1, <2>2
  <1>4. TypeOK'
    <2>1. incoming' \in Seq(Request) /\ outgoing' \in Seq(Request)
      <3>1. outgoing \in Seq(Request) /\ Append(outgoing, head) \in Seq(Request)
        BY <1>1, AppendIsSeq DEF Base, TypeOK
      <3>2. QED
        BY <1>1, <1>2, <3>1
    <2>2. toSerial' \in Seq(SerialMessages)
      BY <1>1, <1>2, DataType, AppendIsSeq DEF Base, TypeOK
    <2>3. realtime' \in Request \cup {NoRequest}
      BY <1>1, <1>2 DEF Base, TypeOK
    <2>4. used' \in Nat
      BY <1>1, <1>2 DEF Base, TypeOK
    <2>5. sending' \in BOOLEAN
      <3>1. sending' = CanSend'
        BY <1>2
      <3>2. QED
        BY <3>1, CanSendIsBoolean
    <2>6. QED
      BY <1>2, <2>1, <2>2, <2>3, <2>4, <2>5 DEF Base, TypeOK
  <1>5. LoopOK' /\ NothingHeldWhileInactive'
    BY <1>1, <1>2, LoopIsActive DEF LoopOK, NothingHeldWhileInactive
  <1>6. QED
    BY <1>3, <1>4, <1>5 DEF Base

\* A soft reset leaves nothing queued, outstanding or counted.
LEMMA SendResetKeepsBase == ASSUME Base, SendReset PROVE Base'
  <1>1. Head(incoming) \in Request
    BY LoopHead DEF SendReset
  <1>2. toSerial' \in Seq(SerialMessages)
    BY <1>1, DataType, AppendIsSeq DEF SendReset, Base, TypeOK
  <1>3. TypeOK'
    BY <1>2, EmptySeq DEF SendReset, Base, TypeOK, classifier
  <1>4. CountOK'
    BY CountEmpties DEF SendReset
  <1>5. QED
    BY <1>3, <1>4 DEF SendReset, Base, LoopOK, NothingHeldWhileInactive

\* An action that leaves requests and the count alone and starts no loop.
LEMMA QuietKeepsBase ==
    ASSUME Base, UNCHANGED <<active, queues, sending>>, TypeOK'
    PROVE  Base'
  <1>1. CountOK'
    BY CountStays DEF Base, queues
  <1>2. QED
    BY <1>1 DEF Base, LoopOK, CanSend, NothingHeldWhileInactive, queues

\* A command refused in alarm changes nothing that is counted.
LEMMA RefuseKeepsBase ==
    ASSUME Base, NEW type \in Commands, Refuse(type)
    PROVE  Base'
  <1>1. TypeOK'
    BY DEF Refuse, Arrive, Base, TypeOK, queues, classifier, sockets
  <1>2. QED
    BY <1>1, QuietKeepsBase DEF Refuse

\* Nor does one sent while flow control is off.
LEMMA PassThroughKeepsBase ==
    ASSUME Base, NEW type \in Commands, NEW size \in Nat, PassThrough(type, size)
    PROVE  Base'
  <1>1. Arriving(type, size) \in Request
    BY DEF Arriving, Request, Base, TypeOK
  <1>2. toSerial' \in Seq(SerialMessages)
    BY <1>1, DataType, AppendIsSeq DEF PassThrough, Base, TypeOK
  <1>3. TypeOK'
    BY <1>2 DEF PassThrough, Arrive, Base, TypeOK, queues, classifier, sockets
  <1>4. QED
    BY <1>3, QuietKeepsBase DEF PassThrough

\* Nor does one that ends the process.
LEMMA AssertionFailsKeepsBase ==
    ASSUME Base, NEW type \in Commands, NEW size \in Nat, AssertionFails(type, size)
    PROVE  Base'
  <1>1. TypeOK'
    BY DEF AssertionFails, Arrive, Base, TypeOK, queues, classifier, sockets
  <1>2. QED
    BY <1>1, QuietKeepsBase DEF AssertionFails

\* The queue with the new request in its place.
LEMMA PlacedType ==
    ASSUME TypeOK, NEW type \in Commands, NEW entry \in Seq(Request)
    PROVE  Placed(type, entry) \in Seq(Request)
  <1>1. entry \o incoming \in Seq(Request) /\ incoming \o entry \in Seq(Request)
    BY ConcatProperties DEF TypeOK
  <1>2. Position(type) \in {"Reset", "Front", "Back"}
    BY DEF Position
  <1>3. QED
    BY <1>1, <1>2 DEF Placed

\* What queue() inserts is no request or one.
LEMMA EntryType ==
    ASSUME TypeOK, NEW type \in Commands, NEW size \in Nat
    PROVE  (IF size > 0 THEN <<Arriving(type, size)>> ELSE <<>>) \in Seq(Request)
  <1>1. Arriving(type, size) \in Request
    BY DEF Arriving, Request, TypeOK
  <1>2. QED
    BY <1>1, SingletonIsSeq, EmptySeq

\* queue() and the start of run() keep the base invariant.
LEMMA EnqueueKeepsBase ==
    ASSUME Base, NEW type \in Commands, NEW size \in Nat, Enqueue(type, size)
    PROVE  Base'
  <1>1. incoming' \in Seq(Request)
    BY EntryType, PlacedType DEF Enqueue, Base
  <1>2. sending' \in BOOLEAN /\ (sending' => CanSend')
    BY CanSendIsBoolean DEF Enqueue, Run
  <1>3. TypeOK'
    BY <1>1, <1>2 DEF Enqueue, Arrive, Base, TypeOK, classifier, sockets
  <1>4. CountOK'
    BY CountStays DEF Enqueue, Base
  <1>5. QED
    BY <1>2, <1>3, <1>4
       DEF Enqueue, Queues, Base, LoopOK, NothingHeldWhileInactive

\* So does a USB event.
LEMMA ReconnectKeepsBase ==
    ASSUME Base, NEW event \in UsbEvents, Reconnect(event)
    PROVE  Base'
  <1>1. toSerial' \in Seq(SerialMessages)
    BY EventType, AppendIsSeq DEF Reconnect, Base, TypeOK
  <1>2. \/ incoming' = <<>> /\ outgoing' = <<>> /\ used' = 0
        \/ incoming' = incoming /\ outgoing' = outgoing /\ used' = used
    BY DEF Reconnect
  <1>3. TypeOK'
    <2>1. incoming' \in Seq(Request) /\ outgoing' \in Seq(Request) /\ used' \in Nat
      <3>1. incoming \in Seq(Request) /\ outgoing \in Seq(Request) /\ used \in Nat
        BY DEF Base, TypeOK
      <3>2. <<>> \in Seq(Request)
        BY EmptySeq
      <3>3. CASE incoming' = <<>> /\ outgoing' = <<>> /\ used' = 0
        BY <3>2, <3>3
      <3>4. CASE incoming' = incoming /\ outgoing' = outgoing /\ used' = used
        BY <3>1, <3>4
      <3>5. QED
        BY <1>2, <3>3, <3>4
    <2>2. QED
      BY <1>1, <2>1 DEF Reconnect, Base, TypeOK, classifier
  <1>4. CountOK'
    BY <1>2, CountEmpties, CountStays DEF Base
  <1>5. QED
    BY <1>3, <1>4
       DEF Reconnect, Ready, Base, LoopOK, NothingHeldWhileInactive

\* So does a line that ends a reply, and the run() that follows it.
LEMMA ReceiveReplyKeepsBase ==
    ASSUME Base, NEW line \in Lines, ReceiveReply(line)
    PROVE  Base'
  <1> DEFINE answered == IF outgoing = <<>> THEN NoRequest ELSE Head(outgoing)
  <1>1. answered \in Request \cup {NoRequest}
    BY HeadTailProperties DEF Base, TypeOK
  <1>2. toParent' \in Seq(ParentMessages)
    <2>1. Response(answered, Buffered(line)) \in ParentMessages
      BY <1>1, LineTypes, ResponseType DEF Base
    <2>2. toParent' = Append(toParent, Response(answered, Buffered(line)))
      BY DEF ReceiveReply
    <2>3. QED
      BY <2>1, <2>2, AppendIsSeq DEF Base, TypeOK
  <1>3. CountOK' /\ used' \in Nat
    <2>1. CASE outgoing = <<>>
      <3>1. outgoing' = outgoing /\ used' = used
        BY <2>1, NothingReleased DEF ReceiveReply, Base, TypeOK
      <3>2. QED
        BY <3>1, CountStays DEF Base, TypeOK
    <2>2. CASE outgoing # <<>>
      <3>1. outgoing' = Tail(outgoing) /\ used' = used - Released(Head(outgoing))
        BY <2>2 DEF ReceiveReply
      <3>2. QED
        BY <2>2, <3>1, CountShrinks DEF Base
    <2>3. QED
      BY <2>1, <2>2
  <1>4. outgoing' \in Seq(Request)
    BY HeadTailProperties, EmptySeq DEF ReceiveReply, Base, TypeOK
  <1>5. sending' \in BOOLEAN /\ (sending' => CanSend')
    BY CanSendIsBoolean DEF ReceiveReply, Run
  <1>6. TypeOK'
    BY <1>2, <1>3, <1>4, <1>5, EmptySeq DEF ReceiveReply, Base, TypeOK
  <1>7. NothingHeldWhileInactive'
    <2> SUFFICES ASSUME ~active
                 PROVE  /\ incoming' = <<>> /\ outgoing' = <<>>
                        /\ realtime' = NoRequest /\ used' = 0 /\ ~sending'
      BY DEF NothingHeldWhileInactive, ReceiveReply
    <2>1. incoming' = <<>> /\ outgoing = <<>> /\ realtime' = NoRequest /\ used = 0
      BY DEF Base, NothingHeldWhileInactive, ReceiveReply
    <2>2. outgoing' = <<>> /\ used' = 0
      BY <2>1, NothingReleased DEF ReceiveReply
    <2>3. ~sending'
      BY <2>1, <1>5 DEF CanSend
    <2>4. QED
      BY <2>1, <2>2, <2>3
  <1>8. QED
    BY <1>3, <1>5, <1>6, <1>7 DEF Base, LoopOK

\* So does any line of the device.
LEMMA ReceiveKeepsBase ==
    ASSUME Base, NEW line \in Lines, ReceiveData(line)
    PROVE  Base'
  <1>1. /\ Buffered(line) \in Seq(Line) /\ <<>> \in Seq(Line)
        /\ Append(toParent, InitGrbl(line)) \in Seq(ParentMessages)
        /\ Append(toParent, GrblPush(line)) \in Seq(ParentMessages)
    BY LineTypes, AppendIsSeq, EmptySeq DEF Base, TypeOK
  <1>2. CASE ReceiveEmpty(line)
    <2>1. TypeOK'
      BY <1>1, <1>2 DEF ReceiveEmpty, Base, TypeOK, queues, sockets
    <2>2. QED
      BY <2>1, <1>2, QuietKeepsBase DEF ReceiveEmpty
  <1>3. CASE ReceiveStartup(line)
    <2>1. TypeOK'
      BY <1>1, <1>3 DEF ReceiveStartup, Base, TypeOK, queues
    <2>2. QED
      BY <2>1, <1>3, QuietKeepsBase DEF ReceiveStartup
  <1>4. CASE ReceivePush(line)
    <2>1. TypeOK'
      BY <1>1, <1>4 DEF ReceivePush, Base, TypeOK, queues
    <2>2. QED
      BY <2>1, <1>4, QuietKeepsBase DEF ReceivePush
  <1>5. CASE ReceiveMultiline(line)
    <2>1. TypeOK'
      BY <1>1, <1>5 DEF ReceiveMultiline, Base, TypeOK, queues, sockets
    <2>2. QED
      BY <2>1, <1>5, QuietKeepsBase DEF ReceiveMultiline
  <1>6. CASE ReceiveAlarm(line)
    <2>1. TypeOK'
      BY <1>1, <1>6 DEF ReceiveAlarm, Base, TypeOK, queues, sockets
    <2>2. QED
      BY <2>1, <1>6, QuietKeepsBase DEF ReceiveAlarm
  <1>7. CASE ReceiveReply(line)
    BY <1>7, ReceiveReplyKeepsBase
  <1>8. QED
    BY <1>2, <1>3, <1>4, <1>5, <1>6, <1>7 DEF ReceiveData

\* The base invariant does not depend on the readers of the sockets.
LEMMA ReadersKeepBase == ASSUME Base, ParentReads \/ SerialReads PROVE Base'
  <1>1. CASE ParentReads
    <2>1. Tail(toParent) \in Seq(ParentMessages)
      BY <1>1, HeadTailProperties DEF ParentReads, Base, TypeOK
    <2>2. TypeOK'
      BY <1>1, <2>1 DEF ParentReads, Base, TypeOK, queues, classifier
    <2>3. QED
      BY <1>1, <2>2, QuietKeepsBase DEF ParentReads
  <1>2. CASE SerialReads
    <2>1. Tail(toSerial) \in Seq(SerialMessages)
      BY <1>2, HeadTailProperties DEF SerialReads, Base, TypeOK
    <2>2. TypeOK'
      BY <1>2, <2>1 DEF SerialReads, Base, TypeOK, queues, classifier
    <2>3. QED
      BY <1>2, <2>2, QuietKeepsBase DEF SerialReads
  <1>3. QED
    BY <1>1, <1>2

\* Flow control starts with everything empty.
LEMMA EnableKeepsBase == ASSUME Base, EnableFlowControl PROVE Base'
  <1>1. TypeOK'
    BY DEF EnableFlowControl, Base, TypeOK, queues, classifier, sockets
  <1>2. CountOK'
    BY CountStays DEF EnableFlowControl, Base, queues
  <1>3. QED
    BY <1>1, <1>2
       DEF EnableFlowControl, Base, LoopOK, CanSend, NothingHeldWhileInactive, queues

\* The constructor establishes the base invariant.
LEMMA InitBase == Init => Base
  <1> SUFFICES ASSUME Init PROVE Base
    OBVIOUS
  <1>1. TypeOK
    BY EmptySeq DEF Init, TypeOK
  <1>2. CountOK
    <2> DEFINE rest == [i \in 1..1 |-> 0]
    <2>1. Len(outgoing) = 0
      BY DEF Init
    <2>2. /\ rest \in [1..(Len(outgoing) + 1) -> Nat]
          /\ rest[1] = used /\ rest[Len(outgoing) + 1] = 0
          /\ \A i \in 1..Len(outgoing) :
                 rest[i] = PlannedSize(outgoing[i]) + rest[i + 1]
          /\ \A i, j \in 1..(Len(outgoing) + 1) : i <= j => rest[j] <= rest[i]
          /\ used <= Limit
      BY <2>1, LimitAssumption DEF Init
    <2> HIDE DEF rest
    <2>3. QED
      BY <2>2 DEF CountOK
  <1>3. QED
    BY <1>1, <1>2 DEF Init, Base, LoopOK, NothingHeldWhileInactive

\* Every step keeps the base invariant.
LEMMA NextKeepsBase == Base /\ [Next]_vars => Base'
  <1> SUFFICES ASSUME Base, [Next]_vars PROVE Base'
    OBVIOUS
  <1>1. CASE Loop
    BY <1>1, SendRequestKeepsBase, SendResetKeepsBase DEF Loop
  <1>2. CASE ClientCommand
    <2>1. PICK type \in ClientCommands :
              \E size \in Sizes(type) : SendMessage(type, size)
      BY <1>2 DEF ClientCommand
    <2>2. PICK size \in Sizes(type) : SendMessage(type, size)
      BY <2>1
    <2>3. type \in Commands /\ size \in Nat
      BY SizesAreNatural
    <2>4. QED
      BY <2>2, <2>3, RefuseKeepsBase, PassThroughKeepsBase,
         AssertionFailsKeepsBase, EnqueueKeepsBase DEF SendMessage
  <1>3. CASE DeviceLine
    BY <1>3, ReceiveKeepsBase DEF DeviceLine
  <1>4. CASE EnableFlowControl
    BY <1>4, EnableKeepsBase
  <1>5. CASE \E event \in UsbEvents : Reconnect(event)
    BY <1>5, ReconnectKeepsBase
  <1>6. CASE ParentReads \/ SerialReads
    BY <1>6, ReadersKeepBase
  <1>7. CASE UNCHANGED vars
    <2>1. TypeOK'
      BY <1>7 DEF vars, Base, TypeOK, queues, classifier, sockets
    <2>2. QED
      BY <1>7, <2>1, QuietKeepsBase DEF vars
  <1>8. QED
    BY <1>1, <1>2, <1>3, <1>4, <1>5, <1>6, <1>7 DEF Next

\* The invariant all the others rest on: types, what the loop relies on, the
\* count, and emptiness while flow control is off.
THEOREM BaseInvariant == Spec => []Base
  <1>1. QED
    BY InitBase, NextKeepsBase, PTL DEF Spec

\* The members of FlowControl hold values of their types: in particular
\* used_, a size_t, never wraps when an answer gives its bytes back.
THEOREM TypeCorrect == Spec => []TypeOK
  <1>1. Base => TypeOK
    BY DEF Base
  <1>2. QED
    BY <1>1, BaseInvariant, PTL

\* used_ is the sum of the planned requests in outgoing_, within limit_.
THEOREM CharacterCounting == Spec => []UsedIsOutstanding
  <1>1. Base => UsedIsOutstanding
    <2> SUFFICES ASSUME Base PROVE UsedIsOutstanding
      OBVIOUS
    <2>1. PICK rest \in [1..(Len(outgoing) + 1) -> Nat] :
              /\ rest[1] = used
              /\ rest[Len(outgoing) + 1] = 0
              /\ \A i \in 1..Len(outgoing) :
                     rest[i] = PlannedSize(outgoing[i]) + rest[i + 1]
              /\ \A i, j \in 1..(Len(outgoing) + 1) : i <= j => rest[j] <= rest[i]
              /\ used <= Limit
      BY DEF Base, CountOK
    <2>2. Len(outgoing) \in Nat
      BY LenProperties DEF Base, TypeOK
    <2>3. \A i \in 1..(Len(outgoing) + 1) : rest[i] <= Limit
      <3> SUFFICES ASSUME NEW i \in 1..(Len(outgoing) + 1) PROVE rest[i] <= Limit
        OBVIOUS
      <3>1. 1 \in 1..(Len(outgoing) + 1) /\ 1 <= i
        BY <2>2
      <3>2. rest[i] <= rest[1] /\ rest[i] \in Nat /\ rest[1] \in Nat
        BY <2>1, <3>1
      <3>3. QED
        BY <2>1, <3>2, LimitAssumption
    <2>4. rest \in [1..(Len(outgoing) + 1) -> 0..Limit]
      BY <2>1, <2>3, LimitAssumption
    <2>5. QED
      BY <2>1, <2>4 DEF UsedIsOutstanding
  <1>2. QED
    BY <1>1, BaseInvariant, PTL

\* With flow control off, nothing is queued, outstanding or counted.
THEOREM InactiveIsEmpty == Spec => []NothingHeldWhileInactive
  <1>1. Base => NothingHeldWhileInactive
    BY DEF Base
  <1>2. QED
    BY <1>1, BaseInvariant, PTL

-----------------------------------------------------------------------------
(* Order among the outstanding requests *)

\* How a step may change outgoing_: nothing, the oldest answered, the next one
\* sent, or all dropped.
OutgoingStep ==
    \/ outgoing' = outgoing
    \/ outgoing' = <<>>
    \/ outgoing # <<>> /\ outgoing' = Tail(outgoing)
    \/ /\ outgoing' = Append(outgoing, Head(incoming))
       /\ Head(incoming) \in Request
       /\ Head(incoming).type \in Greedy => outgoing = <<>>

\* outgoing_ stays, loses its oldest, is emptied, or grows as the guards allow.
LEMMA OutgoingSteps == Base /\ [Next]_vars => OutgoingStep
  <1> SUFFICES ASSUME Base, [Next]_vars PROVE OutgoingStep
    OBVIOUS
  <1>1. CASE SendRequest
    BY <1>1, LoopHead DEF SendRequest, OutgoingStep
  <1>2. CASE SendReset
    BY <1>2 DEF SendReset, OutgoingStep
  <1>3. CASE ClientCommand
    BY <1>3 DEF ClientCommand, SendMessage, Refuse, PassThrough, AssertionFails,
                Enqueue, queues, OutgoingStep
  <1>4. CASE DeviceLine
    BY <1>4 DEF DeviceLine, ReceiveData, ReceiveEmpty, ReceiveStartup, ReceivePush,
                ReceiveMultiline, ReceiveAlarm, ReceiveReply, queues, OutgoingStep
  <1>5. CASE EnableFlowControl
    BY <1>5 DEF EnableFlowControl, queues, OutgoingStep
  <1>6. CASE \E event \in UsbEvents : Reconnect(event)
    BY <1>6 DEF Reconnect, OutgoingStep
  <1>7. CASE ParentReads \/ SerialReads
    BY <1>7 DEF ParentReads, SerialReads, queues, OutgoingStep
  <1>8. CASE UNCHANGED vars
    BY <1>8 DEF vars, queues, OutgoingStep
  <1>9. QED
    BY <1>1, <1>2, <1>3, <1>4, <1>5, <1>6, <1>7, <1>8 DEF Next, Loop

\* A request that must find the device idle has no older one before it.
THEOREM GreedyRunsAlone == Spec => []GreedyIsOldest
  <1>1. Init => GreedyIsOldest
    BY DEF Init, GreedyIsOldest
  <1>2. Base /\ GreedyIsOldest /\ [Next]_vars => GreedyIsOldest'
    <2> SUFFICES ASSUME Base, GreedyIsOldest, [Next]_vars,
                        NEW i \in 2..Len(outgoing')
                 PROVE  outgoing'[i].type \notin Greedy
      BY DEF GreedyIsOldest
    <2>1. Len(outgoing) \in Nat /\ outgoing \in Seq(Request)
      BY LenProperties DEF Base, TypeOK
    <2>2. CASE outgoing' = outgoing \/ outgoing' = <<>>
      BY <2>2 DEF GreedyIsOldest
    <2>3. CASE outgoing # <<>> /\ outgoing' = Tail(outgoing)
      BY <2>1, <2>3, HeadTailProperties DEF GreedyIsOldest
    <2>4. CASE /\ outgoing' = Append(outgoing, Head(incoming))
               /\ Head(incoming) \in Request
               /\ Head(incoming).type \in Greedy => outgoing = <<>>
      BY <2>1, <2>4, AppendIsSeq DEF GreedyIsOldest
    <2>5. QED
      BY <2>2, <2>3, <2>4, OutgoingSteps DEF OutgoingStep
  <1>3. QED
    BY <1>1, <1>2, BaseInvariant, PTL DEF Spec

-----------------------------------------------------------------------------
(* The alarm and the waiting requests *)

\* A request that could be sent starts to wait only when a startup line ends
\* an alarm: every other handler that frees it also runs the queue.
THEOREM WaitingStartsAtAlarmEnd == Spec => StallOnlyAfterAlarm
  <1>1. [Next]_vars => [NoneWaits /\ ~NoneWaits' => alarm /\ ~alarm']_vars
    <2> SUFFICES ASSUME Next, NoneWaits, ~NoneWaits' PROVE alarm /\ ~alarm'
      BY DEF vars, queues, classifier, sockets, NoneWaits, Ready, CanSend
    <2>1. Ready' /\ ~alarm' /\ CanSend' /\ (Ready /\ ~alarm => ~CanSend)
      BY DEF NoneWaits
    <2>2. CASE SendRequest
      BY <2>1, <2>2 DEF SendRequest, Ready
    <2>3. CASE SendReset
      BY <2>1, <2>3 DEF SendReset, CanSend
    <2>4. CASE ClientCommand
      <3>1. PICK type, size : SendMessage(type, size)
        BY <2>4 DEF ClientCommand
      <3>2. CASE Refuse(type)
        BY <2>1, <3>2 DEF Refuse, Ready, queues, CanSend
      <3>3. CASE PassThrough(type, size)
        BY <2>1, <3>3 DEF PassThrough, Accepts, Ready, queues, CanSend
      <3>4. CASE AssertionFails(type, size)
        BY <2>1, <3>4 DEF AssertionFails, Ready
      <3>5. CASE Enqueue(type, size)
        BY <2>1, <3>5 DEF Enqueue, Run, Ready
      <3>6. QED
        BY <3>1, <3>2, <3>3, <3>4, <3>5 DEF SendMessage
    <2>5. CASE DeviceLine
      <3>1. PICK line \in Lines : ReceiveData(line)
        BY <2>5 DEF DeviceLine
      <3>2. CASE ReceiveEmpty(line) \/ ReceivePush(line) \/ ReceiveMultiline(line)
        BY <2>1, <3>2 DEF ReceiveEmpty, ReceivePush, ReceiveMultiline, Ready,
                          queues, CanSend
      <3>3. CASE ReceiveStartup(line)
        BY <2>1, <3>3 DEF ReceiveStartup, Ready, queues, CanSend
      <3>4. CASE ReceiveAlarm(line)
        BY <2>1, <3>4 DEF ReceiveAlarm
      <3>5. CASE ReceiveReply(line)
        BY <2>1, <3>5 DEF ReceiveReply, Run, Ready
      <3>6. QED
        BY <3>1, <3>2, <3>3, <3>4, <3>5 DEF ReceiveData
    <2>6. CASE EnableFlowControl
      BY <2>1, <2>6 DEF EnableFlowControl, Ready, queues, CanSend
    <2>7. CASE \E event \in UsbEvents : Reconnect(event)
      BY <2>1, <2>7 DEF Reconnect, Ready, CanSend
    <2>8. CASE ParentReads \/ SerialReads
      BY <2>1, <2>8 DEF ParentReads, SerialReads, Ready, queues, CanSend
    <2>9. QED
      BY <2>2, <2>3, <2>4, <2>5, <2>6, <2>7, <2>8 DEF Next, Loop
  <1>2. QED
    BY <1>1, PTL DEF Spec, StallOnlyAfterAlarm

\* In alarm the loop sends an unlocking command first.
THEOREM AlarmHolds == Spec => []AlarmHoldsQueue
  <1>1. Init => AlarmHoldsQueue
    BY DEF Init, AlarmHoldsQueue
  <1>2. Base /\ AlarmHoldsQueue /\ [Next]_vars => AlarmHoldsQueue'
    <2> SUFFICES ASSUME Base, AlarmHoldsQueue, [Next]_vars, alarm', sending'
                 PROVE  \/ Head(incoming').type \in ClearsAlarm
                        \/ \E i \in 1..Len(outgoing') :
                               outgoing'[i].type = "GrblResetAlarm"
      BY DEF AlarmHoldsQueue
    <2>1. outgoing \in Seq(Request) /\ Len(outgoing) \in Nat
      BY LenProperties DEF Base, TypeOK
    <2>2. CASE SendRequest
      <3> DEFINE head == Head(incoming)
      <3>1. alarm /\ sending /\ head \in Request
        BY <2>2, LoopHead DEF SendRequest
      <3>2. CASE head.type \in ClearsAlarm
        <4>1. head.type = "GrblResetAlarm" /\ head.type \notin Realtime
          BY <2>2, <3>2 DEF SendRequest, ClearsAlarm, Position, Realtime
        <4>2. outgoing' = Append(outgoing, head)
          BY <2>2, <4>1 DEF SendRequest
        <4>3. QED
          BY <2>1, <3>1, <4>1, <4>2, AppendIsSeq
      <3>3. CASE \E i \in 1..Len(outgoing) : outgoing[i].type = "GrblResetAlarm"
        <4>1. outgoing' = outgoing \/ outgoing' = Append(outgoing, head)
          BY <2>2 DEF SendRequest
        <4>2. QED
          BY <2>1, <3>1, <3>3, <4>1, AppendIsSeq
      <3>4. QED
        BY <3>1, <3>2, <3>3 DEF AlarmHoldsQueue
    <2>3. CASE SendReset
      BY <2>3 DEF SendReset
    <2>4. CASE ClientCommand
      <3>1. PICK type \in ClientCommands :
                \E size \in Sizes(type) : SendMessage(type, size)
        BY <2>4 DEF ClientCommand
      <3>2. PICK size \in Sizes(type) : SendMessage(type, size)
        BY <3>1
      <3>3. Enqueue(type, size) /\ type \in ClearsAlarm
        BY <3>2 DEF SendMessage, Refuse, PassThrough, AssertionFails, Enqueue,
                    Queues, Accepts, Ready, Run
      <3>4. size > 0 /\ Position(type) \in {"Reset", "Front"}
        BY <3>3, SizesAreNatural DEF ClearsAlarm, Planned, Position
      <3> DEFINE entry == <<Arriving(type, size)>>
      <3>5. incoming' = entry \/ incoming' = entry \o incoming
        BY <3>3, <3>4 DEF Enqueue, Placed
      <3>6. Arriving(type, size) \in Request /\ Arriving(type, size).type = type
        BY SizesAreNatural DEF Arriving, Request, Base, TypeOK
      <3>7. Head(incoming') = Arriving(type, size)
        <4>1. /\ entry \in Seq(Request) /\ Len(entry) = 1
              /\ entry[1] = Arriving(type, size) /\ entry # <<>>
          BY <3>6, SingletonIsSeq
        <4>2. /\ entry \o incoming \in Seq(Request)
              /\ Len(entry \o incoming) \in Nat \ {0}
              /\ (entry \o incoming)[1] = entry[1]
          BY <4>1, ConcatProperties, LenProperties DEF Base, TypeOK
        <4>3. entry \o incoming # <<>>
          BY <4>2
        <4> HIDE DEF entry
        <4>4. QED
          BY <3>5, <4>1, <4>2, <4>3, HeadIsFirst
      <3>8. QED
        BY <3>3, <3>6, <3>7
    <2>5. CASE DeviceLine
      <3>1. ~sending /\ \A line \in Lines : ReceiveReply(line) => ~sending'
        BY <2>5 DEF DeviceLine, ReceiveData, ReceiveEmpty, ReceiveStartup,
                    ReceivePush, ReceiveMultiline, ReceiveAlarm, ReceiveReply,
                    Ready, Run
      <3>2. QED
        BY <2>5, <3>1 DEF DeviceLine, ReceiveData, ReceiveEmpty, ReceiveStartup,
                          ReceivePush, ReceiveMultiline, ReceiveAlarm
    <2>6. CASE EnableFlowControl
      BY <2>6 DEF EnableFlowControl, Ready
    <2>7. CASE \E event \in UsbEvents : Reconnect(event)
      BY <2>7 DEF Reconnect, Ready
    <2>8. CASE ParentReads \/ SerialReads
      BY <2>8 DEF ParentReads, SerialReads, queues, AlarmHoldsQueue
    <2>9. CASE UNCHANGED vars
      BY <2>9 DEF vars, queues, AlarmHoldsQueue
    <2>10. QED
      BY <2>2, <2>3, <2>4, <2>5, <2>6, <2>7, <2>8, <2>9 DEF Next, Loop
  <1>3. QED
    BY <1>1, <1>2, BaseInvariant, PTL DEF Spec

-----------------------------------------------------------------------------
(* Program order *)

\* No queued request is newer than the last one received.
TagsBelow(queue, last) == \A i \in 1..Len(queue) : queue[i].tag <= last

Ordered(queue, last) == InOrder(queue) /\ TagsBelow(queue, last)

\* Dropping requests from an ordered queue leaves an ordered queue.
LEMMA ThinnedIsOrdered ==
    ASSUME NEW q \in Seq(Request), NEW r \in Seq(Request),
           NEW last, Ordered(q, last),
           NEW f \in [1..Len(r) -> 1..Len(q)],
           \A i, j \in 1..Len(r) : i < j => f[i] < f[j],
           \A i \in 1..Len(r) : r[i] = q[f[i]]
    PROVE  Ordered(r, last)
  <1>1. InOrder(r)
    <2> SUFFICES ASSUME NEW i \in 1..Len(r), NEW j \in 1..Len(r), i < j,
                        Position(r[i].type) = "Back", Position(r[j].type) = "Back"
                 PROVE  r[i].tag < r[j].tag
      BY DEF InOrder
    <2>1. f[i] \in 1..Len(q) /\ f[j] \in 1..Len(q) /\ f[i] < f[j]
      OBVIOUS
    <2>2. QED
      BY <2>1 DEF Ordered, InOrder
  <1>2. TagsBelow(r, last)
    BY DEF Ordered, TagsBelow
  <1>3. QED
    BY <1>1, <1>2 DEF Ordered

\* Empty queues are in order.
LEMMA EmptyIsOrdered == ASSUME NEW last PROVE Ordered(<<>>, last)
  BY DEF Ordered, InOrder, TagsBelow

\* A tag is a position in arrival order.
LEMMA TagsAreNatural ==
    ASSUME NEW q \in Seq(Request)
    PROVE  \A i \in 1..Len(q) : q[i].tag \in Nat
  <1> SUFFICES ASSUME NEW i \in 1..Len(q) PROVE q[i].tag \in Nat
    OBVIOUS
  <1>1. q[i] \in Request
    BY ElementOfSeq
  <1>2. QED
    BY <1>1 DEF Request

\* A newer request may join an ordered queue at its end.
LEMMA NewestIsOrdered ==
    ASSUME NEW q \in Seq(Request), NEW last \in Nat, Ordered(q, last),
           NEW e \in Request, e.tag = last + 1
    PROVE  Ordered(Append(q, e), last + 1)
  <1>0. \A i \in 1..Len(q) : q[i].tag \in Nat
    BY TagsAreNatural
  <1>1. /\ Len(q) \in Nat /\ Len(Append(q, e)) = Len(q) + 1
        /\ \A i \in 1..Len(q) : Append(q, e)[i] = q[i] /\ q[i].tag \in Nat
        /\ Append(q, e)[Len(q) + 1] = e
    BY <1>0, AppendIsSeq, LenProperties
  <1>2. \A i \in 1..Len(q) : q[i].tag <= last
    BY DEF Ordered, TagsBelow
  <1> DEFINE longer == Append(q, e)
  <1> HIDE DEF longer
  <1>3. InOrder(longer)
    <2> SUFFICES ASSUME NEW i \in 1..(Len(q) + 1), NEW j \in 1..(Len(q) + 1), i < j,
                        Position(longer[i].type) = "Back",
                        Position(longer[j].type) = "Back"
                 PROVE  longer[i].tag < longer[j].tag
      BY <1>1 DEF InOrder, longer
    <2>1. i \in 1..Len(q) /\ longer[i] = q[i]
      BY <1>1 DEF longer
    <2>2. CASE j = Len(q) + 1
      BY <2>1, <2>2, <1>1, <1>2 DEF longer
    <2>3. CASE j # Len(q) + 1
      <3>1. j \in 1..Len(q) /\ longer[j] = q[j]
        BY <2>3, <1>1 DEF longer
      <3>2. QED
        BY <2>1, <3>1 DEF Ordered, InOrder
    <2>4. QED
      BY <2>2, <2>3
  <1>4. TagsBelow(longer, last + 1)
    BY <1>1, <1>2 DEF TagsBelow, longer
  <1>5. QED
    BY <1>3, <1>4 DEF Ordered, longer

\* A request that is not queued at the back may be inserted anywhere.
LEMMA InsertedIsOrdered ==
    ASSUME NEW p \in Seq(Request), NEW q \in Seq(Request), NEW last \in Nat,
           Ordered(p \o q, last),
           NEW e \in Request, e.tag = last + 1, Position(e.type) # "Back"
    PROVE  Ordered(p \o (<<e>> \o q), last + 1)
  <1> DEFINE old == p \o q
             new == p \o (<<e>> \o q)
             n == Len(p)
             m == Len(q)
  <1>1. /\ old \in Seq(Request) /\ n \in Nat /\ m \in Nat /\ Len(old) = n + m
        /\ \A i \in 1..(n + m) : old[i] = IF i <= n THEN p[i] ELSE q[i - n]
    BY ConcatProperties, LenProperties
  <1>2. <<e>> \in Seq(Request) /\ Len(<<e>>) = 1 /\ <<e>>[1] = e
    BY SingletonIsSeq
  <1>3. /\ <<e>> \o q \in Seq(Request) /\ Len(<<e>> \o q) = m + 1
        /\ \A i \in 1..(m + 1) :
               (<<e>> \o q)[i] = IF i <= 1 THEN <<e>>[i] ELSE q[i - 1]
    BY <1>1, <1>2, ConcatProperties
  <1>4. /\ new \in Seq(Request) /\ Len(new) = n + m + 1
        /\ \A i \in 1..(n + m + 1) :
               new[i] = IF i <= n THEN p[i] ELSE (<<e>> \o q)[i - n]
    BY <1>1, <1>3, ConcatProperties
  <1> HIDE DEF old, new, n, m
  <1>5. new[n + 1] = e
    BY <1>1, <1>2, <1>3, <1>4
  <1>6. \A i \in 1..n : new[i] = old[i]
    BY <1>1, <1>4
  <1>7. \A i \in (n + 2)..(n + m + 1) : new[i] = old[i - 1]
    <2> SUFFICES ASSUME NEW i \in (n + 2)..(n + m + 1) PROVE new[i] = old[i - 1]
      OBVIOUS
    <2>1. /\ i \in 1..(n + m + 1) /\ ~(i <= n)
          /\ i - n \in 1..(m + 1) /\ ~(i - n <= 1)
          /\ i - 1 \in 1..(n + m) /\ ~(i - 1 <= n)
          /\ (i - n) - 1 = (i - 1) - n
      BY <1>1
    <2>2. new[i] = (<<e>> \o q)[i - n]
      BY <2>1, <1>4
    <2>3. (<<e>> \o q)[i - n] = q[(i - n) - 1]
      BY <2>1, <1>3
    <2>4. old[i - 1] = q[(i - 1) - n]
      BY <2>1, <1>1
    <2>5. QED
      BY <2>1, <2>2, <2>3, <2>4
  <1>8. InOrder(new)
    <2> SUFFICES ASSUME NEW i \in 1..(n + m + 1), NEW j \in 1..(n + m + 1), i < j,
                        Position(new[i].type) = "Back",
                        Position(new[j].type) = "Back"
                 PROVE  new[i].tag < new[j].tag
      BY <1>4 DEF InOrder
    <2>1. i # n + 1 /\ j # n + 1
      BY <1>5
    <2> DEFINE k == IF i <= n THEN i ELSE i - 1
               l == IF j <= n THEN j ELSE j - 1
    <2>2. k \in 1..(n + m) /\ l \in 1..(n + m) /\ k < l
      BY <2>1, <1>1
    <2>3. new[i] = old[k] /\ new[j] = old[l]
      BY <2>1, <1>1, <1>6, <1>7
    <2> HIDE DEF k, l
    <2>4. QED
      BY <2>2, <2>3, <1>1 DEF Ordered, InOrder, old
  <1>9. TagsBelow(new, last + 1)
    <2> SUFFICES ASSUME NEW i \in 1..(n + m + 1) PROVE new[i].tag <= last + 1
      BY <1>4 DEF TagsBelow
    <2>1. \A k \in 1..(n + m) : old[k].tag \in Nat /\ old[k].tag <= last
      <3>1. \A k \in 1..(n + m) : old[k].tag \in Nat
        BY <1>1, TagsAreNatural
      <3>2. Ordered(old, last)
        BY DEF old
      <3>3. QED
        BY <3>1, <3>2, <1>1 DEF Ordered, TagsBelow
    <2>2. CASE i = n + 1
      BY <2>2, <1>5
    <2>3. CASE i <= n
      <3>1. i \in 1..n /\ i \in 1..(n + m)
        BY <2>3, <1>1
      <3>2. new[i] = old[i] /\ old[i].tag \in Nat /\ old[i].tag <= last
        BY <3>1, <2>1, <1>6
      <3>3. QED
        BY <3>2
    <2>4. CASE i > n + 1
      <3>1. i \in (n + 2)..(n + m + 1) /\ i - 1 \in 1..(n + m)
        BY <2>4, <1>1
      <3>2. new[i] = old[i - 1] /\ old[i - 1].tag \in Nat /\ old[i - 1].tag <= last
        BY <3>1, <2>1, <1>7
      <3>3. QED
        BY <3>2
    <2>5. QED
      BY <2>2, <2>3, <2>4, <1>1
  <1>10. QED
    BY <1>8, <1>9 DEF Ordered, new

\* A command that is not queued does not disturb the order.
LEMMA LaterIsOrdered ==
    ASSUME NEW q \in Seq(Request), NEW last \in Nat, Ordered(q, last)
    PROVE  Ordered(q, last + 1)
  BY TagsAreNatural DEF Ordered, TagsBelow

\* The requests of q alone are ordered when those of p \o q or q \o p are.
LEMMA PrefixIsOrdered ==
    ASSUME NEW p \in Seq(Request), NEW q \in Seq(Request), NEW last,
           Ordered(p \o q, last)
    PROVE  Ordered(p, last)
  <1>1. /\ p \o q \in Seq(Request) /\ Len(p \o q) = Len(p) + Len(q)
        /\ Len(p) \in Nat /\ Len(q) \in Nat
        /\ \A i \in 1..Len(p) : (p \o q)[i] = p[i]
    BY ConcatProperties, LenProperties
  <1> DEFINE f == [i \in 1..Len(p) |-> i]
  <1>2. /\ f \in [1..Len(p) -> 1..Len(p \o q)]
        /\ \A i, j \in 1..Len(p) : i < j => f[i] < f[j]
        /\ \A i \in 1..Len(p) : p[i] = (p \o q)[f[i]]
    BY <1>1
  <1> HIDE DEF f
  <1>3. QED
    BY <1>1, <1>2, ThinnedIsOrdered

\* The oldest outstanding request is answered.
LEMMA AnsweredIsOrdered ==
    ASSUME NEW p \in Seq(Request), NEW q \in Seq(Request), NEW last, p # <<>>,
           Ordered(p \o q, last)
    PROVE  Ordered(Tail(p) \o q, last)
  <1> DEFINE old == p \o q
             new == Tail(p) \o q
             n == Len(p)
             m == Len(q)
             f == [i \in 1..(n + m - 1) |-> i + 1]
  <1>1. n \in Nat \ {0} /\ m \in Nat
    BY LenProperties, HeadIsFirst
  <1>2. /\ Tail(p) \in Seq(Request) /\ Len(Tail(p)) = n - 1
        /\ \A i \in 1..(n - 1) : Tail(p)[i] = p[i + 1]
    BY HeadTailProperties
  <1>3. /\ old \in Seq(Request) /\ Len(old) = n + m
        /\ \A i \in 1..(n + m) : old[i] = IF i <= n THEN p[i] ELSE q[i - n]
    BY ConcatProperties
  <1>4. /\ new \in Seq(Request) /\ Len(new) = (n - 1) + m
        /\ \A i \in 1..((n - 1) + m) :
               new[i] = IF i <= n - 1 THEN Tail(p)[i] ELSE q[i - (n - 1)]
    BY <1>2, ConcatProperties
  <1>5. Ordered(old, last)
    OBVIOUS
  <1> HIDE DEF old, new, n, m
  <1>6. \A i \in 1..(n + m - 1) : new[i] = old[f[i]]
    <2> SUFFICES ASSUME NEW i \in 1..(n + m - 1) PROVE new[i] = old[i + 1]
      OBVIOUS
    <2>1. CASE i <= n - 1
      BY <2>1, <1>1, <1>2, <1>3, <1>4
    <2>2. CASE i > n - 1
      <3>1. i - (n - 1) = (i + 1) - n /\ ~(i <= n - 1) /\ ~(i + 1 <= n)
        BY <2>2, <1>1
      <3>2. i \in 1..((n - 1) + m) /\ i + 1 \in 1..(n + m)
        BY <1>1
      <3>3. QED
        BY <3>1, <3>2, <1>3, <1>4
    <2>3. QED
      BY <2>1, <2>2, <1>1
  <1>7. /\ f \in [1..(n + m - 1) -> 1..(n + m)]
        /\ \A i, j \in 1..(n + m - 1) : i < j => f[i] < f[j]
        /\ Len(new) = n + m - 1
    BY <1>1, <1>4
  <1> HIDE DEF f
  <1>8. /\ f \in [1..Len(new) -> 1..Len(old)]
        /\ \A i, j \in 1..Len(new) : i < j => f[i] < f[j]
        /\ \A i \in 1..Len(new) : new[i] = old[f[i]]
    BY <1>3, <1>6, <1>7
  <1>9. Ordered(new, last)
    BY <1>3, <1>4, <1>5, <1>8, ThinnedIsOrdered
  <1>10. QED
    BY <1>9 DEF new

\* The next request leaves the queue: to its place among the outstanding ones,
\* or, a realtime request, to a place of its own.
LEMMA SentIsOrdered ==
    ASSUME NEW p \in Seq(Request), NEW q \in Seq(Request), NEW last, q # <<>>,
           Ordered(p \o q, last)
    PROVE  /\ Ordered(Append(p, Head(q)) \o Tail(q), last)
           /\ Ordered(p \o Tail(q), last)
  <1> DEFINE old == p \o q
             moved == Append(p, Head(q)) \o Tail(q)
             taken == p \o Tail(q)
             n == Len(p)
             m == Len(q)
             f == [i \in 1..(n + m - 1) |-> IF i <= n THEN i ELSE i + 1]
             g == [i \in 1..(n + m) |-> i]
  <1>1. n \in Nat /\ m \in Nat \ {0} /\ Head(q) = q[1] /\ Head(q) \in Request
    BY LenProperties, HeadIsFirst, HeadTailProperties
  <1>2. /\ Tail(q) \in Seq(Request) /\ Len(Tail(q)) = m - 1
        /\ \A i \in 1..(m - 1) : Tail(q)[i] = q[i + 1]
    BY HeadTailProperties
  <1>3. /\ old \in Seq(Request) /\ Len(old) = n + m
        /\ \A i \in 1..(n + m) : old[i] = IF i <= n THEN p[i] ELSE q[i - n]
    BY ConcatProperties
  <1>4. /\ taken \in Seq(Request) /\ Len(taken) = n + (m - 1)
        /\ \A i \in 1..(n + (m - 1)) :
               taken[i] = IF i <= n THEN p[i] ELSE Tail(q)[i - n]
    BY <1>2, ConcatProperties
  <1>5. /\ Append(p, Head(q)) \in Seq(Request) /\ Len(Append(p, Head(q))) = n + 1
        /\ \A i \in 1..n : Append(p, Head(q))[i] = p[i]
        /\ Append(p, Head(q))[n + 1] = q[1]
    BY <1>1, AppendIsSeq
  <1>6. /\ moved \in Seq(Request) /\ Len(moved) = (n + 1) + (m - 1)
        /\ \A i \in 1..((n + 1) + (m - 1)) :
               moved[i] = IF i <= n + 1 THEN Append(p, Head(q))[i]
                                        ELSE Tail(q)[i - (n + 1)]
    BY <1>2, <1>5, ConcatProperties
  <1>7. Ordered(old, last)
    OBVIOUS
  <1> HIDE DEF old, moved, taken, n, m
  <1>8. \A i \in 1..(n + m - 1) : taken[i] = old[f[i]]
    <2> SUFFICES ASSUME NEW i \in 1..(n + m - 1)
                 PROVE  taken[i] = old[IF i <= n THEN i ELSE i + 1]
      OBVIOUS
    <2>1. CASE i <= n
      <3>1. i \in 1..(n + (m - 1)) /\ i \in 1..(n + m)
        BY <1>1
      <3>2. QED
        BY <2>1, <3>1, <1>3, <1>4
    <2>2. CASE i > n
      <3>1. /\ i \in 1..(n + (m - 1)) /\ i + 1 \in 1..(n + m)
            /\ i - n \in 1..(m - 1) /\ (i - n) + 1 = (i + 1) - n
            /\ ~(i <= n) /\ ~(i + 1 <= n)
        BY <2>2, <1>1
      <3>2. QED
        BY <3>1, <1>2, <1>3, <1>4
    <2>3. QED
      BY <2>1, <2>2, <1>1
  <1>9. \A i \in 1..(n + m) : moved[i] = old[g[i]]
    <2> SUFFICES ASSUME NEW i \in 1..(n + m) PROVE moved[i] = old[i]
      OBVIOUS
    <2>1. i \in 1..((n + 1) + (m - 1))
      BY <1>1
    <2>2. CASE i <= n
      <3>1. i \in 1..n /\ i <= n + 1 /\ i <= n
        BY <2>2, <1>1
      <3>2. moved[i] = Append(p, Head(q))[i]
        BY <2>1, <3>1, <1>6
      <3>3. old[i] = p[i]
        BY <3>1, <1>3
      <3>4. QED
        BY <3>1, <3>2, <3>3, <1>5
    <2>3. CASE i = n + 1
      <3>1. i <= n + 1 /\ ~(i <= n) /\ i - n = 1
        BY <2>3, <1>1
      <3>2. moved[i] = Append(p, Head(q))[n + 1]
        BY <2>1, <2>3, <3>1, <1>6
      <3>3. old[i] = q[1]
        BY <3>1, <1>3
      <3>4. QED
        BY <3>2, <3>3, <1>5
    <2>4. CASE i > n + 1
      <3>1. /\ i - (n + 1) \in 1..(m - 1) /\ (i - (n + 1)) + 1 = i - n
            /\ ~(i <= n) /\ ~(i <= n + 1)
        BY <2>4, <1>1
      <3>2. QED
        BY <2>1, <3>1, <1>2, <1>3, <1>6
    <2>5. QED
      BY <2>2, <2>3, <2>4, <1>1
  <1>10. /\ f \in [1..(n + m - 1) -> 1..(n + m)]
         /\ \A i, j \in 1..(n + m - 1) : i < j => f[i] < f[j]
         /\ Len(taken) = n + m - 1
    BY <1>1, <1>4
  <1>11. /\ g \in [1..(n + m) -> 1..(n + m)]
         /\ \A i, j \in 1..(n + m) : i < j => g[i] < g[j]
         /\ Len(moved) = n + m
    BY <1>1, <1>6
  <1> HIDE DEF f, g
  <1>12. Ordered(taken, last)
    <2>1. /\ f \in [1..Len(taken) -> 1..Len(old)]
          /\ \A i, j \in 1..Len(taken) : i < j => f[i] < f[j]
          /\ \A i \in 1..Len(taken) : taken[i] = old[f[i]]
      BY <1>3, <1>8, <1>10
    <2>2. QED
      BY <2>1, <1>3, <1>4, <1>7, ThinnedIsOrdered
  <1>13. Ordered(moved, last)
    <2>1. /\ g \in [1..Len(moved) -> 1..Len(old)]
          /\ \A i, j \in 1..Len(moved) : i < j => g[i] < g[j]
          /\ \A i \in 1..Len(moved) : moved[i] = old[g[i]]
      BY <1>3, <1>9, <1>11
    <2>2. QED
      BY <2>1, <1>3, <1>6, <1>7, ThinnedIsOrdered
  <1>14. QED
    BY <1>12, <1>13 DEF taken, moved

\* The whole of what is outstanding and queued, in the order of sending.
Unanswered == outgoing \o incoming
OrderOK == Ordered(Unanswered, received)

\* queue() puts a request for the back behind all older ones.
LEMMA EnqueueKeepsOrder ==
    ASSUME Base, OrderOK, NEW type \in Commands, NEW size \in Nat,
           Enqueue(type, size)
    PROVE  OrderOK'
  <1> DEFINE e == Arriving(type, size)
             entry == IF size > 0 THEN <<e>> ELSE <<>>
  <1>1. /\ outgoing \in Seq(Request) /\ incoming \in Seq(Request)
        /\ received \in Nat /\ received' = received + 1 /\ outgoing' = outgoing
        /\ incoming' = Placed(type, entry)
    BY DEF Base, TypeOK, Enqueue, Arrive
  <1>2. e \in Request /\ e.type = type /\ e.tag = received + 1
    BY <1>1 DEF Arriving, Request
  <1>3. /\ Ordered(outgoing \o incoming, received)
        /\ outgoing \o incoming \in Seq(Request)
    BY <1>1, ConcatProperties DEF OrderOK, Unanswered
  <1>4. /\ outgoing \o <<>> = outgoing /\ <<e>> \o <<>> = <<e>>
        /\ incoming \o <<>> = incoming /\ <<>> \o incoming = incoming
        /\ <<e>> \in Seq(Request) /\ <<>> \in Seq(Request)
    BY <1>1, <1>2, ConcatEmptySeq, SingletonIsSeq, EmptySeq
  <1>5. Ordered(outgoing, received)
    BY <1>1, <1>3, PrefixIsOrdered
  <1> HIDE DEF e
  <1>6. Position(type) \in {"Reset", "Front", "Back"}
    BY DEF Position
  <1>7. Ordered(outgoing \o Placed(type, entry), received + 1)
    <2>1. CASE size > 0
      <3>1. CASE Position(type) = "Back"
        <4>1. outgoing \o (incoming \o <<e>>) = Append(outgoing \o incoming, e)
          <5>1. (outgoing \o incoming) \o <<e>> = outgoing \o (incoming \o <<e>>)
            BY <1>1, <1>4, ConcatAssociative
          <5>2. (outgoing \o incoming) \o <<e>> = Append(outgoing \o incoming, e)
            BY <1>2, <1>3, AppendIsConcat
          <5>3. QED
            BY <5>1, <5>2
        <4>2. Ordered(Append(outgoing \o incoming, e), received + 1)
          BY <1>1, <1>2, <1>3, NewestIsOrdered
        <4>3. Placed(type, entry) = incoming \o <<e>>
          BY <2>1, <3>1 DEF Placed
        <4>4. QED
          BY <4>1, <4>2, <4>3
      <3>2. CASE Position(type) = "Front"
        <4>1. Ordered(outgoing \o (<<e>> \o incoming), received + 1)
          BY <1>1, <1>2, <1>3, <3>2, InsertedIsOrdered
        <4>2. Placed(type, entry) = <<e>> \o incoming
          BY <2>1, <3>2 DEF Placed
        <4>3. QED
          BY <4>1, <4>2
      <3>3. CASE Position(type) = "Reset"
        <4>1. Ordered(outgoing \o (<<e>> \o <<>>), received + 1)
          BY <1>1, <1>2, <1>4, <1>5, <3>3, InsertedIsOrdered
        <4>2. Placed(type, entry) = <<e>>
          BY <2>1, <3>3 DEF Placed
        <4>3. QED
          BY <4>1, <4>2, <1>4
      <3>4. QED
        BY <3>1, <3>2, <3>3, <1>6
    <2>2. CASE ~(size > 0)
      <3>1. Placed(type, entry) = incoming \/ Placed(type, entry) = <<>>
        BY <2>2, <1>4, <1>6 DEF Placed
      <3>2. Ordered(outgoing, received + 1)
        BY <1>1, <1>5, LaterIsOrdered
      <3>3. Ordered(outgoing \o incoming, received + 1)
        BY <1>1, <1>3, LaterIsOrdered
      <3>4. QED
        BY <3>1, <3>2, <3>3, <1>4
    <2>3. QED
      BY <2>1, <2>2
  <1>8. QED
    BY <1>1, <1>7 DEF OrderOK, Unanswered

\* A step that leaves both queues alone keeps the order.
LEMMA QuietKeepsOrder ==
    ASSUME Base, OrderOK, UNCHANGED <<outgoing, incoming>>,
           received' = received \/ received' = received + 1
    PROVE  OrderOK'
  <1>1. Unanswered \in Seq(Request) /\ received \in Nat
    BY ConcatProperties DEF Base, TypeOK, Unanswered
  <1>2. Unanswered' = Unanswered
    BY DEF Unanswered
  <1>3. Ordered(Unanswered, received) /\ Ordered(Unanswered, received + 1)
    BY <1>1, LaterIsOrdered DEF OrderOK
  <1>4. QED
    BY <1>2, <1>3 DEF OrderOK

\* So does one that empties them.
LEMMA EmptiedKeepsOrder ==
    ASSUME outgoing' = <<>>, incoming' = <<>>
    PROVE  OrderOK'
  <1>1. Unanswered' = <<>>
    BY ConcatEmptySeq, EmptySeq DEF Unanswered
  <1>2. QED
    BY <1>1, EmptyIsOrdered DEF OrderOK

\* Requests queued at the back are sent in the order they arrived.
THEOREM KeepsProgramOrder == Spec => []ProgramOrder
  <1>1. Init => OrderOK
    <2> SUFFICES ASSUME Init PROVE OrderOK
      OBVIOUS
    <2>1. Unanswered = <<>>
      BY ConcatEmptySeq, EmptySeq DEF Init, Unanswered
    <2>2. QED
      BY <2>1, EmptyIsOrdered DEF OrderOK
  <1>2. Base /\ OrderOK /\ [Next]_vars => OrderOK'
    <2> SUFFICES ASSUME Base, OrderOK, [Next]_vars PROVE OrderOK'
      OBVIOUS
    <2>1. outgoing \in Seq(Request) /\ incoming \in Seq(Request)
      BY DEF Base, TypeOK
    <2>2. CASE SendRequest
      <3>1. /\ incoming # <<>> /\ incoming' = Tail(incoming) /\ received' = received
            /\ \/ outgoing' = outgoing
               \/ outgoing' = Append(outgoing, Head(incoming))
        BY <2>2, LoopHead DEF SendRequest
      <3>2. /\ Ordered(Append(outgoing, Head(incoming)) \o Tail(incoming), received)
            /\ Ordered(outgoing \o Tail(incoming), received)
        BY <2>1, <3>1, SentIsOrdered DEF OrderOK, Unanswered
      <3>3. QED
        BY <3>1, <3>2 DEF OrderOK, Unanswered
    <2>3. CASE SendReset
      BY <2>3, EmptiedKeepsOrder DEF SendReset
    <2>4. CASE ClientCommand
      <3>1. PICK type \in ClientCommands :
                \E size \in Sizes(type) : SendMessage(type, size)
        BY <2>4 DEF ClientCommand
      <3>2. PICK size \in Sizes(type) : SendMessage(type, size)
        BY <3>1
      <3>3. type \in Commands /\ size \in Nat
        BY SizesAreNatural
      <3>4. CASE Enqueue(type, size)
        BY <3>3, <3>4, EnqueueKeepsOrder
      <3>5. CASE \/ Refuse(type) \/ PassThrough(type, size)
                 \/ AssertionFails(type, size)
        BY <3>5, QuietKeepsOrder
           DEF Refuse, PassThrough, AssertionFails, Arrive, queues
      <3>6. QED
        BY <3>2, <3>4, <3>5 DEF SendMessage
    <2>5. CASE DeviceLine
      <3>1. PICK line \in Lines : ReceiveData(line)
        BY <2>5 DEF DeviceLine
      <3>2. CASE ReceiveReply(line) /\ outgoing # <<>>
        <4>1. Ordered(Tail(outgoing) \o incoming, received)
          BY <2>1, <3>2, AnsweredIsOrdered DEF OrderOK, Unanswered
        <4>2. outgoing' = Tail(outgoing) /\ UNCHANGED <<incoming, received>>
          BY <3>2 DEF ReceiveReply
        <4>3. QED
          BY <4>1, <4>2 DEF OrderOK, Unanswered
      <3>3. CASE ~(ReceiveReply(line) /\ outgoing # <<>>)
        <4>1. UNCHANGED <<outgoing, incoming, received>>
          BY <3>1, <3>3 DEF ReceiveData, ReceiveEmpty, ReceiveStartup, ReceivePush,
                ReceiveMultiline, ReceiveAlarm, ReceiveReply, queues
        <4>2. QED
          BY <4>1, QuietKeepsOrder
      <3>4. QED
        BY <3>2, <3>3
    <2>6. CASE EnableFlowControl
      BY <2>6, QuietKeepsOrder DEF EnableFlowControl, queues
    <2>7. CASE \E event \in UsbEvents : Reconnect(event)
      <3>1. /\ received' = received
            /\ \/ outgoing' = <<>> /\ incoming' = <<>>
               \/ UNCHANGED <<outgoing, incoming>>
        BY <2>7 DEF Reconnect
      <3>2. QED
        BY <3>1, EmptiedKeepsOrder, QuietKeepsOrder
    <2>8. CASE ParentReads \/ SerialReads
      BY <2>8, QuietKeepsOrder DEF ParentReads, SerialReads, queues
    <2>9. CASE UNCHANGED vars
      BY <2>9, QuietKeepsOrder DEF vars, queues
    <2>10. QED
      BY <2>2, <2>3, <2>4, <2>5, <2>6, <2>7, <2>8, <2>9 DEF Next, Loop
  <1>3. OrderOK => ProgramOrder
    BY DEF OrderOK, Ordered, Unanswered, ProgramOrder
  <1>4. QED
    BY <1>1, <1>2, <1>3, BaseInvariant, PTL DEF Spec
=============================================================================
