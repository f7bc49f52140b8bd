-------------------------- MODULE StreamingProofs ---------------------------
(***************************************************************************)
(* FlowControl implements StreamingWindow: its initial states are initial  *)
(* there, and each of its steps is a step of StreamingWindow or changes    *)
(* nothing that StreamingWindow speaks of.                                 *)
(*                                                                         *)
(* The set of waiting requests is the queue without its order.  That taking*)
(* the head of the queue takes one request out of the set, and the right   *)
(* one, rests on QueueOK: tags differ, none is later than the last command,*)
(* and those of the back stand in the order of their tags.                 *)
(***************************************************************************)
EXTENDS FlowControlProofs

Elements(queue) == {queue[i] : i \in 1..Len(queue)}

Back(request) == Position(request.type) = "Back"

Distinct(queue) ==
    \A i, j \in 1..Len(queue) :
        i < j => /\ queue[i].tag # queue[j].tag
                 /\ Back(queue[i]) /\ Back(queue[j]) => queue[i].tag < queue[j].tag

NoneAfter(queue, latest) == \A i \in 1..Len(queue) : queue[i].tag <= latest

QueueOK == Distinct(incoming) /\ NoneAfter(incoming, received)

-----------------------------------------------------------------------------
(* The queue as a set *)

\* The flags table of the instance is the table itself.
LEMMA SameTable ==
    /\ Window!Commands = Commands
    /\ Window!Greedy = Greedy /\ Window!Realtime = Realtime
    /\ \A type \in Commands : Window!Position(type) = Position(type)
    /\ \A request \in Request : Window!Size(request) = PlannedSize(request)
  BY DEF Window!Commands, Commands, Window!Greedy, Greedy, Window!Realtime, Realtime,
         Window!Multiline, Multiline, Window!Planned, Planned, Window!ClearsAlarm,
         ClearsAlarm, Window!Position, Position, Window!Size, PlannedSize

\* The head leaves the set with the queue's first place, and no older request
\* for the back stays behind.
LEMMA HeadLeaves ==
    ASSUME NEW queue \in Seq(Request), queue # <<>>, Distinct(queue)
    PROVE  /\ Head(queue) \in Elements(queue)
           /\ Elements(Tail(queue)) = Elements(queue) \ {Head(queue)}
           /\ \A other \in Elements(queue) :
                  Back(Head(queue)) /\ Back(other) => Head(queue).tag <= other.tag
           /\ Distinct(Tail(queue))
           /\ \A latest : NoneAfter(queue, latest) => NoneAfter(Tail(queue), latest)
  <1>1. /\ Len(queue) \in Nat \ {0} /\ Head(queue) = queue[1]
        /\ Tail(queue) \in Seq(Request) /\ Len(Tail(queue)) = Len(queue) - 1
        /\ \A i \in 1..Len(Tail(queue)) : Tail(queue)[i] = queue[i + 1]
    BY HeadTailProperties, HeadIsFirst
  <1>2. Head(queue) \in Elements(queue)
    BY <1>1 DEF Elements
  <1>3. Elements(Tail(queue)) \subseteq Elements(queue) \ {Head(queue)}
    <2> SUFFICES ASSUME NEW i \in 1..Len(Tail(queue))
                 PROVE  queue[i + 1] \in Elements(queue) /\ queue[i + 1] # queue[1]
      BY <1>1 DEF Elements
    <2>1. i + 1 \in 1..Len(queue) /\ 1 \in 1..Len(queue) /\ 1 < i + 1
      BY <1>1
    <2>2. QED
      BY <2>1 DEF Elements, Distinct
  <1>4. Elements(queue) \ {Head(queue)} \subseteq Elements(Tail(queue))
    <2> SUFFICES ASSUME NEW i \in 1..Len(queue), queue[i] # queue[1]
                 PROVE  queue[i] \in Elements(Tail(queue))
      BY <1>1 DEF Elements
    <2>1. i - 1 \in 1..Len(Tail(queue)) /\ (i - 1) + 1 = i
      BY <1>1
    <2>2. QED
      BY <2>1, <1>1 DEF Elements
  <1>5. ASSUME NEW other \in Elements(queue), Back(Head(queue)), Back(other)
        PROVE  Head(queue).tag <= other.tag
    <2>1. PICK i \in 1..Len(queue) : other = queue[i]
      BY DEF Elements
    <2>2. CASE i = 1
      <3>1. queue[1].tag \in Nat
        BY <1>1, TagsAreNatural
      <3>2. QED
        BY <2>1, <2>2, <3>1, <1>1
    <2>3. CASE i # 1
      <3>1. 1 \in 1..Len(queue) /\ 1 < i
        BY <2>3, <1>1
      <3>2. queue[1].tag < queue[i].tag
        BY <3>1, <2>1, <1>1, <1>5 DEF Distinct
      <3>3. queue[1].tag \in Nat /\ queue[i].tag \in Nat
        BY <3>1, TagsAreNatural
      <3>4. QED
        BY <2>1, <3>2, <3>3, <1>1
    <2>4. QED
      BY <2>2, <2>3
  <1>6. Distinct(Tail(queue))
    <2> SUFFICES ASSUME NEW i \in 1..Len(Tail(queue)), NEW j \in 1..Len(Tail(queue)),
                        i < j
                 PROVE  /\ queue[i + 1].tag # queue[j + 1].tag
                        /\ Back(queue[i + 1]) /\ Back(queue[j + 1])
                           => queue[i + 1].tag < queue[j + 1].tag
      BY <1>1 DEF Distinct
    <2>1. i + 1 \in 1..Len(queue) /\ j + 1 \in 1..Len(queue) /\ i + 1 < j + 1
      BY <1>1
    <2>2. QED
      BY <2>1 DEF Distinct
  <1>7. ASSUME NEW latest, NoneAfter(queue, latest)
        PROVE  NoneAfter(Tail(queue), latest)
    <2>1. \A i \in 1..Len(Tail(queue)) : i + 1 \in 1..Len(queue)
      BY <1>1
    <2>2. QED
      BY <2>1, <1>1, <1>7 DEF NoneAfter
  <1>8. QED
    BY <1>2, <1>3, <1>4, <1>5, <1>6, <1>7

\* A new request joins the set wherever the queue puts it.
LEMMA NewestJoins ==
    ASSUME NEW queue \in Seq(Request), NEW latest \in Nat, NEW request \in Request,
           Distinct(queue), NoneAfter(queue, latest), request.tag = latest + 1
    PROVE  /\ Elements(queue \o <<request>>) = Elements(queue) \cup {request}
           /\ Distinct(queue \o <<request>>)
           /\ NoneAfter(queue \o <<request>>, latest + 1)
           /\ Elements(<<request>> \o queue) = Elements(queue) \cup {request}
           /\ ~Back(request) => Distinct(<<request>> \o queue)
           /\ NoneAfter(<<request>> \o queue, latest + 1)
  <1> DEFINE n == Len(queue)
             behind == queue \o <<request>>
             before == <<request>> \o queue
  <1>1. /\ n \in Nat
        /\ Len(behind) = n + 1 /\ behind[n + 1] = request
        /\ \A i \in 1..n : behind[i] = queue[i]
        /\ Len(before) = n + 1 /\ before[1] = request
        /\ \A i \in 1..n : before[i + 1] = queue[i]
    <2>1. <<request>> \in Seq(Request) /\ Len(<<request>>) = 1 /\ <<request>>[1] = request
      BY SingletonIsSeq
    <2>2. /\ n \in Nat /\ Len(behind) = n + 1 /\ Len(before) = n + 1
          /\ \A i \in 1..Len(behind) : behind[i] = IF i <= n THEN queue[i]
                                                   ELSE <<request>>[i - n]
          /\ \A i \in 1..Len(before) : before[i] = IF i <= 1 THEN <<request>>[i]
                                                   ELSE queue[i - 1]
      BY <2>1, ConcatProperties, LenProperties
    <2> HIDE DEF behind, before
    <2>3. behind[n + 1] = request /\ before[1] = request
      BY <2>1, <2>2
    <2>4. ASSUME NEW i \in 1..n PROVE behind[i] = queue[i] /\ before[i + 1] = queue[i]
      BY <2>2
    <2>5. QED
      BY <2>2, <2>3, <2>4
  <1>2. \A i \in 1..n : queue[i] \in Request /\ queue[i].tag \in Nat /\ queue[i].tag <= latest
    BY ElementOfSeq, TagsAreNatural DEF NoneAfter
  <1> HIDE DEF n, behind, before
  <1>3. Distinct(queue) <=>
            \A i, j \in 1..n : i < j => /\ queue[i].tag # queue[j].tag
                                        /\ Back(queue[i]) /\ Back(queue[j])
                                           => queue[i].tag < queue[j].tag
    BY DEF Distinct, n
  <1>4. Elements(queue) = {queue[i] : i \in 1..n}
    BY DEF Elements, n
  <1>5. Elements(behind) = Elements(queue) \cup {request}
    <2>1. ASSUME NEW i \in 1..(n + 1) PROVE behind[i] \in Elements(queue) \cup {request}
      <3>1. i \in 1..n \/ i = n + 1
        BY <1>1
      <3>2. QED
        BY <3>1, <1>1, <1>4
    <2>2. ASSUME NEW i \in 1..n PROVE queue[i] \in Elements(behind)
      <3>1. i \in 1..Len(behind) /\ behind[i] = queue[i]
        BY <1>1
      <3>2. QED
        BY <3>1 DEF Elements
    <2>3. request \in Elements(behind)
      <3>1. n + 1 \in 1..Len(behind) /\ behind[n + 1] = request
        BY <1>1
      <3>2. QED
        BY <3>1 DEF Elements
    <2>4. Elements(behind) = {behind[i] : i \in 1..(n + 1)}
      BY <1>1 DEF Elements
    <2>5. QED
      BY <2>1, <2>2, <2>3, <2>4, <1>4
  <1>6. Elements(before) = Elements(queue) \cup {request}
    <2>1. ASSUME NEW i \in 1..(n + 1) PROVE before[i] \in Elements(queue) \cup {request}
      <3>1. CASE i = 1
        BY <3>1, <1>1
      <3>2. CASE i # 1
        <4>1. i - 1 \in 1..n /\ (i - 1) + 1 = i
          BY <3>2, <1>1
        <4>2. before[i] = queue[i - 1]
          BY <4>1, <1>1
        <4>3. QED
          BY <4>1, <4>2, <1>4
      <3>3. QED
        BY <3>1, <3>2
    <2>2. ASSUME NEW i \in 1..n PROVE queue[i] \in Elements(before)
      <3>1. i + 1 \in 1..Len(before) /\ before[i + 1] = queue[i]
        BY <1>1
      <3>2. QED
        BY <3>1 DEF Elements
    <2>3. request \in Elements(before)
      <3>1. 1 \in 1..Len(before) /\ before[1] = request
        BY <1>1
      <3>2. QED
        BY <3>1 DEF Elements
    <2>4. Elements(before) = {before[i] : i \in 1..(n + 1)}
      BY <1>1 DEF Elements
    <2>5. QED
      BY <2>1, <2>2, <2>3, <2>4, <1>4
  <1>7. Distinct(behind)
    <2> SUFFICES ASSUME NEW i \in 1..(n + 1), NEW j \in 1..(n + 1), i < j
                 PROVE  /\ behind[i].tag # behind[j].tag
                        /\ Back(behind[i]) /\ Back(behind[j])
                           => behind[i].tag < behind[j].tag
      BY <1>1 DEF Distinct
    <2>1. i \in 1..n
      BY <1>1
    <2>2. CASE j \in 1..n
      <3>1. behind[i] = queue[i] /\ behind[j] = queue[j]
        BY <2>1, <2>2, <1>1
      <3>2. QED
        BY <2>1, <2>2, <3>1, <1>3
    <2>3. CASE j = n + 1
      <3>1. behind[j].tag = latest + 1 /\ behind[i] = queue[i]
        BY <2>1, <2>3, <1>1
      <3>2. queue[i].tag \in Nat /\ queue[i].tag <= latest
        BY <2>1, <1>2
      <3>3. queue[i].tag < latest + 1 /\ queue[i].tag # latest + 1
        BY <3>2
      <3>4. behind[i].tag < behind[j].tag /\ behind[i].tag # behind[j].tag
        BY <3>1, <3>3
      <3>5. QED
        BY <3>4
    <2>4. QED
      BY <2>2, <2>3, <1>1
  <1>8. ASSUME ~Back(request) PROVE Distinct(before)
    <2> SUFFICES ASSUME NEW i \in 1..(n + 1), NEW j \in 1..(n + 1), i < j
                 PROVE  /\ before[i].tag # before[j].tag
                        /\ Back(before[i]) /\ Back(before[j])
                           => before[i].tag < before[j].tag
      BY <1>1 DEF Distinct
    <2>1. j - 1 \in 1..n /\ before[j] = queue[j - 1]
      <3>1. j - 1 \in 1..n /\ (j - 1) + 1 = j
        BY <1>1
      <3>2. QED
        BY <3>1, <1>1
    <2>2. CASE i = 1
      BY <2>1, <2>2, <1>1, <1>2, <1>8
    <2>3. CASE i # 1
      <3>1. i - 1 \in 1..n /\ (i - 1) + 1 = i /\ i - 1 < j - 1
        BY <2>3, <1>1
      <3>2. before[i] = queue[i - 1]
        BY <3>1, <1>1
      <3>3. QED
        BY <2>1, <3>1, <3>2, <1>3
    <2>4. QED
      BY <2>2, <2>3
  <1>9. NoneAfter(behind, latest + 1)
    <2> SUFFICES ASSUME NEW i \in 1..(n + 1) PROVE behind[i].tag <= latest + 1
      BY <1>1 DEF NoneAfter
    <2>1. i \in 1..n \/ i = n + 1
      BY <1>1
    <2>2. QED
      BY <2>1, <1>1, <1>2
  <1>10. NoneAfter(before, latest + 1)
    <2> SUFFICES ASSUME NEW i \in 1..(n + 1) PROVE before[i].tag <= latest + 1
      BY <1>1 DEF NoneAfter
    <2>1. CASE i = 1
      BY <2>1, <1>1
    <2>2. CASE i # 1
      <3>1. i - 1 \in 1..n /\ (i - 1) + 1 = i
        BY <2>2, <1>1
      <3>2. before[i] = queue[i - 1] /\ queue[i - 1].tag \in Nat /\ queue[i - 1].tag <= latest
        BY <3>1, <1>1, <1>2
      <3>3. QED
        BY <3>2
    <2>3. QED
      BY <2>1, <2>2
  <1>11. QED
    BY <1>5, <1>6, <1>7, <1>8, <1>9, <1>10 DEF behind, before

-----------------------------------------------------------------------------
(* The queue keeps its tags apart *)

\* An emptied queue.
LEMMA EmptyQueueOK ==
    ASSUME NEW latest
    PROVE  Distinct(<<>>) /\ NoneAfter(<<>>, latest) /\ Elements(<<>>) = {}
  BY DEF Distinct, NoneAfter, Elements

\* What queue() makes of the queue: nothing, or the request joins it, or
\* the request replaces it.
LEMMA PlacedJoins ==
    ASSUME TypeOK, QueueOK, NEW type \in Commands, NEW size \in Nat
    PROVE  LET request == Arriving(type, size)
               placed  == Placed(type, IF size > 0 THEN <<request>> ELSE <<>>)
           IN  /\ Distinct(placed) /\ NoneAfter(placed, received + 1)
               /\ size > 0 =>
                      Elements(placed) = IF Position(type) = "Reset"
                                         THEN {request}
                                         ELSE Elements(incoming) \cup {request}
               /\ ~(size > 0) /\ Position(type) # "Reset" => placed = incoming
  <1> DEFINE request == Arriving(type, size)
             placed  == Placed(type, IF size > 0 THEN <<request>> ELSE <<>>)
  <1>1. /\ request \in Request /\ request.tag = received + 1 /\ request.type = type
        /\ incoming \in Seq(Request) /\ received \in Nat
    BY DEF Arriving, Request, TypeOK
  <1>2. Position(type) \in {"Reset", "Front", "Back"}
    BY DEF Position
  <1>3. /\ incoming \o <<>> = incoming /\ <<>> \o incoming = incoming
        /\ <<>> \o <<request>> = <<request>> /\ <<>> \in Seq(Request)
    BY <1>1, ConcatEmptySeq, SingletonIsSeq, EmptySeq
  <1>4. Distinct(incoming) /\ NoneAfter(incoming, received)
    BY DEF QueueOK
  <1>5. ~Back(request) <=> Position(type) # "Back"
    BY <1>1 DEF Back
  <1> DEFINE Joins ==
               /\ Distinct(placed) /\ NoneAfter(placed, received + 1)
               /\ size > 0 => Elements(placed) = IF Position(type) = "Reset"
                                                THEN {request}
                                                ELSE Elements(incoming) \cup {request}
               /\ ~(size > 0) /\ Position(type) # "Reset" => placed = incoming
  <1> HIDE DEF request
  <1>6. NoneAfter(incoming, received + 1)
    <2>1. \A i \in 1..Len(incoming) : incoming[i].tag \in Nat
      BY <1>1, TagsAreNatural
    <2>2. QED
      BY <2>1, <1>1, <1>4 DEF NoneAfter
  <1>7. ASSUME size > 0 PROVE Joins
    <2>1. CASE Position(type) = "Back"
      <3>1. placed = incoming \o <<request>>
        BY <1>7, <2>1 DEF Placed
      <3> HIDE DEF placed
      <3>2. QED
        BY <3>1, <2>1, <1>1, <1>4, <1>7, NewestJoins
    <2>2. CASE Position(type) = "Front"
      <3>1. placed = <<request>> \o incoming
        BY <1>7, <2>2 DEF Placed
      <3> HIDE DEF placed
      <3>2. QED
        BY <3>1, <2>2, <1>1, <1>4, <1>5, <1>7, NewestJoins
    <2>3. CASE Position(type) = "Reset"
      <3>1. placed = <<request>>
        BY <1>7, <2>3 DEF Placed
      <3> HIDE DEF placed
      <3>2. /\ Elements(<<>> \o <<request>>) = Elements(<<>>) \cup {request}
            /\ Distinct(<<>> \o <<request>>)
            /\ NoneAfter(<<>> \o <<request>>, received + 1)
        BY <1>1, <1>3, EmptyQueueOK, NewestJoins
      <3>3. Elements(placed) = {request} /\ Distinct(placed)
            /\ NoneAfter(placed, received + 1)
        BY <3>1, <3>2, <1>3, EmptyQueueOK
      <3>4. QED
        BY <3>3, <2>3, <1>7
    <2>4. QED
      BY <2>1, <2>2, <2>3, <1>2
  <1>8. ASSUME ~(size > 0) PROVE Joins
    <2>1. placed = IF Position(type) = "Reset" THEN <<>> ELSE incoming
      BY <1>8, <1>2, <1>3 DEF Placed
    <2> HIDE DEF placed
    <2>2. QED
      BY <2>1, <1>4, <1>6, <1>8, EmptyQueueOK
  <1>9. QED
    BY <1>7, <1>8 DEF request

\* Every step keeps the tags of the queue apart.
LEMMA NextKeepsQueue == Base /\ QueueOK /\ [Next]_vars => QueueOK'
  <1> SUFFICES ASSUME Base, QueueOK, [Next]_vars PROVE QueueOK'
    OBVIOUS
  <1>1. incoming \in Seq(Request) /\ received \in Nat
    BY DEF Base, TypeOK
  <1>2. ASSUME UNCHANGED incoming, received' = received \/ received' = received + 1
        PROVE  QueueOK'
    <2>1. \A i \in 1..Len(incoming) : incoming[i].tag \in Nat
      BY <1>1, TagsAreNatural
    <2>2. NoneAfter(incoming, received')
      BY <2>1, <1>1, <1>2 DEF QueueOK, NoneAfter
    <2>3. QED
      BY <2>2, <1>2 DEF QueueOK
  <1>3. ASSUME incoming' = <<>> PROVE QueueOK'
    BY <1>3, EmptyQueueOK DEF QueueOK
  <1>4. CASE SendRequest
    <2>1. incoming # <<>> /\ incoming' = Tail(incoming) /\ received' = received
      BY <1>4, LoopHead DEF SendRequest
    <2>2. QED
      BY <2>1, <1>1, HeadLeaves DEF QueueOK
  <1>5. CASE SendReset
    BY <1>3, <1>5 DEF SendReset
  <1>6. CASE ClientCommand
    <2>1. PICK type \in ClientCommands :
              \E size \in Sizes(type) : SendMessage(type, size)
      BY <1>6 DEF ClientCommand
    <2>2. PICK size \in Sizes(type) : SendMessage(type, size)
      BY <2>1
    <2>3. type \in Commands /\ size \in Nat
      BY SizesAreNatural
    <2>4. CASE Enqueue(type, size)
      <3>1. /\ incoming' = Placed(type, IF size > 0 THEN <<Arriving(type, size)>>
                                                     ELSE <<>>)
            /\ received' = received + 1
        BY <2>4 DEF Enqueue, Arrive
      <3>2. QED
        BY <3>1, <2>3, PlacedJoins DEF QueueOK, Base
    <2>5. CASE Refuse(type) \/ PassThrough(type, size) \/ AssertionFails(type, size)
      BY <2>5, <1>2 DEF Refuse, PassThrough, AssertionFails, Arrive, queues
    <2>6. QED
      BY <2>2, <2>4, <2>5 DEF SendMessage
  <1>7. CASE DeviceLine
    <2>1. UNCHANGED <<incoming, received>>
      BY <1>7 DEF DeviceLine, ReceiveData, ReceiveEmpty, ReceiveStartup, ReceivePush,
            ReceiveMultiline, ReceiveAlarm, ReceiveReply, queues
    <2>2. QED
      BY <2>1, <1>2
  <1>8. CASE \/ EnableFlowControl \/ ParentReads \/ SerialReads
             \/ UNCHANGED vars
    BY <1>8, <1>2 DEF EnableFlowControl, ParentReads, SerialReads, vars, queues
  <1>9. CASE \E event \in UsbEvents : Reconnect(event)
    BY <1>9, <1>2, <1>3 DEF Reconnect
  <1>10. QED
    BY <1>4, <1>5, <1>6, <1>7, <1>8, <1>9 DEF Next, Loop

-----------------------------------------------------------------------------
(* The steps *)

\* A count like that of CountOK shows that what is outstanding fits.
LEMMA CountedFits ==
    ASSUME NEW queue \in Seq(Request), NEW total \in Nat,
           NEW rest \in [1..(Len(queue) + 1) -> Nat],
           rest[1] = total, total <= Limit,
           rest[Len(queue) + 1] = 0,
           \A i \in 1..Len(queue) : rest[i] = PlannedSize(queue[i]) + rest[i + 1],
           \A i, j \in 1..(Len(queue) + 1) : i <= j => rest[j] <= rest[i]
    PROVE  Window!Fits(queue)
  <1>1. Len(queue) \in Nat /\ Limit \in Nat
    BY LenProperties, LimitAssumption
  <1>2. rest \in [1..(Len(queue) + 1) -> 0..Limit]
    <2>1. ASSUME NEW i \in 1..(Len(queue) + 1) PROVE rest[i] \in 0..Limit
      <3>1. 1 \in 1..(Len(queue) + 1) /\ 1 <= i
        BY <1>1
      <3>2. rest[i] <= rest[1] /\ rest[i] \in Nat
        BY <3>1
      <3>3. QED
        BY <3>2, <1>1
    <2>2. QED
      BY <2>1
  <1>3. \A i \in 1..Len(queue) : rest[i] = Window!Size(queue[i]) + rest[i + 1]
    BY SameTable, ElementOfSeq
  <1>4. QED
    BY <1>2, <1>3 DEF Window!Fits

\* Members of the queue are requests.
LEMMA ElementsAreRequests ==
    ASSUME NEW queue \in Seq(Request), NEW other \in Elements(queue)
    PROVE  other \in Request /\ other.type \in Commands
  <1>1. PICK i \in 1..Len(queue) : other = queue[i]
    BY DEF Elements
  <1>2. queue[i] \in Request
    BY ElementOfSeq
  <1>3. QED
    BY <1>1, <1>2 DEF Request

\* Every step is a step of StreamingWindow, or changes nothing it speaks of.
LEMMA StepRefines ==
    Base /\ Base' /\ QueueOK /\ [Next]_vars => [Window!Next]_(Window!vars)
  <1> SUFFICES ASSUME Base, Base', QueueOK, [Next]_vars
               PROVE  Window!Next \/ UNCHANGED Window!vars
    OBVIOUS
  <1>1. incoming \in Seq(Request) /\ outgoing \in Seq(Request) /\ received \in Nat
    BY DEF Base, TypeOK
  <1>2. ASSUME UNCHANGED <<incoming, outgoing, received>>
        PROVE  UNCHANGED Window!vars
    BY <1>2 DEF Window!vars
  <1>3. ASSUME incoming' = <<>>, outgoing' = <<>>, UNCHANGED received
        PROVE  Window!Forget
    BY <1>3 DEF Window!Forget
  <1>4. ASSUME received' = received + 1, UNCHANGED <<incoming, outgoing>>
        PROVE  Window!Ignore
    BY <1>4 DEF Window!Ignore
  <1>5. CASE SendRequest
    <2> DEFINE head == Head(incoming)
    <2>1. /\ incoming # <<>> /\ incoming' = Tail(incoming) /\ received' = received
          /\ head \in Request
          /\ head.type \in Greedy => outgoing = <<>>
          /\ outgoing' = IF head.type \in Realtime THEN outgoing
                                                    ELSE Append(outgoing, head)
      BY <1>5, LoopHead DEF SendRequest
    <2>2. /\ head \in Elements(incoming)
          /\ Elements(incoming') = Elements(incoming) \ {head}
          /\ \A other \in Elements(incoming) :
                 Back(head) /\ Back(other) => head.tag <= other.tag
      BY <2>1, <1>1, HeadLeaves DEF QueueOK
    <2>3. \A other \in Elements(incoming) : other.type \in Commands
      BY <1>1, ElementsAreRequests
    <2>4. head.type \in Commands
      BY <2>1 DEF Request
    <2>5. Window!InTurn(head)
      BY <2>2, <2>3, <2>4, SameTable DEF Window!InTurn, Back, Elements
    <2>6. Window!Fits(outgoing')
      <3>1. outgoing' \in Seq(Request) /\ used' \in Nat
        BY DEF Base, TypeOK
      <3>2. PICK rest \in [1..(Len(outgoing') + 1) -> Nat] :
                /\ rest[1] = used'
                /\ rest[Len(outgoing') + 1] = 0
                /\ \A i \in 1..Len(outgoing') :
                       rest[i] = PlannedSize(outgoing'[i]) + rest[i + 1]
                /\ \A i, j \in 1..(Len(outgoing') + 1) : i <= j => rest[j] <= rest[i]
                /\ used' <= Limit
        BY DEF Base, CountOK
      <3>3. QED
        BY <3>1, <3>2, CountedFits
    <2> HIDE DEF head
    <2>7. Window!Transmit
      BY <2>1, <2>2, <2>5, <2>6, <2>4, SameTable DEF Window!Transmit, Elements
    <2>8. QED
      BY <2>7 DEF Window!Next
  <1>6. CASE SendReset
    BY <1>6, <1>3 DEF SendReset, Window!Next
  <1>7. CASE ClientCommand
    <2>1. PICK type \in ClientCommands :
              \E size \in Sizes(type) : SendMessage(type, size)
      BY <1>7 DEF ClientCommand
    <2>2. PICK size \in Sizes(type) : SendMessage(type, size)
      BY <2>1
    <2>3. type \in Commands /\ size \in Nat /\ (type \notin Planned => size > 0)
      BY SizesAreNatural
    <2>4. CASE Enqueue(type, size)
      <3> DEFINE request == Arriving(type, size)
      <3>1. /\ incoming' = Placed(type, IF size > 0 THEN <<request>> ELSE <<>>)
            /\ received' = received + 1 /\ outgoing' = outgoing
            /\ size <= Limit
        BY <2>4 DEF Enqueue, Arrive
      <3>2. request = [type |-> type, size |-> size, tag |-> received']
        BY <3>1 DEF Arriving
      <3> HIDE DEF request
      <3>3. CASE size > 0
        <4>1. Elements(incoming') = IF Position(type) = "Reset"
                                    THEN {request}
                                    ELSE Elements(incoming) \cup {request}
          BY <3>1, <3>3, <2>3, PlacedJoins DEF request, Base
        <4>2. size \in 1..Limit /\ type \in Window!Commands
              /\ Window!Position(type) = Position(type)
          BY <3>1, <3>3, <2>3, LimitAssumption, SameTable
        <4>3. Window!Accept
          BY <3>1, <3>2, <4>1, <4>2 DEF Window!Accept, Elements
        <4>4. QED
          BY <4>3 DEF Window!Next
      <3>4. CASE ~(size > 0)
        <4>1. Position(type) # "Reset"
          BY <3>4, <2>3, CommandSets
        <4>2. incoming' = incoming
          BY <3>1, <3>4, <4>1, <2>3, PlacedJoins DEF request, Base
        <4>3. QED
          BY <3>1, <4>2, <1>4 DEF Window!Next
      <3>5. QED
        BY <3>3, <3>4
    <2>5. CASE Refuse(type) \/ PassThrough(type, size) \/ AssertionFails(type, size)
      <3>1. received' = received + 1 /\ UNCHANGED <<incoming, outgoing>>
        BY <2>5 DEF Refuse, PassThrough, AssertionFails, Arrive, queues
      <3>2. QED
        BY <3>1, <1>4 DEF Window!Next
    <2>6. QED
      BY <2>2, <2>4, <2>5 DEF SendMessage
  <1>8. CASE DeviceLine
    <2>1. PICK line \in Lines : ReceiveData(line)
      BY <1>8 DEF DeviceLine
    <2>2. CASE ReceiveReply(line) /\ outgoing # <<>>
      <3>1. outgoing' = Tail(outgoing) /\ UNCHANGED <<incoming, received>>
        BY <2>2 DEF ReceiveReply
      <3>2. Window!Answer
        BY <3>1, <2>2 DEF Window!Answer
      <3>3. QED
        BY <3>2 DEF Window!Next
    <2>3. CASE ~(ReceiveReply(line) /\ outgoing # <<>>)
      <3>1. UNCHANGED <<incoming, outgoing, received>>
        BY <2>1, <2>3 DEF ReceiveData, ReceiveEmpty, ReceiveStartup, ReceivePush,
              ReceiveMultiline, ReceiveAlarm, ReceiveReply, queues
      <3>2. QED
        BY <3>1, <1>2
    <2>4. QED
      BY <2>2, <2>3
  <1>9. CASE \/ EnableFlowControl \/ ParentReads \/ SerialReads
             \/ UNCHANGED vars
    BY <1>9, <1>2 DEF EnableFlowControl, ParentReads, SerialReads, vars, queues
  <1>10. CASE \E event \in UsbEvents : Reconnect(event)
    <2>1. /\ received' = received
          /\ \/ outgoing' = <<>> /\ incoming' = <<>>
             \/ UNCHANGED <<outgoing, incoming>>
      BY <1>10 DEF Reconnect
    <2>2. QED
      BY <2>1, <1>2, <1>3 DEF Window!Next
  <1>11. QED
    BY <1>5, <1>6, <1>7, <1>8, <1>9, <1>10 DEF Next, Loop

\* FlowControl implements StreamingWindow: whatever commands and lines come, the
\* device is streamed what it has room for, each request in its turn.
THEOREM ImplementsWindow == Spec => Streams
  <1>1. Init => QueueOK /\ Window!Init
    BY EmptyQueueOK DEF Init, QueueOK, Window!Init, Elements
  <1>2. QED
    BY <1>1, NextKeepsQueue, StepRefines, BaseInvariant, PTL
       DEF Spec, Streams, Window!Spec
=============================================================================
