--------------------------- MODULE PairingProofs ----------------------------
(***************************************************************************)
(* Theorems about DeviceSession: every answer goes to the request it       *)
(* answers, the first one identifies the machine, and only unplugging ends *)
(* the process.                                                            *)
(*                                                                         *)
(* AnswerProofs pairs lines and requests while the port is open.  PairInv  *)
(* follows what is left of a connection after the device is gone: its      *)
(* lines, its startup line and the requests that FlowControl keeps until   *)
(* it handles the removal.                                                 *)
(***************************************************************************)
EXTENDS AnswerProofs

-----------------------------------------------------------------------------
(* The premises.  A device that restarts by itself forgets requests, and a  *)
(* status report, taken for a startup line, cuts a reply of several lines   *)
(* in two; nothing in the code notices either.                              *)

NoRestarts      == MaxRestarts = 0
NoStatusReports == "GrblStatus" \notin ClientCommands
NothingShifts   == NoAlarms /\ NoSoftReset /\ NoRestarts /\ NoStatusReports

-----------------------------------------------------------------------------
(* The inductive invariant *)

Undisturbed == restarts = 0 /\ ~crossed

\* What FlowControl tells Machine.
Inits     == {m \in Flow!ParentMessages : m.kind = "InitGrbl"}
Responses == {m \in Flow!ParentMessages : m.kind = "ResponseReceived"}
Invalids  == {m \in Responses : m.type = "Invalid"}
Versions  == {m \in Responses : m.type = "GrblVersion"}
PairedMessages == {m \in Flow!ParentMessages :
                       m \in Responses /\ m \notin Invalids => Paired(m)}

\* The lines answer, in order, the oldest of the requests.
Answerable(lines, requests) == AlignedAs(lines, requests, <<>>, <<>>, TRUE)

\* Machine and FlowControl have done with a device that is gone.
Stale == state = "Disconnected" /\ toFlow = <<>> /\ Cleared

Waiting == Answerable(fromSerial, outgoing) \/ (Stale /\ ~Holds(fromSerial, StartupLines))

\* A startup line is the only thing its device has said, and nobody has asked it
\* for anything.
OnlyInit(queue) ==
    Head(queue) \in Inits /\ ~Holds(Tail(queue), Inits) /\ ~Holds(queue, Responses)
Silent ==
    /\ Cleared /\ state \in {"Connected", "Disconnected"} /\ toFlow \in {<<>>, Left}
    /\ ~Holds(toSerial, DataMessages) /\ input = <<>>
    /\ ~Holds(fromSerial, AnswerLines)
Unasked == Holds(toParent, Inits) => OnlyInit(toParent) /\ Silent

\* A removal that FlowControl has not handled is the last of the device.  A machine
\* that is connected nevertheless was brought back by a startup line behind it.
OneRemoval(queue) ==
    \A i, j \in 1..Len(queue) : queue[i] = Removed /\ queue[j] = Removed => i = j
LateRemoval == HasRemoved(toFlow) =>
    /\ events = <<>> /\ OneRemoval(toFlow)
    /\ state # "Disconnected" =>
           /\ Head(toFlow) = Removed /\ Cleared /\ ~Holds(fromSerial, AnswerLines)

\* An answer to nothing, from the rest of a line or for a request given up at the
\* removal, finds nobody connected, and its device has not started up.
InvalidEarly == Holds(toParent, Invalids) =>
    state \in {"Connected", "Disconnected"} /\ ~Holds(toParent, Inits)

\* From the request for the version to its answer, nothing else is answered.
FirstResponse(queue) ==
    \E i \in 1..Len(queue) :
        queue[i] \in Versions /\ \A j \in 1..(i - 1) : queue[j] \notin Responses
IsVersion(request) == request.type = "GrblVersion"
BeforeVersion ==
    \/ Cleared /\ Enables(toFlow, 1)
    \/ Cleared /\ Enables(toFlow, 2) /\ Head(toFlow) = Removed
    \/ Cleared /\ active /\ Asks(toFlow, 1)
    \/ sending /\ outgoing = <<>> /\ IsVersion(Head(incoming))
    \/ outgoing # <<>> /\ IsVersion(Head(outgoing))
FirstIsVersion == state = "Grbl" =>
    (BeforeVersion /\ ~Holds(toParent, Responses)) \/ FirstResponse(toParent)

PairInv ==
    /\ toParent \in Seq(PairedMessages)
    /\ Undisturbed /\ Waiting /\ Unasked /\ LateRemoval /\ InvalidEarly /\ FirstIsVersion

-----------------------------------------------------------------------------
(* Messages and lines *)

\* What FlowControl makes of a line, and of a request and its lines.
LEMMA ParentKinds ==
    /\ \A line \in Flow!Line :
           /\ Flow!InitGrbl(line) \in Inits
           /\ Flow!GrblPush(line) \in Flow!ParentMessages
           /\ Flow!GrblPush(line) \notin Inits \cup Responses
    /\ \A request \in Flow!Request \cup {Flow!NoRequest} : \A lines \in Seq(Flow!Line) :
           LET m == Flow!Response(request, lines) IN
           m \in Responses /\ m.type = request.type /\ m.tag = request.tag /\ m.lines = lines
    /\ \A m \in Inits : m \notin Responses
    /\ \A m \in Responses : m \notin Inits
    /\ \A m \in Versions : m \notin Invalids
    /\ \A m \in Flow!ParentMessages :
           /\ m \in Inits <=> m.kind = "InitGrbl"
           /\ m \in Responses <=> m.kind = "ResponseReceived"
           /\ m \notin Responses => m \in PairedMessages
           /\ m \in Invalids => m \in PairedMessages
  <1>1. /\ \A m \in Flow!ParentMessages :
               /\ m \in Inits <=> m.kind = "InitGrbl"
               /\ m \in Responses <=> m.kind = "ResponseReceived"
    BY DEF Inits, Responses
  <1>2. \A line \in Flow!Line :
            Flow!InitGrbl(line).kind = "InitGrbl" /\ Flow!GrblPush(line).kind = "GrblPushReceived"
    BY DEF Flow!InitGrbl, Flow!GrblPush
  <1>3. \A request : \A lines :
            LET m == Flow!Response(request, lines) IN
            /\ m.kind = "ResponseReceived" /\ m.type = request.type
            /\ m.tag = request.tag /\ m.lines = lines
    BY DEF Flow!Response
  <1>4. \A m \in Responses : m.kind = "ResponseReceived"
    BY DEF Responses
  <1>5. \A m \in Inits : m.kind = "InitGrbl"
    BY DEF Inits
  <1>6. \A m \in Versions : m.type = "GrblVersion"
    BY DEF Versions
  <1>7. \A m \in Invalids : m.type = "Invalid"
    BY DEF Invalids
  <1>8. \A m \in Flow!ParentMessages :
            (m \notin Responses => m \in PairedMessages) /\ (m \in Invalids => m \in PairedMessages)
    BY DEF PairedMessages
  <1>9. \A m \in Inits : m \notin Responses
    BY <1>4, <1>5
  <1>10. \A m \in Versions : m \notin Invalids
    BY <1>6, <1>7
  <1>11. \A line \in Flow!Line :
           /\ Flow!InitGrbl(line) \in Inits
           /\ Flow!GrblPush(line) \in Flow!ParentMessages
           /\ Flow!GrblPush(line) \notin Inits \cup Responses
    BY <1>1, <1>2, MessageTypes
  <1>12. \A request \in Flow!Request \cup {Flow!NoRequest} : \A lines \in Seq(Flow!Line) :
           LET m == Flow!Response(request, lines) IN
           m \in Responses /\ m.type = request.type /\ m.tag = request.tag /\ m.lines = lines
    BY <1>1, <1>3, MessageTypes
  <1>13. QED
    BY <1>1, <1>8, <1>9, <1>10, <1>11, <1>12

\* The queue to Machine, one message longer, and one shorter.
LEMMA ParentAppends ==
    ASSUME NEW T
    PROVE  \A s \in Seq(Flow!ParentMessages) : \A e \in Flow!ParentMessages :
               /\ Append(s, e) \in Seq(Flow!ParentMessages)
               /\ Holds(Append(s, e), T) <=> Holds(s, T) \/ e \in T
               /\ s # <<>> => /\ Head(Append(s, e)) = Head(s)
                              /\ Tail(Append(s, e)) = Append(Tail(s), e)
               /\ s = <<>> => Head(Append(s, e)) = e /\ Tail(Append(s, e)) = <<>>
  <1> SUFFICES ASSUME NEW s \in Seq(Flow!ParentMessages), NEW e \in Flow!ParentMessages
               PROVE  /\ Append(s, e) \in Seq(Flow!ParentMessages)
                      /\ Holds(Append(s, e), T) <=> Holds(s, T) \/ e \in T
                      /\ s # <<>> => /\ Head(Append(s, e)) = Head(s)
                                     /\ Tail(Append(s, e)) = Append(Tail(s), e)
                      /\ s = <<>> => Head(Append(s, e)) = e /\ Tail(Append(s, e)) = <<>>
    OBVIOUS
  <1>1. Append(s, e) \in Seq(Flow!ParentMessages)
    BY AppendIsSeq
  <1>2. Holds(Append(s, e), T) <=> Holds(s, T) \/ e \in T
    BY HoldsOfAppend
  <1>3. Append(s, e) = s \o <<e>> /\ <<e>> \in Seq(Flow!ParentMessages)
        /\ Head(<<e>>) = e /\ Tail(<<e>>) = <<>> /\ <<>> \o <<e>> = <<e>>
    BY QueueFacts DEF Queues
  <1>4. s # <<>> => Head(s \o <<e>>) = Head(s) /\ Tail(s \o <<e>>) = Tail(s) \o <<e>>
                    /\ Tail(s) \o <<e>> = Append(Tail(s), e)
    BY <1>3, QueueFacts DEF Queues
  <1>5. QED
    BY <1>1, <1>2, <1>3, <1>4

LEMMA ParentTails ==
    ASSUME NEW T
    PROVE  \A s \in Seq(Flow!ParentMessages) : s # <<>> =>
               /\ Head(s) \in Flow!ParentMessages /\ Tail(s) \in Seq(Flow!ParentMessages)
               /\ Holds(s, T) <=> Head(s) \in T \/ Holds(Tail(s), T)
  BY TailIsSeq, HoldsOfTail

-----------------------------------------------------------------------------
(* Lines that answer requests *)

\* Aligned lines answer their requests, whatever the device still owes.
LEMMA AlignedIsAnswerable ==
    ASSUME NEW lines, NEW requests, NEW in \in Seq(Flow!Request),
           NEW serial \in Seq(Flow!SerialMessages), NEW boots \in BOOLEAN,
           AlignedAs(lines, requests, in, serial, boots)
    PROVE  Answerable(lines, requests)
  <1>1. PICK before \in Seq(Flow!Line), after \in Seq(Flow!Line),
             answered \in Seq(Flow!Request), rest \in Seq(Flow!Request) :
               /\ lines = before \o after /\ requests = answered \o rest
               /\ AlignedBy(before, after, answered, rest, in, serial, boots)
    BY DEF AlignedAs
  <1>2. /\ Owed[<<>>] = <<>> /\ Sent[<<>>] = <<>> /\ SumSizes[<<>>] = 0
        /\ SumSizes[rest] \in Nat /\ ~Holds(<<>>, AnswerLines)
    BY OwedRequests, Gatherings, Sums, HoldsOfEmpty DEF Gathers
  <1>3. /\ ~Holds(before, StartupLines)
        /\ after # <<>> => Head(after) \in StartupLines
        /\ Tags[answered] = Replies[before]
        /\ TextsFit(before, answered \o rest)
        /\ after # <<>> /\ rest = <<>> => ~Holds(after, AnswerLines)
    BY <1>1 DEF AlignedBy
  <1>4. AlignedBy(before, after, answered, rest, <<>>, <<>>, TRUE)
    BY <1>2, <1>3 DEF AlignedBy
  <1>5. QED
    BY <1>1, <1>4 DEF AlignedAs, Answerable

\* No line answers where nothing was asked, and where no line answers anything may
\* have been asked.
LEMMA NothingAsked ==
    \A lines \in Seq(Flow!Line) : Answerable(lines, <<>>) <=> ~Holds(lines, AnswerLines)
  <1>0. <<>> \in Seq(Flow!Request) /\ <<>> \in Seq(Flow!SerialMessages) /\ TRUE \in BOOLEAN
    BY EmptySeq
  <1>1. ASSUME NEW lines \in Seq(Flow!Line), Answerable(lines, <<>>)
        PROVE  ~Holds(lines, AnswerLines)
    <2>1. PICK before \in Seq(Flow!Line), after \in Seq(Flow!Line),
               answered \in Seq(Flow!Request), rest \in Seq(Flow!Request) :
                 /\ lines = before \o after /\ <<>> = answered \o rest
                 /\ AlignedBy(before, after, answered, rest, <<>>, <<>>, TRUE)
      BY <1>1 DEF AlignedAs, Answerable
    <2>2. answered = <<>> /\ rest = <<>>
      BY <2>1, RequestQueues DEF Queues
    <2>3. ~Holds(before, ReplyLines)
      BY <2>1, <2>2, RepliesAndTags DEF AlignedBy
    <2>4. ~Holds(before, TextLines)
      BY <2>1 DEF AlignedBy, TextsFit, Begins, Holds
    <2>5. ~Holds(after, AnswerLines)
      BY <2>1, <2>2 DEF AlignedBy
    <2>6. ~Holds(before, AnswerLines)
      BY <2>3, <2>4 DEF Holds, AnswerLines
    <2>7. QED
      BY <2>1, <2>5, <2>6, HoldsOfConcat
  <1>2. ASSUME NEW lines \in Seq(Flow!Line), ~Holds(lines, AnswerLines)
        PROVE  Answerable(lines, <<>>)
    <2>1. PICK before \in Seq(Flow!Line), after \in Seq(Flow!Line) :
                 /\ lines = before \o after /\ ~Holds(before, StartupLines)
                 /\ after # <<>> => Head(after) \in StartupLines
      BY SplitBefore
    <2>2. ~Holds(before, AnswerLines) /\ ~Holds(after, AnswerLines)
      BY <1>2, <2>1, HoldsOfConcat
    <2>3. Owed[<<>>] = <<>> /\ Sent[<<>>] = <<>> /\ SumSizes[<<>>] = 0
      BY OwedRequests, Gatherings, Sums DEF Gathers
    <2>4. \A b \in BOOLEAN : AlignedAs(before \o after, <<>>, <<>>, <<>>, b)
      BY <1>0, <2>1, <2>2, <2>3, AlignedUnasked
    <2>5. QED
      BY <2>1, <2>4 DEF Answerable
  <1>3. QED
    BY <1>1, <1>2

\* FlowControl reads a line of them, or sends a request more.
LEMMA AnswerableReads ==
    ASSUME NEW lines \in Seq(Flow!Line), NEW requests \in Seq(Flow!Request),
           Answerable(lines, requests), lines # <<>>
    PROVE  /\ Head(lines) \in ReplyLines =>
                  /\ requests # <<>> /\ Head(lines).tag = Head(requests).tag
                  /\ Answerable(Tail(lines), Tail(requests))
           /\ Head(lines) \notin ReplyLines /\ (Head(lines) \in StartupLines => requests = <<>>)
                  => Answerable(Tail(lines), requests)
           /\ Head(lines) \in TextLines => Begins(Head(lines), requests)
  <1>0. PICK in \in Seq(Flow!Request), serial \in Seq(Flow!SerialMessages) :
            in = <<>> /\ serial = <<>>
    BY EmptySeq
  <1>1. PICK b \in BOOLEAN : b = TRUE
    OBVIOUS
  <1>2. AlignedAs(lines, requests, in, serial, b)
    BY <1>0, <1>1 DEF Answerable
  <1>3. \A l, r : AlignedAs(l, r, in, serial, b) => Answerable(l, r)
    BY <1>0, <1>1 DEF Answerable
  <1> HIDE DEF Answerable
  <1>4. Head(lines) \in ReplyLines =>
                  /\ requests # <<>> /\ Head(lines).tag = Head(requests).tag
                  /\ Answerable(Tail(lines), Tail(requests))
    <2> SUFFICES ASSUME Head(lines) \in ReplyLines
                 PROVE  /\ requests # <<>> /\ Head(lines).tag = Head(requests).tag
                        /\ AlignedAs(Tail(lines), Tail(requests), in, serial, b)
      BY <1>3
    <2>1. QED
      BY <1>2, AlignedReadReply
  <1>5. Head(lines) \notin ReplyLines /\ Head(lines) \notin StartupLines =>
            /\ Answerable(Tail(lines), requests)
            /\ Head(lines) \in TextLines => Begins(Head(lines), requests)
    <2> SUFFICES ASSUME Head(lines) \notin ReplyLines, Head(lines) \notin StartupLines
                 PROVE  /\ AlignedAs(Tail(lines), requests, in, serial, b)
                        /\ Head(lines) \in TextLines => Begins(Head(lines), requests)
      BY <1>3
    <2>1. QED
      BY <1>2, AlignedReadOther
  <1>6. Head(lines) \in StartupLines /\ requests = <<>> => Answerable(Tail(lines), requests)
    <2> SUFFICES ASSUME Head(lines) \in StartupLines, requests = <<>>
                 PROVE  AlignedAs(Tail(lines), <<>>, in, serial, b)
      BY <1>3
    <2>1. AlignedAs(lines, <<>>, in, serial, b)
      BY <1>2
    <2>2. QED
      BY <2>1, AlignedReadStartup
  <1>7. Head(lines) \in TextLines => Head(lines) \notin ReplyLines /\ Head(lines) \notin StartupLines
    BY DEF TextLines, ReplyLines, StartupLines, Startup
  <1>8. QED
    BY <1>4, <1>5, <1>6, <1>7

LEMMA AnswerableSends ==
    ASSUME NEW lines, NEW requests \in Seq(Flow!Request), Answerable(lines, requests),
           NEW r \in CalmRequests
    PROVE  Answerable(lines, IF Ordinary(r) THEN Append(requests, r) ELSE requests)
  <1>0. <<>> \in Seq(Flow!Request) /\ <<>> \in Seq(Flow!SerialMessages)
        /\ Flow!Data(r) \in Flow!SerialMessages
    BY EmptySeq, MessageTypes DEF CalmRequests
  <1>1. PICK b \in BOOLEAN : b = TRUE
    OBVIOUS
  <1>2. AlignedAs(lines, requests, <<>>, <<>>, b)
    BY <1>1 DEF Answerable
  <1> DEFINE longer == IF Ordinary(r) THEN Append(requests, r) ELSE requests
             serial == Append(<<>>, Flow!Data(r))
  <1>3. serial \in Seq(Flow!SerialMessages)
    BY <1>0, AppendIsSeq
  <1>4. longer = IF Ordinary(r) THEN Append(requests, r) ELSE requests
    OBVIOUS
  <1>5. serial = Append(<<>>, Flow!Data(r))
    OBVIOUS
  <1> HIDE DEF longer, serial
  <1>6. AlignedAs(lines, longer, <<>>, Append(<<>>, Flow!Data(r)), b)
    BY <1>0, <1>2, <1>4, AlignedSends
  <1>7. AlignedAs(lines, longer, <<>>, serial, b)
    BY <1>5, <1>6
  <1>8. Answerable(lines, longer)
    BY <1>0, <1>3, <1>7, AlignedIsAnswerable
  <1>9. QED
    BY <1>8 DEF longer

-----------------------------------------------------------------------------
(* The line that FlowControl reads *)

\* What the invariants say together.
Steady == Types /\ Loops /\ CalmTypes /\ UsbInv /\ AnswerInv /\ PairInv

\* A startup line starts the session; other lines are passed on, or kept for the end
\* of their reply.
ReadsStartup(line) ==
    /\ line \in StartupLines /\ Fresh
    /\ toParent' = Append(toParent, Flow!InitGrbl(line))
    /\ UNCHANGED <<incoming, outgoing, used, sending>>
ReadsOther(line) ==
    /\ line \notin StartupLines /\ line \notin ReplyLines
    /\ toParent' = toParent \/ toParent' = Append(toParent, Flow!GrblPush(line))
    /\ UNCHANGED <<incoming, outgoing, used, sending>>

\* A reply to nothing, and the reply to the oldest request.
ReadsUnasked(line) ==
    /\ line \notin StartupLines
    /\ Fresh \/ (Stale /\ line \in AnswerLines)
    /\ Cleared'
    /\ \E m \in Invalids : toParent' = Append(toParent, m)
ReadsAnswer(line) ==
    /\ line \in ReplyLines
    /\ outgoing # <<>> /\ line.tag = Head(outgoing).tag /\ outgoing' = Tail(outgoing)
    /\ \E m \in Responses \cap PairedMessages :
           m.type = Head(outgoing).type /\ m \notin Invalids /\ toParent' = Append(toParent, m)

\* The lines on their way are none of the kinds the premises exclude.
LEMMA QuietLines ==
    ASSUME NoStatusReports, CalmTypes, fromSerial # <<>>
    PROVE  LET line == Head(fromSerial) IN
           /\ line \in Flow!Line /\ line \in CalmLines
           /\ line.kind \in {"grbl", "oldGrbl", "push", "reply", "text"}
           /\ line \in StartupLines <=> line.kind \in {"grbl", "oldGrbl"}
           /\ line \in ReplyLines <=> line.kind = "reply"
           /\ line.kind = "text" <=> line \in TextLines \/ line \in GarbledLines
           /\ line \in AnswerLines <=> line \in ReplyLines \/ line \in TextLines
           /\ ~CutsReply(line) \/ (Startup(line) /\ restarts > 0)
  <1> DEFINE line == Head(fromSerial)
  <1>1. line \in CalmLines /\ line \in Flow!Line
    BY TailIsSeq DEF CalmTypes, CalmLines
  <1>2. line.kind # "status" /\ line.kind # "alarm"
    BY <1>1 DEF CalmLines, SentTypes, NoStatusReports
  <1>3. line.kind \in {"grbl", "oldGrbl", "push", "reply", "text"}
    BY <1>1, <1>2 DEF CalmLines, Flow!Line, Flow!LineKinds
  <1>4. line.tag > 0 \/ line.tag = 0
    BY <1>1 DEF Flow!Line
  <1>5. QED
    BY <1>1, <1>2, <1>3, <1>4 DEF StartupLines, Startup, ReplyLines, TextLines, GarbledLines,
       AnswerLines, CutsReply

LEMMA ReadsLine ==
    ASSUME NoStatusReports, Steady, FlowReadsSerial
    PROVE  LET line == Head(fromSerial) IN
           ReadsStartup(line) \/ ReadsOther(line) \/ ReadsUnasked(line) \/ ReadsAnswer(line)
  <1> DEFINE line == Head(fromSerial)
  <1>1. /\ fromSerial # <<>> /\ fromSerial \in Seq(Flow!Line) /\ Flow!ReceiveData(line)
        /\ UNCHANGED <<state, toFlow>>
    BY DEF FlowReadsSerial, machineVars, Steady, Types, SocketTypes
  <1>2. /\ line \in Flow!Line /\ line \in CalmLines
        /\ line.kind \in {"grbl", "oldGrbl", "push", "reply", "text"}
        /\ line \in StartupLines <=> line.kind \in {"grbl", "oldGrbl"}
        /\ line \in ReplyLines <=> line.kind = "reply"
        /\ line.kind = "text" <=> line \in TextLines \/ line \in GarbledLines
        /\ line \in AnswerLines <=> line \in ReplyLines \/ line \in TextLines
    BY <1>1, QuietLines DEF Steady
  <1>3. /\ Flow!Class(line) \notin {"Empty", "Alarm"}
        /\ Flow!Class(line) = "Startup" <=> line.kind \in {"grbl", "oldGrbl"}
        /\ Flow!Class(line) \in {"Push", "Multiline"} => line.kind # "reply"
        /\ Flow!Class(line) \in {"Response", "MultilineDone", "Unknown"}
               => line.kind \in {"reply", "text"} /\ (line.kind = "text" => mode # "Help")
    BY SMT, <1>2 DEF Flow!Class
  <1>4. line \in StartupLines \/ line \in GarbledLines => Fresh
    <2>1. /\ line \in StartupLines => Holds(fromSerial, StartupLines)
          /\ line \in GarbledLines => Holds(fromSerial, GarbledLines)
      BY <1>1, HoldsOfTail
    <2>2. QED
      BY <2>1 DEF Steady, PairInv, Undisturbed, AnswerInv, FirstInv, StartupIsFresh, GarbledIsFresh
  <1>5. CASE Flow!ReceiveStartup(line)
    BY <1>2, <1>3, <1>4, <1>5 DEF Flow!ReceiveStartup, ReadsStartup, Flow!queues
  <1>6. CASE Flow!ReceivePush(line)
    BY <1>2, <1>3, <1>6 DEF Flow!ReceivePush, ReadsOther, Flow!queues
  <1>7. CASE Flow!ReceiveMultiline(line)
    BY <1>2, <1>3, <1>7 DEF Flow!ReceiveMultiline, ReadsOther, Flow!queues, Flow!sockets
  <1>8. CASE Flow!ReceiveReply(line)
    <2> DEFINE answered == IF outgoing = <<>> THEN Flow!NoRequest ELSE Head(outgoing)
               lines == Flow!Buffered(line)
               m == Flow!Response(answered, lines)
    <2>1. /\ outgoing' = IF outgoing = <<>> THEN <<>> ELSE Tail(outgoing)
          /\ used' = used - Flow!Released(answered)
          /\ toParent' = Append(toParent, m)
          /\ UNCHANGED incoming /\ sending \notin {TRUE}
          /\ sending' = ((alarm' => FALSE) /\ Flow!CanSend')
      BY <1>8 DEF Flow!ReceiveReply, Flow!Ready, Flow!Run
    <2>2. /\ line.kind \in {"reply", "text"} /\ (line.kind = "text" => mode # "Help")
          /\ line \notin StartupLines
      BY <1>2, <1>3, <1>8 DEF Flow!ReceiveReply
    <2>3. lines \in Seq(Flow!Line) /\ lines[Len(lines)] = line
      <3>1. /\ <<line>> \in Seq(Flow!Line) /\ Len(<<line>>) = 1 /\ <<line>>[1] = line
        BY <1>2
      <3>2. buffer \in Seq(Flow!Line)
        BY DEF Steady, Types, FlowTypes
      <3>3. /\ Append(buffer, line) \in Seq(Flow!Line)
            /\ Len(Append(buffer, line)) = Len(buffer) + 1
            /\ Append(buffer, line)[Len(buffer) + 1] = line
        BY <1>2, <3>2, AppendIsSeq
      <3>4. QED
        BY <3>1, <3>3 DEF Flow!Buffered
    <2>4. outgoing # <<>> => /\ answered \in CalmRequests /\ answered \in Flow!Request
                             /\ answered = Head(outgoing) /\ answered.type # "Invalid"
      <3>1. outgoing # <<>> => Head(outgoing) \in CalmRequests
        BY TailIsSeq DEF Steady, CalmTypes
      <3>2. "Invalid" \notin Commands
        BY DEF Commands, Greedy, Multiline, Realtime, Planned, ClearsAlarm
      <3>3. QED
        BY <3>1, <3>2, RealtimeCounts
    <2>5. m \in Responses /\ m.type = answered.type /\ m.tag = answered.tag /\ m.lines = lines
      BY <2>3, <2>4, ParentKinds
    <2> HIDE DEF m, lines, answered
    <2>6. CASE Answerable(fromSerial, outgoing) /\ line \notin GarbledLines
      <3>1. line \notin TextLines
        <4>1. line \in TextLines => outgoing # <<>> /\ Head(outgoing).type \in Multiline
          BY <1>1, <2>6, AnswerableReads DEF Steady, Types, FlowTypes, Begins
        <4>2. outgoing # <<>> /\ Head(outgoing).type \in Multiline => mode = "Help"
          BY DEF Steady, PairInv, Undisturbed, AnswerInv, HelpMode
        <4>3. QED
          BY <1>2, <2>2, <4>1, <4>2
      <3>2. line \in ReplyLines
        BY <1>2, <2>2, <2>6, <3>1
      <3>3. outgoing # <<>> /\ line.tag = Head(outgoing).tag
        BY <1>1, <2>6, <3>2, AnswerableReads DEF Steady, Types, FlowTypes
      <3>4. Paired(m)
        BY <2>3, <2>4, <2>5, <3>3 DEF Paired
      <3>5. m \in PairedMessages /\ m \notin Invalids
        BY <2>4, <2>5, <3>3, <3>4 DEF PairedMessages, Invalids, Responses
      <3>6. QED
        BY <2>1, <2>4, <2>5, <3>2, <3>3, <3>5 DEF ReadsAnswer
    <2>7. CASE line \in GarbledLines \/ ~Answerable(fromSerial, outgoing)
      <3>1. Fresh \/ (Stale /\ line \in AnswerLines)
        BY <1>2, <1>4, <2>2, <2>7 DEF Steady, PairInv, Waiting
      <3>2. Cleared
        BY <3>1 DEF Fresh, Stale
      <3>3. answered = Flow!NoRequest
        BY <3>2 DEF answered, Cleared
      <3>4. m \in Invalids
        BY <2>5, <3>3 DEF Invalids, Flow!NoRequest
      <3>5. Cleared'
        <4>1. Flow!Released(Flow!NoRequest) = 0
          BY DEF Flow!Released, Flow!PlannedSize, Flow!NoRequest, Flow!Planned
        <4>2. incoming' = <<>> /\ outgoing' = <<>> /\ used' = 0
          BY <2>1, <3>2, <3>3, <4>1 DEF Cleared
        <4>3. ~Flow!CanSend'
          BY <4>2 DEF Flow!CanSend
        <4>4. QED
          BY <2>1, <4>2, <4>3 DEF Cleared
      <3>6. QED
        BY <2>1, <2>2, <3>1, <3>4, <3>5 DEF ReadsUnasked
    <2>8. QED
      BY <2>6, <2>7
  <1>9. QED
    BY <1>1, <1>3, <1>5, <1>6, <1>7, <1>8 DEF Flow!ReceiveData, Flow!ReceiveEmpty, Flow!ReceiveAlarm

-----------------------------------------------------------------------------
(* The message of Machine that FlowControl handles, and the request it sends *)

HandlesEnable(msg) ==
    /\ msg = Enable /\ active'
    /\ UNCHANGED <<incoming, outgoing, used, sending, toSerial>>
HandlesCommand(msg) ==
    /\ msg \in Sends /\ active /\ active'
    /\ Flow!Enqueue(msg.type, msg.size)
    /\ UNCHANGED <<outgoing, used, toSerial>>
HandlesEvent(msg) ==
    /\ msg = Added \/ msg = Removed
    /\ Cleared'
    /\ toSerial' = Append(toSerial, msg)

LEMMA HandlesMessage ==
    ASSUME Steady, ~aborted, ~aborted', FlowReadsMachine
    PROVE  LET msg == Head(toFlow) IN
           /\ toFlow # <<>> /\ toFlow' = Tail(toFlow) /\ msg \in FlowMessages /\ ~sending
           /\ UNCHANGED <<state, toParent, fromSerial, input, events>>
           /\ HandlesEnable(msg) \/ HandlesCommand(msg) \/ HandlesEvent(msg)
  <1> DEFINE msg == Head(toFlow)
  <1>1. /\ UNCHANGED <<state, fromSerial, input, events>>
        /\ toFlow # <<>> /\ toFlow \in Seq(FlowMessages) /\ msg \in FlowMessages
        /\ FlowHandles(msg) /\ toFlow' = Tail(toFlow)
    BY TailIsSeq DEF FlowReadsMachine, machineVars, Steady, Types, SocketTypes
  <1>2. UNCHANGED toParent /\ ~sending
    BY <1>1 DEF FlowHandles, Flow!SendMessage, Flow!Refuse, Flow!PassThrough, Flow!AssertionFails,
       Flow!Enqueue, Flow!EnableFlowControl, Flow!Reconnect, Flow!sockets, Flow!Accepts, Flow!Ready,
       Flow!Queues
  <1>3. CASE msg.kind = "Send"
    <2>1. active
      <3>1. msg \in Sends /\ msg # Enable
        BY <1>1, <1>3 DEF Sends, Enable
      <3>2. Holds(toFlow, Sends)
        BY <1>1, <3>1, HoldsOfTail
      <3>3. ~EnablesBeforeSends(toFlow)
        BY <1>1, <3>1, EnableFacts
      <3>4. FirstInv /\ EnabledFirst
        BY DEF Steady, AnswerInv
      <3>5. QED
        BY <3>2, <3>3, <3>4 DEF EnabledFirst
    <2>2. ~alarm
      BY DEF Steady, UsbInv, Basics
    <2>3. Flow!SendMessage(msg.type, msg.size)
      BY <1>1, <1>3 DEF FlowHandles, Flow!UsbEvents
    <2>4. Flow!Enqueue(msg.type, msg.size)
      BY <2>1, <2>2, <2>3 DEF Flow!SendMessage, Flow!Refuse, Flow!PassThrough, Flow!AssertionFails
    <2>5. UNCHANGED <<active, outgoing, used, toSerial>>
      BY <2>4 DEF Flow!Enqueue, Flow!sockets
    <2>6. HandlesCommand(msg)
      BY <1>1, <1>3, <2>1, <2>4, <2>5 DEF HandlesCommand, Sends
    <2>7. QED
      BY <1>1, <1>2, <2>6
  <1>4. CASE msg.kind = "EnableFlowControl"
    <2>1. Flow!EnableFlowControl /\ msg = Enable
      BY <1>1, <1>4, MessageKinds DEF FlowHandles, Flow!UsbEvents
    <2>2. HandlesEnable(msg)
      BY <2>1 DEF Flow!EnableFlowControl, Flow!queues, Flow!sockets, HandlesEnable
    <2>3. QED
      BY <1>1, <1>2, <2>2
  <1>5. CASE msg.kind \in Flow!UsbEvents
    <2>1. Flow!Reconnect(msg.kind)
      BY <1>1, <1>5 DEF FlowHandles, Flow!UsbEvents
    <2>2. msg = Added \/ msg = Removed
      BY <1>1, <1>5, MessageKinds DEF Flow!UsbEvents
    <2>3. Cleared'
      BY <1>2, <2>1 DEF Flow!Reconnect, Steady, UsbInv, Basics, Cleared
    <2>4. toSerial' = Append(toSerial, msg)
      BY <2>1, <2>2, MessageKinds DEF Flow!Reconnect
    <2>5. HandlesEvent(msg)
      BY <2>2, <2>3, <2>4 DEF HandlesEvent
    <2>6. QED
      BY <1>1, <1>2, <2>5
  <1>6. QED
    BY <1>1, <1>3, <1>4, <1>5 DEF FlowHandles

LEMMA SendsRequest ==
    ASSUME Types, Loops, CalmTypes, FlowSends
    PROVE  LET r == Head(incoming) IN
           /\ sending /\ incoming # <<>> /\ r \in CalmRequests
           /\ outgoing' = IF Ordinary(r) THEN Append(outgoing, r) ELSE outgoing
           /\ UNCHANGED <<state, toFlow, toParent, fromSerial, input, events>>
  <1> DEFINE r == Head(incoming)
  <1>1. /\ UNCHANGED <<state, toFlow, fromSerial, input, events>>
        /\ sending /\ Flow!CanSend /\ incoming # <<>>
    BY DEF FlowSends, machineVars, Loops, Flow!CanSend, Flow!Loop, Flow!SendRequest,
       Flow!SendReset
  <1>2. r \in CalmRequests
    BY <1>1, TailIsSeq DEF CalmTypes
  <1>3. Flow!Position(r.type) # "Reset"
    <2>1. r.type # "GrblSoftReset"
      BY <1>2 DEF CalmRequests
    <2>2. QED
      BY SMT, <2>1 DEF Flow!Position
  <1>4. Flow!SendRequest
    BY <1>3 DEF FlowSends, Flow!Loop, Flow!SendReset
  <1>5. r.type \in Flow!Realtime <=> ~Ordinary(r)
    BY <1>2, RealtimeCounts, SameTables
  <1>6. /\ outgoing' = IF r.type \in Flow!Realtime THEN outgoing ELSE Append(outgoing, r)
        /\ UNCHANGED toParent
    BY <1>4 DEF Flow!SendRequest
  <1>7. QED
    BY <1>1, <1>2, <1>5, <1>6

\* What the other steps leave alone.
LEMMA Frames ==
    /\ MachineReadsEvent =>
           /\ events # <<>> /\ events' = Tail(events)
           /\ UNCHANGED <<incoming, outgoing, used, sending, active, toParent, toSerial,
                          fromSerial, input, restarts, crossed>>
    /\ MachineReadsFlow =>
           /\ toParent # <<>> /\ toParent' = Tail(toParent)
           /\ UNCHANGED <<incoming, outgoing, used, sending, active, events, toSerial, fromSerial,
                          input, restarts, crossed>>
    /\ ClientSends =>
           /\ ~Mach!Ready(state) => UNCHANGED toFlow
           /\ UNCHANGED <<incoming, outgoing, used, sending, active, events, toParent, toSerial,
                          fromSerial, input, state, restarts, crossed>>
    /\ ContextReads =>
           UNCHANGED <<incoming, outgoing, used, sending, active, events, toParent, toSerial,
                       fromSerial, input, state, toFlow, restarts, crossed>>
    /\ Scan =>
           UNCHANGED <<incoming, outgoing, used, sending, active, toParent, toSerial,
                       fromSerial, input, state, toFlow, restarts, crossed>>
    /\ SerialReadsFlow =>
           /\ toSerial # <<>> /\ toSerial' = Tail(toSerial)
           /\ UNCHANGED <<incoming, outgoing, used, sending, active, events, toParent,
                          fromSerial, state, toFlow, restarts, crossed>>
    /\ Device =>
           UNCHANGED <<incoming, outgoing, used, sending, active, events, toParent, toSerial,
                       state, toFlow, crossed, port>>
    /\ Plug \/ Unplug =>
           /\ UNCHANGED <<incoming, outgoing, used, sending, active, events, toParent, toSerial,
                          fromSerial, state, toFlow, restarts, crossed>>
           /\ input' = input \/ input' = <<>>
    /\ UNCHANGED vars =>
           UNCHANGED <<incoming, outgoing, used, sending, active, events, toParent, toSerial,
                       fromSerial, input, state, toFlow, restarts, crossed>>
  <1>1. MachineReadsEvent =>
           /\ events # <<>> /\ events' = Tail(events)
           /\ UNCHANGED <<incoming, outgoing, used, sending, active, toParent, toSerial,
                          fromSerial, input, restarts, crossed>>
    BY DEF MachineReadsEvent, flowVars, linkVars, deviceVars
  <1>2. MachineReadsFlow =>
           /\ toParent # <<>> /\ toParent' = Tail(toParent)
           /\ UNCHANGED <<incoming, outgoing, used, sending, active, events, toSerial, fromSerial,
                          input, restarts, crossed>>
    BY DEF MachineReadsFlow, flowVars, linkVars, deviceVars
  <1>3. ClientSends =>
           /\ ~Mach!Ready(state) => UNCHANGED toFlow
           /\ UNCHANGED <<incoming, outgoing, used, sending, active, events, toParent, toSerial,
                          fromSerial, input, state, restarts, crossed>>
    BY DEF ClientSends, Mach!ForwardGrbl, Mach!Forwards, flowVars, linkVars, deviceVars
  <1>4. ContextReads =>
           UNCHANGED <<incoming, outgoing, used, sending, active, events, toParent, toSerial,
                       fromSerial, input, state, toFlow, restarts, crossed>>
    BY DEF ContextReads, flowVars, machineVars, deviceVars
  <1>5. Scan =>
           UNCHANGED <<incoming, outgoing, used, sending, active, toParent, toSerial,
                       fromSerial, input, state, toFlow, restarts, crossed>>
    BY DEF Scan, flowVars, machineVars, deviceVars
  <1>6. SerialReadsFlow =>
           /\ toSerial # <<>> /\ toSerial' = Tail(toSerial)
           /\ UNCHANGED <<incoming, outgoing, used, sending, active, events, toParent,
                          fromSerial, state, toFlow, restarts, crossed>>
    BY DEF SerialReadsFlow, SerialHandles, Link!Transmit, Link!Connect, Link!Disconnect,
       flowVars, machineVars
  <1>7. Device =>
           UNCHANGED <<incoming, outgoing, used, sending, active, events, toParent, toSerial,
                       state, toFlow, crossed, port>>
    BY DEF Device, DeviceBoots, DeviceRestarts, DeviceReports,
       DeviceObeys, DeviceStartsReply, DeviceReplies, DeviceSpeaks, Prints, Link!Flush,
       flowVars, machineVars, linkVars
  <1>8. Plug \/ Unplug =>
           /\ UNCHANGED <<incoming, outgoing, used, sending, active, events, toParent, toSerial,
                          fromSerial, state, toFlow, restarts, crossed>>
           /\ input' = input \/ input' = <<>>
    BY DEF Plug, Unplug, Link!Lose, flowVars, machineVars
  <1>9. UNCHANGED vars =>
           UNCHANGED <<incoming, outgoing, used, sending, active, events, toParent, toSerial,
                       fromSerial, input, state, toFlow, restarts, crossed>>
    BY DEF vars, flowVars, machineVars, deviceVars
  <1>10. QED
    BY <1>1, <1>2, <1>3, <1>4, <1>5, <1>6, <1>7, <1>8, <1>9

\* Machine's answer to a USB event and to a message of FlowControl.
LEMMA HandlesUsb ==
    ASSUME Types, MachineReadsEvent
    PROVE  /\ Head(events) \in {Added, Removed}
           /\ toFlow' = Append(toFlow, Head(events)) /\ toFlow' # <<>>
           /\ Head(events) = Added => state' = "Connected"
           /\ Head(events) = Removed => state' = "Disconnected"
  <1>1. Head(events) \in {Added, Removed}
    BY TailIsSeq DEF MachineReadsEvent, Types, SocketTypes
  <1>2. /\ toFlow' = Append(toFlow, Head(events))
        /\ Head(events) = Added => state' = "Connected"
        /\ Head(events) = Removed => state' = "Disconnected"
    BY <1>1 DEF MachineReadsEvent, Mach!HandleContext, Mach!UsbDeviceAdded,
       Mach!UsbDeviceRemoved, Added, Removed
  <1>3. toFlow' # <<>>
    BY <1>1, <1>2, MessageKinds, AppendIsSeq DEF Types, SocketTypes
  <1>4. QED
    BY <1>1, <1>2, <1>3

LEMMA HandlesParent ==
    ASSUME Types, MachineReadsFlow
    PROVE  LET m == Head(toParent) IN
           /\ m \in Flow!ParentMessages
           /\ \/ m \in Inits /\ state' = "Grbl" /\ toFlow' = toFlow \o Mach!EnableAndAsk
              \/ m \in Responses /\ state = "Grbl" /\ state' = "Identified" /\ UNCHANGED toFlow
              \/ /\ UNCHANGED <<state, toFlow>>
                 /\ m \in Responses => state # "Grbl"
  <1> DEFINE m == Head(toParent)
  <1>1. m \in Flow!ParentMessages /\ Mach!HandleFlow(m)
    BY ParentTails DEF MachineReadsFlow, Types, SocketTypes
  <1>2. /\ m \in Inits <=> m.kind = "InitGrbl"
        /\ m \in Responses <=> m.kind = "ResponseReceived"
    BY <1>1, ParentKinds
  <1>3. QED
    BY <1>1, <1>2 DEF Mach!HandleFlow, Mach!InitSupported, Mach!InitUnsupported, Mach!PushReceived,
       Mach!DropResponse, Mach!ResponseVersion, Mach!Response, Mach!ResponseAborts, Mach!Drops,
       Mach!vars

-----------------------------------------------------------------------------
(* No restart and no status report: nothing cuts a reply short *)

LEMMA UndisturbedStep ==
    ASSUME NoRestarts, NoStatusReports, Steady, [Next]_vars
    PROVE  Undisturbed'
  <1>0. restarts = 0 /\ ~crossed
    BY DEF Steady, PairInv, Undisturbed
  <1>1. ~DeviceRestarts
    BY <1>0 DEF NoRestarts, DeviceRestarts
  <1>2. CASE Device
    <2>1. crossed' = crossed
      BY <1>2, Frames
    <2>2. restarts' = restarts
      BY <1>1, <1>2 DEF Device, DeviceBoots, DeviceReports, DeviceObeys, DeviceStartsReply,
         DeviceReplies, DeviceSpeaks
    <2>3. QED
      BY <1>0, <2>1, <2>2 DEF Undisturbed
  <1>3. CASE FlowReadsMachine
    BY <1>0, <1>3 DEF Undisturbed, FlowReadsMachine, deviceVars
  <1>4. CASE FlowReadsSerial
    <2>1. fromSerial # <<>> /\ restarts' = restarts
          /\ crossed' = (crossed \/ (outgoing # <<>> /\ CutsReply(Head(fromSerial))))
      BY <1>4 DEF FlowReadsSerial, deviceVars
    <2>2. ~CutsReply(Head(fromSerial))
      BY <1>0, <2>1, QuietLines DEF Steady
    <2>3. QED
      BY <1>0, <2>1, <2>2 DEF Undisturbed
  <1>5. CASE FlowSends
    BY <1>0, <1>5 DEF Undisturbed, FlowSends, deviceVars
  <1>6. CASE \/ MachineReadsEvent \/ MachineReadsFlow \/ SerialReadsFlow \/ ClientSends
             \/ ContextReads \/ Scan \/ Plug \/ Unplug \/ UNCHANGED vars
    <2>1. UNCHANGED <<restarts, crossed>>
      BY <1>6, Frames
    <2>2. QED
      BY <1>0, <2>1 DEF Undisturbed
  <1>7. QED
    BY <1>2, <1>3, <1>4, <1>5, <1>6 DEF Next, Actors

-----------------------------------------------------------------------------
(* Every answer is paired with its request *)

LEMMA PairedStep ==
    ASSUME NoStatusReports, Steady, ~aborted, ~aborted', [Next]_vars
    PROVE  toParent' \in Seq(PairedMessages)
  <1>0. toParent \in Seq(PairedMessages)
    BY DEF Steady, PairInv
  <1>1. CASE FlowReadsSerial
    <2> DEFINE line == Head(fromSerial)
    <2>1. line \in Flow!Line
      BY <1>1, QuietLines DEF Steady, FlowReadsSerial
    <2>2. toParent' = toParent \/ \E m \in PairedMessages : toParent' = Append(toParent, m)
      <3>1. Flow!InitGrbl(line) \in PairedMessages /\ Flow!GrblPush(line) \in PairedMessages
        BY <2>1, ParentKinds, MessageTypes
      <3>2. \A m \in Invalids : m \in PairedMessages
        BY ParentKinds DEF Invalids, Responses
      <3>3. QED
        BY <1>1, <3>1, <3>2, ReadsLine DEF ReadsStartup, ReadsOther, ReadsUnasked, ReadsAnswer
    <2>3. QED
      BY <1>0, <2>2, AppendIsSeq
  <1>2. CASE MachineReadsFlow
    BY <1>0, <1>2, Frames, TailIsSeq
  <1>3. CASE FlowReadsMachine \/ FlowSends
    <2>1. toParent' = toParent
      BY <1>3, HandlesMessage, SendsRequest DEF Steady
    <2>2. QED
      BY <1>0, <2>1
  <1>4. CASE \/ MachineReadsEvent \/ SerialReadsFlow \/ ClientSends \/ ContextReads \/ Scan \/ Plug
             \/ Unplug \/ Device \/ UNCHANGED vars
    BY <1>0, <1>4, Frames
  <1>5. QED
    BY <1>1, <1>2, <1>3, <1>4 DEF Next, Actors

-----------------------------------------------------------------------------
(* Lines that no request waits for come from a device that is gone *)

\* FlowControl reads a line while there is no port.
LEMMA WaitingReads ==
    ASSUME NoStatusReports, Steady, FlowReadsSerial
    PROVE  Waiting'
  <1> DEFINE line == Head(fromSerial)
  <1>1. /\ fromSerial # <<>> /\ fromSerial' = Tail(fromSerial)
        /\ UNCHANGED <<state, toFlow>> /\ fromSerial \in Seq(Flow!Line)
        /\ outgoing \in Seq(Flow!Request)
    BY DEF FlowReadsSerial, machineVars, Steady, Types, FlowTypes, SocketTypes
  <1>2. \A T : Holds(fromSerial, T) <=> line \in T \/ Holds(Tail(fromSerial), T)
    BY <1>1, HoldsOfTail
  <1>3. line \in TextLines \/ line \in ReplyLines => line \in AnswerLines
    BY DEF AnswerLines
  <1>4. line \in StartupLines => line \notin ReplyLines
    BY DEF StartupLines, Startup, ReplyLines
  <1>5. Stale /\ Cleared' => Stale'
    BY <1>1 DEF Stale
  <1>6. CASE Stale /\ ~Holds(fromSerial, StartupLines)
    <2>1. line \notin StartupLines /\ ~Holds(Tail(fromSerial), StartupLines)
      BY <1>2, <1>6
    <2>2. Cleared'
      <3>1. Cleared
        BY <1>6 DEF Stale
      <3>2. CASE ReadsOther(line)
        BY <3>1, <3>2 DEF ReadsOther, Cleared
      <3>3. CASE ReadsUnasked(line)
        BY <3>3 DEF ReadsUnasked
      <3>4. QED
        BY <2>1, <3>1, <3>2, <3>3, ReadsLine DEF ReadsStartup, ReadsAnswer, Cleared
    <2>3. QED
      BY <1>1, <1>5, <1>6, <2>1, <2>2 DEF Waiting
  <1>7. CASE Answerable(fromSerial, outgoing)
    <2>1. /\ line \in ReplyLines => Answerable(Tail(fromSerial), Tail(outgoing)) /\ outgoing # <<>>
          /\ line \notin ReplyLines /\ (line \in StartupLines => outgoing = <<>>)
                 => Answerable(Tail(fromSerial), outgoing)
          /\ line \in TextLines => outgoing # <<>>
      BY <1>1, <1>7, AnswerableReads DEF Begins
    <2>2. CASE ReadsStartup(line)
      BY <1>1, <1>4, <2>1, <2>2 DEF ReadsStartup, Fresh, Cleared, Waiting
    <2>3. CASE ReadsOther(line)
      BY <1>1, <2>1, <2>3 DEF ReadsOther, Waiting
    <2>4. CASE ReadsUnasked(line)
      <3>1. outgoing = <<>> /\ outgoing' = <<>>
        BY <2>4 DEF ReadsUnasked, Fresh, Stale, Cleared
      <3>2. Answerable(Tail(fromSerial), outgoing)
        BY <2>1, <2>4, <3>1 DEF ReadsUnasked
      <3>3. QED
        BY <1>1, <3>1, <3>2 DEF Waiting
    <2>5. CASE ReadsAnswer(line)
      BY <1>1, <2>1, <2>5 DEF ReadsAnswer, Waiting
    <2>6. QED
      BY <2>2, <2>3, <2>4, <2>5, ReadsLine
  <1>8. QED
    BY <1>6, <1>7 DEF Steady, PairInv, Waiting

\* The only removal of a queue that begins and ends with one is all of it.
LEMMA LastRemoval ==
    ASSUME NEW queue \in Seq(FlowMessages), queue # <<>>,
           Head(queue) = Removed, EndsWith(queue, Removed), OneRemoval(queue)
    PROVE  Tail(queue) = <<>>
  <1>1. /\ Len(queue) \in Nat /\ Len(queue) > 0 /\ queue[1] = Removed
        /\ queue[Len(queue)] = Removed /\ Tail(queue) \in Seq(FlowMessages)
        /\ Len(Tail(queue)) = Len(queue) - 1
    BY TailIsSeq DEF EndsWith
  <1>2. 1 \in 1..Len(queue) /\ Len(queue) \in 1..Len(queue)
    BY <1>1
  <1>3. Len(queue) = 1
    BY <1>1, <1>2 DEF OneRemoval
  <1>4. Len(Tail(queue)) = 0
    BY <1>1, <1>3
  <1>5. QED
    BY <1>1, <1>4, TailIsSeq, EmptySeq

\* FlowControl handles the removal.
LEMMA WaitingHandles ==
    ASSUME Steady, ~aborted, ~aborted', FlowReadsMachine
    PROVE  Waiting'
  <1> DEFINE msg == Head(toFlow)
  <1>1. /\ toFlow # <<>> /\ toFlow' = Tail(toFlow) /\ msg \in FlowMessages
        /\ UNCHANGED <<state, fromSerial>>
        /\ HandlesEnable(msg) \/ HandlesCommand(msg) \/ HandlesEvent(msg)
    BY HandlesMessage
  <1>2. Answerable(fromSerial, outgoing)
    BY <1>1 DEF Steady, PairInv, Waiting, Stale
  <1>3. CASE outgoing' = outgoing
    BY <1>1, <1>2, <1>3 DEF Waiting
  <1>4. CASE outgoing' # outgoing
    <2>1. HandlesEvent(msg) /\ outgoing' = <<>> /\ outgoing # <<>>
      BY <1>1, <1>4 DEF HandlesEnable, HandlesCommand, HandlesEvent, Cleared
    <2>2. /\ HasAdded(toFlow) <=> msg = Added \/ HasAdded(Tail(toFlow))
          /\ HasRemoved(toFlow) <=> msg = Removed \/ HasRemoved(Tail(toFlow))
          /\ EndsWith(toFlow, Removed) <=> \/ Tail(toFlow) = <<>> /\ Removed = msg
                                           \/ EndsWith(Tail(toFlow), Removed)
      BY <1>1, FlowTails DEF Steady, Types, SocketTypes
    <2>3. msg = Removed
      BY <2>1, <2>2 DEF HandlesEvent, Steady, UsbInv, AddedInFlow, Cleared
    <2>4. OneRemoval(toFlow) /\ state = "Disconnected"
      BY <2>1, <2>2, <2>3 DEF Steady, PairInv, LateRemoval, Cleared
    <2>5. EndsWith(toFlow, Removed)
      BY <1>1, <2>4 DEF Steady, UsbInv, DisconnectedIsIdle
    <2>6. Tail(toFlow) = <<>>
      BY <1>1, <2>3, <2>4, <2>5, LastRemoval DEF Steady, Types, SocketTypes
    <2>7. ~Holds(fromSerial, StartupLines)
      BY <2>1 DEF Steady, PairInv, Undisturbed, AnswerInv, FirstInv, StartupIsFresh, Fresh, Cleared
    <2>8. Stale'
      BY <1>1, <2>1, <2>4, <2>6 DEF HandlesEvent, Stale
    <2>9. QED
      BY <1>1, <2>7, <2>8 DEF Waiting
  <1>5. QED
    BY <1>3, <1>4

LEMMA WaitingStep ==
    ASSUME NoStatusReports, Steady, Types', UsbInv', AnswerInv', Undisturbed',
           ~aborted, ~aborted', [Next]_vars
    PROVE  Waiting'
  <1>1. CASE port' = "open"
    <2>1. AlignedAs(fromSerial, outgoing, input, toSerial, booting)'
      BY <1>1 DEF AnswerInv, Aligned, Undisturbed
    <2>2. /\ input' \in Seq(Flow!Request) /\ toSerial' \in Seq(Flow!SerialMessages)
          /\ booting' \in BOOLEAN
      BY DEF Types, SocketTypes, DeviceTypes
    <2>3. Answerable(fromSerial', outgoing')
      BY <2>1, <2>2, AlignedIsAnswerable
    <2>4. QED
      BY <2>3 DEF Waiting
  <1>2. ASSUME UNCHANGED <<fromSerial, outgoing, incoming, used, sending, state, toFlow>>
        PROVE  Waiting'
    BY <1>2 DEF Steady, PairInv, Waiting, Stale, Cleared
  <1>3. CASE MachineReadsEvent
    <2>1. UNCHANGED <<fromSerial, outgoing>>
      BY <1>3, Frames
    <2>2. CASE Stale
      <3>1. Head(events) = Added
        <4>1. events # <<>> /\ events # Left
          BY <1>3, <2>2, Frames DEF Steady, UsbInv, LastEvent, Stale
        <4>2. QED
          BY <4>1, SmallQueues DEF Steady, UsbInv, LastEvent
      <3>2. HasAdded(events)
        BY <1>3, <3>1, Frames, HoldsOfTail DEF Steady, Types, SocketTypes, HasAdded
      <3>3. fromSerial = <<>> /\ outgoing = <<>>
        BY <3>2 DEF Steady, UsbInv, NotYet, Untouched, Cleared
      <3>4. Answerable(<<>>, <<>>)
        BY EmptySeq, HoldsOfEmpty, NothingAsked
      <3>5. QED
        BY <2>1, <3>3, <3>4 DEF Waiting
    <2>3. QED
      BY <2>1, <2>2 DEF Steady, PairInv, Waiting
  <1>4. CASE MachineReadsFlow
    <2> DEFINE m == Head(toParent)
    <2>1. /\ UNCHANGED <<fromSerial, outgoing, incoming, used, sending>>
          /\ toParent # <<>> /\ m \in Flow!ParentMessages
      BY <1>4, Frames, HandlesParent DEF Steady
    <2>2. CASE m \in Inits
      <3>1. Holds(toParent, Inits)
        BY <2>1, <2>2, ParentTails DEF Steady, Types, SocketTypes
      <3>2. outgoing = <<>> /\ ~Holds(fromSerial, AnswerLines)
        BY <3>1 DEF Steady, PairInv, Unasked, Silent, Cleared
      <3>3. Answerable(fromSerial, <<>>)
        BY <3>2, NothingAsked DEF Steady, Types, SocketTypes
      <3>4. QED
        BY <2>1, <3>2, <3>3 DEF Waiting
    <2>3. CASE m \notin Inits
      <3>1. UNCHANGED <<state, toFlow>> \/ state = "Grbl"
        BY <1>4, <2>3, HandlesParent DEF Steady
      <3>2. CASE state = "Grbl"
        BY <2>1, <3>2 DEF Steady, PairInv, Waiting, Stale
      <3>3. QED
        BY <1>2, <2>1, <3>1, <3>2
    <2>4. QED
      BY <2>2, <2>3
  <1>5. CASE ClientSends
    <2>1. /\ UNCHANGED <<fromSerial, outgoing, incoming, used, sending, state>>
          /\ ~Mach!Ready(state) => UNCHANGED toFlow
      BY <1>5, Frames
    <2>2. Stale => ~Mach!Ready(state)
      BY DEF Stale, Mach!Ready
    <2>3. QED
      BY <2>1, <2>2 DEF Steady, PairInv, Waiting, Stale, Cleared
  <1>6. CASE FlowSends
    <2> DEFINE r == Head(incoming)
    <2>1. /\ sending /\ r \in CalmRequests
          /\ outgoing' = IF Ordinary(r) THEN Append(outgoing, r) ELSE outgoing
          /\ UNCHANGED fromSerial
      BY <1>6, SendsRequest DEF Steady
    <2>2. Answerable(fromSerial, outgoing) /\ outgoing \in Seq(Flow!Request)
      BY <2>1 DEF Steady, PairInv, Waiting, Stale, Cleared, Types, FlowTypes
    <2> HIDE DEF r
    <2>3. Answerable(fromSerial, IF Ordinary(r) THEN Append(outgoing, r) ELSE outgoing)
      BY <2>1, <2>2, AnswerableSends
    <2>4. QED
      BY <2>1, <2>3 DEF Waiting
  <1>7. CASE Device
    <2>1. \/ port = "open"
          \/ fromSerial' = fromSerial
      BY <1>7 DEF Device, DeviceBoots, DeviceRestarts, DeviceReports, DeviceObeys, DeviceStartsReply,
         DeviceReplies, DeviceSpeaks, Prints, Link!Flush
    <2>2. QED
      BY <1>1, <1>2, <1>7, <2>1, Frames
  <1>8. CASE ContextReads \/ Scan \/ SerialReadsFlow \/ Plug \/ Unplug \/ UNCHANGED vars
    BY <1>2, <1>8, Frames
  <1>9. QED
    BY <1>3, <1>4, <1>5, <1>6, <1>7, <1>8, WaitingReads, WaitingHandles DEF Next, Actors

-----------------------------------------------------------------------------
(* A startup line on its way to Machine *)

\* What FlowControl leaves alone when it reads a line, and how its queues get shorter.
LEMMA ReadsFrame ==
    ASSUME Types, FlowReadsSerial
    PROVE  /\ fromSerial # <<>> /\ fromSerial' = Tail(fromSerial)
           /\ UNCHANGED <<toSerial, input, state, toFlow, events, active>> /\ ~sending
           /\ \A T : Holds(fromSerial, T) <=> Head(fromSerial) \in T \/ Holds(fromSerial', T)
  <1>1. /\ fromSerial # <<>> /\ fromSerial' = Tail(fromSerial)
        /\ UNCHANGED <<input, state, toFlow, events>> /\ Flow!ReceiveData(Head(fromSerial))
    BY DEF FlowReadsSerial, linkVars, machineVars
  <1>2. UNCHANGED <<toSerial, active>> /\ ~sending
    BY <1>1 DEF Flow!ReceiveData, Flow!ReceiveEmpty, Flow!ReceiveStartup, Flow!ReceivePush,
       Flow!ReceiveMultiline, Flow!ReceiveAlarm, Flow!ReceiveReply, Flow!sockets, Flow!Ready
  <1>3. \A T : Holds(fromSerial, T) <=> Head(fromSerial) \in T \/ Holds(fromSerial', T)
    BY <1>1, HoldsOfTail DEF Types, SocketTypes
  <1>4. QED
    BY <1>1, <1>2, <1>3

\* A device that is not asked says nothing but what it announces.
LEMMA SilentDevice ==
    ASSUME NoAlarms, Steady, Silent, Device, toParent # <<>>
    PROVE  input' = <<>> /\ ~Holds(fromSerial', AnswerLines)
  <1>0. /\ input = <<>> /\ ~Holds(fromSerial, AnswerLines) /\ fromSerial \in Seq(Flow!Line)
        /\ Len(input) = 0 /\ 1..0 = {}
    BY EmptySeq DEF Silent, Steady, Types, SocketTypes
  <1>1. ~booting
    BY DEF Steady, PairInv, Undisturbed, AnswerInv, FirstInv, BootIsFresh, Fresh
  <1>2. DeviceRestarts \/ DeviceSpeaks
    BY <1>0, <1>1 DEF Device, DeviceBoots, DeviceReports, DeviceObeys, DeviceStartsReply, DeviceReplies
  <1>3. CASE DeviceRestarts
    BY <1>0, <1>3 DEF DeviceRestarts
  <1>4. CASE DeviceSpeaks
    <2>1. Prints("push", 0) /\ input' = input
      BY <1>4, DeviceAssumption DEF DeviceSpeaks, NoAlarms
    <2>2. fromSerial' = Append(fromSerial, IF cut THEN Link!Garbled([kind |-> "push", tag |-> 0])
                                                  ELSE [kind |-> "push", tag |-> 0])
      BY <2>1, PrintedLine
    <2>3. /\ Link!Garbled([kind |-> "push", tag |-> 0]) \in Flow!Line \ AnswerLines
          /\ [kind |-> "push", tag |-> 0] \in Flow!Line \ AnswerLines
      BY DEF Link!Garbled, Flow!Line, Flow!LineKinds, AnswerLines, ReplyLines, TextLines
    <2>4. PICK line \in Flow!Line \ AnswerLines : fromSerial' = Append(fromSerial, line)
      BY <2>2, <2>3
    <2>5. QED
      BY <1>0, <2>1, <2>4, HoldsOfAppend
  <1>5. QED
    BY <1>2, <1>3, <1>4

LEMMA SilentStays ==
    ASSUME NoAlarms, NoStatusReports, Steady, Silent, ~aborted, ~aborted', [Next]_vars,
           toParent # <<>>, Head(toParent) \in Inits
    PROVE  MachineReadsFlow \/ Silent'
  <1>0. /\ Cleared /\ state \in {"Connected", "Disconnected"} /\ toFlow \in {<<>>, Left}
        /\ ~Holds(toSerial, DataMessages) /\ input = <<>>
        /\ ~Holds(fromSerial, AnswerLines)
    BY DEF Silent
  <1>1. CASE MachineReadsEvent
    <2>1. /\ UNCHANGED <<incoming, outgoing, used, sending, toSerial, fromSerial, input>>
          /\ events # <<>>
      BY <1>1, Frames
    <2>2. Head(events) # Added
      <3>1. HasAdded(events) => toParent = <<>>
        BY DEF Steady, UsbInv, NotYet, Untouched
      <3>2. Head(events) = Added => HasAdded(events)
        BY <2>1, HoldsOfTail DEF HasAdded, Steady, Types, SocketTypes
      <3>3. QED
        BY <3>1, <3>2
    <2>3. toFlow' = Append(toFlow, Removed) /\ state' = "Disconnected"
      BY <1>1, <2>2, HandlesUsb DEF Steady
    <2>4. toFlow = <<>>
      <3>1. events = Left
        BY <2>1, <2>2, SmallQueues DEF Steady, UsbInv, LastEvent
      <3>2. state = "Connected"
        BY <1>0, <3>1 DEF Steady, UsbInv, LastEvent
      <3>3. QED
        BY <1>0, <3>2, SmallQueues DEF Steady, UsbInv, ConnectedIsIdle
    <2>5. QED
      BY <1>0, <2>1, <2>3, <2>4, SmallQueues DEF Silent, Cleared
  <1>2. CASE ClientSends
    <2>1. ~Mach!Ready(state)
      BY <1>0 DEF Mach!Ready
    <2>2. UNCHANGED <<incoming, outgoing, used, sending, toSerial, fromSerial, input, state, toFlow>>
      BY <1>2, <2>1, Frames
    <2>3. QED
      BY <1>0, <2>2 DEF Silent, Cleared
  <1>3. CASE FlowReadsMachine
    <2>1. /\ toFlow # <<>> /\ toFlow' = Tail(toFlow)
          /\ UNCHANGED <<state, fromSerial, input>>
          /\ HandlesEnable(Head(toFlow)) \/ HandlesCommand(Head(toFlow)) \/ HandlesEvent(Head(toFlow))
      BY <1>3, HandlesMessage
    <2>2. Head(toFlow) = Removed /\ toFlow' = <<>>
      BY <1>0, <2>1, SmallQueues
    <2>3. HandlesEvent(Removed)
      BY <2>1, <2>2, SmallQueues DEF HandlesEnable, HandlesCommand, Sends, Removed
    <2>4. ~Holds(toSerial', DataMessages)
      <3>1. Removed \in Flow!SerialMessages /\ Removed.kind # "Data"
        BY MessageKinds DEF Removed
      <3>2. toSerial' = Append(toSerial, Removed)
        BY <2>3 DEF HandlesEvent
      <3>3. QED
        BY <1>0, <3>1, <3>2, SerialAppends DEF Steady, Types, SocketTypes
    <2>5. QED
      BY <1>0, <2>1, <2>2, <2>3, <2>4 DEF Silent, HandlesEvent
  <1>4. CASE FlowReadsSerial
    <2> DEFINE line == Head(fromSerial)
    <2>1. /\ UNCHANGED <<toSerial, input, state, toFlow>>
          /\ line \notin AnswerLines /\ ~Holds(fromSerial', AnswerLines)
      BY <1>0, <1>4, ReadsFrame DEF Steady
    <2>2. ~Fresh
      BY DEF Fresh
    <2>3. ReadsOther(line)
      BY <1>4, <2>1, <2>2, ReadsLine DEF ReadsStartup, ReadsUnasked, ReadsAnswer, AnswerLines
    <2>4. QED
      BY <1>0, <2>1, <2>3 DEF ReadsOther, Silent, Cleared
  <1>5. CASE SerialReadsFlow
    <2>1. /\ UNCHANGED <<incoming, outgoing, used, sending, fromSerial, state, toFlow>>
          /\ toSerial # <<>> /\ toSerial' = Tail(toSerial)
      BY <1>5, Frames
    <2>2. Head(toSerial).kind # "Data" /\ ~Holds(toSerial', DataMessages)
      BY <1>0, <2>1, SerialTails DEF Steady, Types, SocketTypes
    <2>3. input' = input
      BY <1>5, <2>2 DEF SerialReadsFlow, SerialHandles, Link!Connect, Link!Disconnect
    <2>4. QED
      BY <1>0, <2>1, <2>2, <2>3 DEF Silent, Cleared
  <1>6. CASE FlowSends
    BY <1>0, <1>6, SendsRequest DEF Cleared, Steady
  <1>7. CASE Device
    <2>1. UNCHANGED <<incoming, outgoing, used, sending, toSerial, state, toFlow>>
      BY <1>7, Frames
    <2>2. QED
      BY <1>0, <1>7, <2>1, SilentDevice DEF Silent, Cleared
  <1>8. CASE ContextReads \/ Scan \/ Plug \/ Unplug \/ UNCHANGED vars
    <2>1. /\ UNCHANGED <<incoming, outgoing, used, sending, toSerial, fromSerial, state, toFlow>>
          /\ input' = input \/ input' = <<>>
      BY <1>8, Frames
    <2>2. QED
      BY <1>0, <2>1 DEF Silent, Cleared
  <1>9. QED
    BY <1>1, <1>2, <1>3, <1>4, <1>5, <1>6, <1>7, <1>8 DEF Next, Actors

\* How the queue to Machine gets longer.
LEMMA ParentChanges ==
    ASSUME NoStatusReports, Steady, ~aborted, ~aborted', [Next]_vars
    PROVE  \/ toParent' = toParent
           \/ MachineReadsFlow /\ toParent # <<>> /\ toParent' = Tail(toParent)
           \/ FlowReadsSerial
  BY Frames, HandlesMessage, SendsRequest DEF Next, Actors, Steady

LEMMA UnaskedStep ==
    ASSUME NoAlarms, NoStatusReports, Steady, ~aborted, ~aborted', [Next]_vars
    PROVE  Unasked'
  <1> SUFFICES ASSUME Holds(toParent', Inits)
               PROVE  OnlyInit(toParent') /\ Silent'
    BY DEF Unasked
  <1>0. toParent \in Seq(Flow!ParentMessages) /\ ~Holds(<<>>, Inits)
    BY HoldsOfEmpty DEF Steady, Types, SocketTypes
  <1>1. CASE Holds(toParent, Inits)
    <2>1. OnlyInit(toParent) /\ Silent /\ toParent # <<>> /\ Head(toParent) \in Inits
      BY <1>0, <1>1 DEF Steady, PairInv, Unasked, OnlyInit
    <2>2. ~(MachineReadsFlow /\ toParent' = Tail(toParent))
      BY <2>1 DEF OnlyInit
    <2>3. ~MachineReadsFlow
      BY <2>2, Frames
    <2>4. Silent'
      BY <2>1, <2>3, SilentStays
    <2>5. CASE toParent' = toParent
      BY <2>1, <2>4, <2>5
    <2>6. CASE FlowReadsSerial
      <3> DEFINE line == Head(fromSerial)
      <3>1. line \in Flow!Line /\ line \notin AnswerLines
        <4>1. line \in Flow!Line
          BY <2>6, QuietLines DEF FlowReadsSerial, Steady
        <4>2. QED
          BY <2>1, <2>6, <4>1, ReadsFrame DEF Steady, Silent
      <3>2. ReadsOther(line)
        BY <2>1, <2>6, <3>1, ReadsLine DEF ReadsStartup, ReadsUnasked, ReadsAnswer, AnswerLines, Fresh
      <3>3. CASE toParent' = Append(toParent, Flow!GrblPush(line))
        <4> DEFINE push == Flow!GrblPush(line)
        <4>1. push \in Flow!ParentMessages /\ push \notin Inits /\ push \notin Responses
          BY <3>1, ParentKinds
        <4> HIDE DEF push
        <4>2. /\ Head(Append(toParent, push)) = Head(toParent)
              /\ Tail(Append(toParent, push)) = Append(Tail(toParent), push)
              /\ Tail(toParent) \in Seq(Flow!ParentMessages)
          BY <1>0, <2>1, <4>1, ParentAppends, ParentTails
        <4>3. /\ Holds(Append(toParent, push), Responses) <=> Holds(toParent, Responses)
              /\ Holds(Append(Tail(toParent), push), Inits) <=> Holds(Tail(toParent), Inits)
          BY <1>0, <4>1, <4>2, ParentAppends
        <4>4. OnlyInit(Append(toParent, push))
          BY <2>1, <4>2, <4>3 DEF OnlyInit
        <4>5. QED
          BY <2>4, <3>3, <4>4 DEF push
      <3>4. QED
        BY <2>1, <2>4, <3>2, <3>3 DEF ReadsOther
    <2>7. QED
      BY <2>3, <2>5, <2>6, ParentChanges
  <1>2. CASE ~Holds(toParent, Inits)
    <2>1. FlowReadsSerial
      <3>1. toParent # <<>> => ~Holds(Tail(toParent), Inits)
        BY <1>0, <1>2, ParentTails
      <3>2. QED
        BY <1>2, <3>1, ParentChanges
    <2> DEFINE line == Head(fromSerial)
    <2>2. line \in Flow!Line
      BY <2>1, QuietLines DEF FlowReadsSerial, Steady
    <2>3. ReadsStartup(line)
      <3>1. Flow!GrblPush(line) \in Flow!ParentMessages /\ Flow!GrblPush(line) \notin Inits
        BY <2>2, ParentKinds
      <3>2. \A m \in Responses : m \in Flow!ParentMessages /\ m \notin Inits
        BY ParentKinds DEF Responses
      <3>3. \A m \in Flow!ParentMessages : m \notin Inits => ~Holds(Append(toParent, m), Inits)
        BY <1>0, <1>2, ParentAppends
      <3>4. Invalids \subseteq Responses
        BY DEF Invalids
      <3>5. ~ReadsOther(line)
        BY <1>2, <3>1, <3>3 DEF ReadsOther
      <3>6. ~ReadsUnasked(line) /\ ~ReadsAnswer(line)
        BY <3>2, <3>3, <3>4 DEF ReadsUnasked, ReadsAnswer
      <3>7. QED
        BY <2>1, <3>5, <3>6, ReadsLine
    <2>4. /\ toParent = <<>> /\ toParent' = Append(<<>>, Flow!InitGrbl(line))
          /\ Cleared /\ Cleared' /\ state \in {"Connected", "Disconnected"} /\ toFlow \in {<<>>, Left}
          /\ ~Holds(toSerial, DataMessages) /\ input = <<>>
      BY <2>3 DEF ReadsStartup, Fresh, Cleared
    <2>5. OnlyInit(toParent')
      <3> DEFINE m == Flow!InitGrbl(line)
      <3>1. m \in Flow!ParentMessages /\ m \in Inits /\ m \notin Responses
        BY <2>2, ParentKinds, MessageTypes
      <3> HIDE DEF m
      <3>2. /\ Head(Append(<<>>, m)) = m /\ Tail(Append(<<>>, m)) = <<>>
            /\ Holds(Append(<<>>, m), Responses) <=> Holds(<<>>, Responses)
        BY <1>0, <2>4, <3>1, ParentAppends
      <3>3. OnlyInit(Append(<<>>, m))
        BY <1>0, <3>1, <3>2, HoldsOfEmpty DEF OnlyInit
      <3>4. QED
        BY <2>4, <3>3 DEF m
    <2>6. ~Holds(fromSerial, AnswerLines)
      <3>1. Holds(fromSerial, StartupLines)
        BY <2>1, <2>3, ReadsFrame DEF ReadsStartup, Steady
      <3>2. Answerable(fromSerial, <<>>)
        BY <2>4, <3>1 DEF Steady, PairInv, Waiting, Cleared
      <3>3. QED
        BY <3>2, NothingAsked DEF Steady, Types, SocketTypes
    <2>7. Silent'
      BY <2>1, <2>4, <2>6, ReadsFrame DEF Silent, Steady
    <2>8. QED
      BY <2>5, <2>7
  <1>3. QED
    BY <1>1, <1>2

-----------------------------------------------------------------------------
(* The removal that FlowControl has not handled *)

LEMMA OneRemovalFacts ==
    /\ \A s \in Seq(FlowMessages) : ~HasRemoved(s) => OneRemoval(s)
    /\ \A s \in Seq(FlowMessages) : \A e \in FlowMessages :
           OneRemoval(s) /\ (e # Removed \/ ~HasRemoved(s)) => OneRemoval(Append(s, e))
    /\ \A s \in Seq(FlowMessages) : s # <<>> /\ OneRemoval(s) =>
           OneRemoval(Tail(s)) /\ (Head(s) = Removed => ~HasRemoved(Tail(s)))
    /\ LET t == Left \o Mach!EnableAndAsk IN
       OneRemoval(t) /\ t # <<>> /\ Head(t) = Removed /\ Enables(t, 2)
  <1>1. ASSUME NEW s \in Seq(FlowMessages), ~HasRemoved(s) PROVE OneRemoval(s)
    BY <1>1 DEF OneRemoval, HasRemoved, Holds
  <1>2. ASSUME NEW s \in Seq(FlowMessages), NEW e \in FlowMessages,
               OneRemoval(s), e # Removed \/ ~HasRemoved(s)
        PROVE  OneRemoval(Append(s, e))
    <2> DEFINE t == Append(s, e)
    <2>1. /\ Len(t) = Len(s) + 1 /\ Len(s) \in Nat /\ t[Len(s) + 1] = e
          /\ \A i \in 1..Len(s) : t[i] = s[i]
      BY AppendIsSeq, LenProperties
    <2> HIDE DEF t
    <2>2. \A i \in 1..Len(t) : i \in 1..Len(s) \/ i = Len(s) + 1
      BY <2>1
    <2>3. e = Removed => \A i \in 1..Len(s) : s[i] # Removed
      BY <1>2 DEF HasRemoved, Holds
    <2>4. \A i, j \in 1..Len(t) : t[i] = Removed /\ t[j] = Removed => i = j
      BY <1>2, <2>1, <2>2, <2>3 DEF OneRemoval
    <2>5. QED
      BY <2>4 DEF OneRemoval, t
  <1>3. ASSUME NEW s \in Seq(FlowMessages), s # <<>>, OneRemoval(s)
        PROVE  OneRemoval(Tail(s)) /\ (Head(s) = Removed => ~HasRemoved(Tail(s)))
    <2> DEFINE t == Tail(s)
    <2>1. /\ Len(t) = Len(s) - 1 /\ Len(s) \in Nat /\ Len(s) > 0 /\ Head(s) = s[1]
          /\ \A i \in 1..(Len(s) - 1) : t[i] = s[i + 1]
      BY <1>3, TailIsSeq
    <2> HIDE DEF t
    <2>2. \A i \in 1..Len(t) : i + 1 \in 1..Len(s) /\ t[i] = s[i + 1] /\ i + 1 # 1
      BY <2>1
    <2>3. 1 \in 1..Len(s)
      BY <2>1
    <2>4. \A i, j \in 1..Len(t) : i + 1 = j + 1 => i = j
      OBVIOUS
    <2>5. \A i, j \in 1..Len(t) : t[i] = Removed /\ t[j] = Removed => i = j
      BY <1>3, <2>2, <2>4 DEF OneRemoval
    <2>6. Head(s) = Removed => \A i \in 1..Len(t) : t[i] # Removed
      BY <1>3, <2>1, <2>2, <2>3 DEF OneRemoval
    <2>7. QED
      BY <2>5, <2>6 DEF OneRemoval, HasRemoved, Holds, t
  <1>4. LET t == Left \o Mach!EnableAndAsk IN
        OneRemoval(t) /\ t # <<>> /\ Head(t) = Removed /\ Enables(t, 2)
    <2> DEFINE t == <<Removed, Enable, AskVersion>>
    <2>1. Left \o Mach!EnableAndAsk = t
      BY AskVersionIsSend, SmallQueues DEF Left
    <2>2. /\ Len(t) = 3 /\ t[1] = Removed /\ t[2] = Enable /\ t[3] = AskVersion
          /\ t # <<>> /\ Head(t) = Removed
      OBVIOUS
    <2> HIDE DEF t
    <2>3. OneRemoval(t)
      BY <2>2, SmallQueues DEF OneRemoval
    <2>4. Enables(t, 2)
      BY <2>2 DEF Enables, Asks
    <2>5. QED
      BY <2>1, <2>2, <2>3, <2>4
  <1>5. QED
    BY <1>1, <1>2, <1>3, <1>4

\* A client's command behind the other messages.
LEMMA SendsCommand ==
    ASSUME ClientSends
    PROVE  \/ toFlow' = toFlow
           \/ /\ state \in {"Grbl", "Identified"}
              /\ \E m \in Sends : m # Removed /\ toFlow' = Append(toFlow, m)
  <1>1. \A type \in ClientCommands :
        \A size \in IF type \in Planned THEN GcodeSizes ELSE {TextSize(type)} :
            type \in Commands /\ size \in Nat
    BY SMT, CommandAssumption, SizeAssumption DEF TextSize
  <1>2. \A type \in Commands : \A size \in Nat :
            Mach!Send(type, size) \in Sends /\ Mach!Send(type, size) # Removed
    BY MessageTypes DEF Sends, Mach!Send, Removed
  <1>3. \A type \in ClientCommands :
        \A size \in IF type \in Planned THEN GcodeSizes ELSE {TextSize(type)} :
            Mach!Send(type, size) \in Sends /\ Mach!Send(type, size) # Removed
    BY <1>1, <1>2
  <1>4. QED
    BY <1>3 DEF ClientSends, Mach!ForwardGrbl, Mach!Forwards, Mach!Ready

LEMMA LateRemovalStep ==
    ASSUME NoStatusReports, Steady, ~aborted, ~aborted', [Next]_vars
    PROVE  LateRemoval'
  <1> SUFFICES ASSUME HasRemoved(toFlow')
               PROVE  /\ events' = <<>> /\ OneRemoval(toFlow')
                      /\ state' # "Disconnected" =>
                             /\ Head(toFlow') = Removed /\ Cleared'
                             /\ ~Holds(fromSerial', AnswerLines)
    BY DEF LateRemoval
  <1>0. toFlow \in Seq(FlowMessages) /\ ~HasRemoved(<<>>)
    BY EmptyQueues DEF Steady, Types, SocketTypes
  <1>1. HasRemoved(toFlow) =>
            /\ events = <<>> /\ OneRemoval(toFlow) /\ ~plugged /\ ~known /\ port # "open"
            /\ state # "Disconnected" =>
                   /\ Head(toFlow) = Removed /\ Cleared /\ ~Holds(fromSerial, AnswerLines)
    BY DEF Steady, PairInv, LateRemoval, UsbInv, NoRemoval, Basics
  <1>2. ASSUME UNCHANGED <<events, toFlow, state, incoming, outgoing, used, sending, fromSerial>>
        PROVE  /\ events' = <<>> /\ OneRemoval(toFlow')
               /\ state' # "Disconnected" =>
                      /\ Head(toFlow') = Removed /\ Cleared'
                      /\ ~Holds(fromSerial', AnswerLines)
    BY <1>1, <1>2 DEF Cleared
  <1>3. CASE MachineReadsEvent
    <2>1. /\ events # <<>> /\ events' = Tail(events)
          /\ Head(events) \in {Added, Removed} /\ toFlow' = Append(toFlow, Head(events))
          /\ Head(events) = Added => state' = "Connected"
          /\ Head(events) = Removed => state' = "Disconnected"
      BY <1>3, Frames, HandlesUsb DEF Steady
    <2>2. Head(events) # Added
      <3>1. Head(events) = Added => HasAdded(events)
        BY <2>1, HoldsOfTail DEF HasAdded, Steady, Types, SocketTypes
      <3>2. HasAdded(events) => toFlow = <<>>
        BY DEF Steady, UsbInv, NotYet
      <3>3. ~HasRemoved(Append(<<>>, Added))
        BY SmallQueues
      <3>4. QED
        BY <2>1, <3>1, <3>2, <3>3
    <2>3. events = Left /\ events' = <<>>
      BY <2>1, <2>2, SmallQueues DEF Steady, UsbInv, LastEvent
    <2>4. OneRemoval(toFlow')
      <3>1. ~HasRemoved(toFlow)
        BY <1>1, <2>1
      <3>2. OneRemoval(Append(toFlow, Removed))
        BY <1>0, <3>1, OneRemovalFacts, MessageKinds
      <3>3. QED
        BY <2>1, <2>2, <3>2
    <2>5. QED
      BY <2>1, <2>2, <2>3, <2>4
  <1>4. CASE MachineReadsFlow
    <2> DEFINE m == Head(toParent)
    <2>1. /\ toParent # <<>> /\ m \in Flow!ParentMessages
          /\ UNCHANGED <<incoming, outgoing, used, sending, events, fromSerial>>
      BY <1>4, Frames, HandlesParent DEF Steady
    <2>2. CASE UNCHANGED <<state, toFlow>>
      BY <1>2, <2>1, <2>2
    <2>3. CASE state = "Grbl" /\ UNCHANGED toFlow
      BY <1>1, <2>1, <2>3 DEF Cleared
    <2>4. CASE m \in Inits /\ toFlow' = toFlow \o Mach!EnableAndAsk
      <3>1. Holds(toParent, Inits)
        BY <2>1, <2>4, ParentTails DEF Steady, Types, SocketTypes
      <3>2. Cleared /\ toFlow \in {<<>>, Left} /\ ~Holds(fromSerial, AnswerLines)
        BY <3>1 DEF Steady, PairInv, Unasked, Silent
      <3>3. HasRemoved(toFlow)
        BY <1>0, <2>4, FlowAsked
      <3>4. toFlow = Left
        BY <1>0, <3>2, <3>3
      <3>5. OneRemoval(toFlow') /\ Head(toFlow') = Removed
        BY <2>4, <3>4, OneRemovalFacts
      <3>6. QED
        BY <1>1, <2>1, <3>2, <3>3, <3>5 DEF Cleared
    <2>5. QED
      BY <1>4, <2>2, <2>3, <2>4, HandlesParent DEF Steady
  <1>5. CASE ClientSends
    <2>1. UNCHANGED <<events, state, incoming, outgoing, used, sending, fromSerial>>
      BY <1>5, Frames
    <2>2. CASE toFlow' = toFlow
      BY <1>2, <2>1, <2>2
    <2>3. CASE toFlow' # toFlow
      <3>1. PICK m \in Sends : m # Removed /\ toFlow' = Append(toFlow, m)
        BY <1>5, <2>3, SendsCommand
      <3>2. state \in {"Grbl", "Identified"} /\ m \in FlowMessages
        BY <1>5, <2>3, SendsCommand DEF Sends
      <3>3. HasRemoved(toFlow)
        BY <1>0, <3>1, <3>2, FlowAppends
      <3>4. OneRemoval(toFlow')
        BY <1>0, <1>1, <3>1, <3>2, <3>3, OneRemovalFacts
      <3>5. Head(toFlow') = Head(toFlow)
        <4>1. toFlow # <<>>
          BY <1>0, <3>3
        <4>2. Append(toFlow, m) = toFlow \o <<m>> /\ <<m>> \in Seq(FlowMessages)
          BY <1>0, <3>2
        <4>3. QED
          BY <1>0, <3>1, <4>1, <4>2, HeadTailOfConcat
      <3>6. QED
        BY <1>1, <2>1, <3>2, <3>3, <3>4, <3>5 DEF Cleared
    <2>4. QED
      BY <2>2, <2>3
  <1>6. CASE FlowReadsMachine
    <2>1. /\ toFlow # <<>> /\ toFlow' = Tail(toFlow) /\ UNCHANGED <<state, events>>
      BY <1>6, HandlesMessage
    <2>2. HasRemoved(toFlow)
      BY <1>0, <2>1, FlowTails
    <2>3. OneRemoval(toFlow') /\ Head(toFlow) # Removed
      BY <1>0, <1>1, <2>1, <2>2, OneRemovalFacts
    <2>4. QED
      BY <1>1, <2>1, <2>2, <2>3
  <1>7. CASE FlowReadsSerial
    <2> DEFINE line == Head(fromSerial)
    <2>1. /\ UNCHANGED <<events, toFlow, state>>
          /\ \A T : Holds(fromSerial, T) <=> line \in T \/ Holds(fromSerial', T)
      BY <1>7, ReadsFrame DEF Steady
    <2>2. events' = <<>> /\ OneRemoval(toFlow')
      BY <1>1, <2>1
    <2>3. ASSUME state # "Disconnected"
          PROVE  Head(toFlow') = Removed /\ Cleared' /\ ~Holds(fromSerial', AnswerLines)
      <3>1. Head(toFlow) = Removed /\ Cleared /\ ~Holds(fromSerial, AnswerLines)
        BY <1>1, <2>1, <2>3
      <3>2. line \notin AnswerLines /\ ~Holds(fromSerial', AnswerLines)
        BY <2>1, <3>1
      <3>3. Cleared'
        BY <1>7, <3>1, <3>2, ReadsLine
           DEF ReadsStartup, ReadsOther, ReadsUnasked, ReadsAnswer, AnswerLines, Cleared
      <3>4. QED
        BY <2>1, <3>1, <3>2, <3>3
    <2>4. QED
      BY <2>1, <2>2, <2>3
  <1>8. CASE FlowSends
    <2>1. sending /\ UNCHANGED <<state, toFlow, events>>
      BY <1>8, SendsRequest DEF Steady
    <2>2. QED
      BY <1>1, <2>1 DEF Cleared
  <1>9. CASE Device
    <2>1. fromSerial' = fromSerial \/ port = "open"
      BY <1>9 DEF Device, DeviceBoots, DeviceRestarts, DeviceReports, DeviceObeys, DeviceStartsReply,
         DeviceReplies, DeviceSpeaks, Prints, Link!Flush
    <2>2. UNCHANGED <<events, toFlow, state, incoming, outgoing, used, sending>>
      BY <1>9, Frames
    <2>3. QED
      BY <1>1, <1>2, <2>1, <2>2
  <1>10. CASE Scan
    <2>1. toFlow' = toFlow /\ plugged # known
      BY <1>10, Frames DEF Scan
    <2>2. QED
      BY <1>1, <2>1 DEF Steady, Types, DeviceTypes
  <1>11. CASE SerialReadsFlow \/ ContextReads \/ Plug \/ Unplug \/ UNCHANGED vars
    BY <1>2, <1>11, Frames
  <1>12. QED
    BY <1>3, <1>4, <1>5, <1>6, <1>7, <1>8, <1>9, <1>10, <1>11 DEF Next, Actors

-----------------------------------------------------------------------------
(* Answers to nothing *)

LEMMA InvalidEarlyStep ==
    ASSUME NoStatusReports, Steady, ~aborted, ~aborted', [Next]_vars
    PROVE  InvalidEarly'
  <1> SUFFICES ASSUME Holds(toParent', Invalids)
               PROVE  state' \in {"Connected", "Disconnected"} /\ ~Holds(toParent', Inits)
    BY DEF InvalidEarly
  <1>0. toParent \in Seq(Flow!ParentMessages)
    BY DEF Steady, Types, SocketTypes
  <1>1. Holds(toParent, Invalids) =>
            state \in {"Connected", "Disconnected"} /\ ~Holds(toParent, Inits)
    BY DEF Steady, PairInv, InvalidEarly
  <1>2. \A e \in Flow!ParentMessages :
            /\ Holds(Append(toParent, e), Invalids) <=> Holds(toParent, Invalids) \/ e \in Invalids
            /\ Holds(Append(toParent, e), Inits) <=> Holds(toParent, Inits) \/ e \in Inits
    BY <1>0, ParentAppends
  <1>3. CASE MachineReadsFlow
    <2>1. toParent # <<>> /\ toParent' = Tail(toParent)
      BY <1>3, Frames
    <2>2. /\ Holds(toParent, Invalids) <=> Head(toParent) \in Invalids \/ Holds(toParent', Invalids)
          /\ Holds(toParent, Inits) <=> Head(toParent) \in Inits \/ Holds(toParent', Inits)
      BY <1>0, <2>1, ParentTails
    <2>3. QED
      BY <1>1, <1>3, <2>2, HandlesParent DEF Steady
  <1>4. CASE FlowReadsSerial
    <2> DEFINE line == Head(fromSerial)
    <2>1. line \in Flow!Line /\ state' = state /\ fromSerial # <<>>
          /\ \A T : Holds(fromSerial, T) <=> line \in T \/ Holds(fromSerial', T)
      BY <1>4, QuietLines, ReadsFrame DEF Steady
    <2>2. ~ReadsStartup(line)
      <3>1. ASSUME ReadsStartup(line) PROVE FALSE
        <4>1. Flow!InitGrbl(line) \in Inits /\ Flow!InitGrbl(line) \in Flow!ParentMessages
          BY <2>1, ParentKinds, MessageTypes
        <4>2. Flow!InitGrbl(line) \notin Invalids
          BY <4>1, ParentKinds DEF Invalids
        <4>3. ~Holds(toParent, Invalids)
          BY <3>1, HoldsOfEmpty DEF ReadsStartup, Fresh
        <4>4. QED
          BY <1>2, <3>1, <4>1, <4>2, <4>3 DEF ReadsStartup
      <3>2. QED
        BY <3>1
    <2>3. CASE ReadsOther(line)
      <3>1. /\ Flow!GrblPush(line) \in Flow!ParentMessages /\ Flow!GrblPush(line) \notin Inits
            /\ Flow!GrblPush(line) \notin Invalids
        BY <2>1, ParentKinds DEF Invalids
      <3>2. QED
        BY <1>1, <1>2, <2>1, <2>3, <3>1 DEF ReadsOther
    <2>4. CASE ReadsUnasked(line)
      <3>1. PICK m \in Invalids : toParent' = Append(toParent, m)
        BY <2>4 DEF ReadsUnasked
      <3>2. m \in Flow!ParentMessages /\ m \notin Inits
        BY ParentKinds DEF Invalids, Responses
      <3>3. state \in {"Connected", "Disconnected"}
        BY <2>4 DEF ReadsUnasked, Fresh, Stale
      <3>4. ~Holds(toParent, Inits)
        <4>1. CASE Fresh
          BY <4>1, HoldsOfEmpty DEF Fresh
        <4>2. CASE line \in AnswerLines
          BY <2>1, <4>2 DEF Steady, PairInv, Unasked, Silent
        <4>3. QED
          BY <2>4, <4>1, <4>2 DEF ReadsUnasked
      <3>5. QED
        BY <1>2, <2>1, <3>1, <3>2, <3>3, <3>4
    <2>5. CASE ReadsAnswer(line)
      <3>1. PICK m \in Responses \cap PairedMessages :
                m \notin Invalids /\ toParent' = Append(toParent, m)
        BY <2>5 DEF ReadsAnswer
      <3>2. m \in Flow!ParentMessages /\ m \notin Inits
        BY ParentKinds DEF Responses
      <3>3. QED
        BY <1>1, <1>2, <2>1, <3>1, <3>2
    <2>6. QED
      BY <1>4, <2>2, <2>3, <2>4, <2>5, ReadsLine
  <1>5. CASE toParent' = toParent /\ ~MachineReadsFlow
    <2>1. state' = state \/ MachineReadsEvent
      BY <1>5, Frames, HandlesMessage, ReadsFrame, SendsRequest DEF Next, Actors, Steady
    <2>2. MachineReadsEvent => state' \in {"Connected", "Disconnected"}
      BY HandlesUsb DEF Steady
    <2>3. QED
      BY <1>1, <1>5, <2>1, <2>2
  <1>6. QED
    BY <1>3, <1>4, <1>5, ParentChanges

-----------------------------------------------------------------------------
(* The first answer is the one to the request for the version *)

LEMMA VersionQueues ==
    /\ \A s \in Seq(FlowMessages) : \A e \in FlowMessages :
           Enables(s, 2) => Enables(Append(s, e), 2)
    /\ \A s \in Seq(FlowMessages) : s # <<>> /\ Enables(s, 2) => Enables(Tail(s), 1)
    /\ \A s \in Seq(FlowMessages) : \A e \in FlowMessages :
           s # <<>> => Head(Append(s, e)) = Head(s)
    /\ \A n : ~Enables(<<>>, n) /\ ~Asks(<<>>, n)
  <1>1. ASSUME NEW s \in Seq(FlowMessages), NEW e \in FlowMessages, Enables(s, 2)
        PROVE  Enables(Append(s, e), 2)
    <2> DEFINE t == Append(s, e)
    <2>1. /\ Len(t) = Len(s) + 1 /\ Len(s) \in Nat
          /\ \A i \in 1..Len(s) : t[i] = s[i]
      BY AppendIsSeq, LenProperties
    <2>2. /\ 2 \in 1..Len(s) /\ s[2] = Enable /\ 3 \in 1..Len(s) /\ s[3] = AskVersion
      BY <1>1 DEF Enables, Asks
    <2> HIDE DEF t
    <2>3. /\ 2 \in 1..Len(t) /\ t[2] = Enable /\ 3 \in 1..Len(t) /\ t[3] = AskVersion
      BY <2>1, <2>2
    <2>4. Enables(t, 2)
      BY <2>3 DEF Enables, Asks
    <2>5. QED
      BY <2>4 DEF t
  <1>2. ASSUME NEW s \in Seq(FlowMessages), s # <<>>, Enables(s, 2)
        PROVE  Enables(Tail(s), 1)
    <2> DEFINE t == Tail(s)
    <2>1. /\ Len(t) = Len(s) - 1 /\ Len(s) \in Nat
          /\ \A i \in 1..(Len(s) - 1) : t[i] = s[i + 1]
      BY <1>2, TailIsSeq
    <2>2. /\ 2 \in 1..Len(s) /\ s[2] = Enable /\ 3 \in 1..Len(s) /\ s[3] = AskVersion
      BY <1>2 DEF Enables, Asks
    <2> HIDE DEF t
    <2>3. /\ 1 \in 1..Len(t) /\ t[1] = Enable /\ 2 \in 1..Len(t) /\ t[2] = AskVersion
      BY <2>1, <2>2
    <2>4. Enables(t, 1)
      BY <2>3 DEF Enables, Asks
    <2>5. QED
      BY <2>4 DEF t
  <1>3. ASSUME NEW s \in Seq(FlowMessages), NEW e \in FlowMessages, s # <<>>
        PROVE  Head(Append(s, e)) = Head(s)
    <2>1. Append(s, e) = s \o <<e>> /\ <<e>> \in Seq(FlowMessages)
      OBVIOUS
    <2>2. QED
      BY <1>3, <2>1, HeadTailOfConcat
  <1>4. QED
    BY <1>1, <1>2, <1>3, EmptyQueues

LEMMA FirstResponseFacts ==
    /\ \A s \in Seq(Flow!ParentMessages) : \A e \in Flow!ParentMessages :
           /\ FirstResponse(s) => FirstResponse(Append(s, e))
           /\ ~Holds(s, Responses) /\ e \in Versions => FirstResponse(Append(s, e))
    /\ \A s \in Seq(Flow!ParentMessages) : s # <<>> /\ FirstResponse(s) =>
           /\ Head(s) \notin Responses => FirstResponse(Tail(s))
           /\ Head(s) \in Responses => Head(s) \in Versions
  <1>1. ASSUME NEW s \in Seq(Flow!ParentMessages), NEW e \in Flow!ParentMessages
        PROVE  /\ FirstResponse(s) => FirstResponse(Append(s, e))
               /\ ~Holds(s, Responses) /\ e \in Versions => FirstResponse(Append(s, e))
    <2> DEFINE t == Append(s, e)
    <2>1. /\ Len(t) = Len(s) + 1 /\ Len(s) \in Nat /\ t[Len(s) + 1] = e
          /\ \A i \in 1..Len(s) : t[i] = s[i]
      BY AppendIsSeq, LenProperties
    <2> HIDE DEF t
    <2>2. ASSUME FirstResponse(s) PROVE FirstResponse(t)
      <3>1. PICK i \in 1..Len(s) : s[i] \in Versions /\ \A j \in 1..(i - 1) : s[j] \notin Responses
        BY <2>2 DEF FirstResponse
      <3>2. i \in 1..Len(t) /\ \A j \in 1..(i - 1) : j \in 1..Len(s)
        BY <2>1
      <3>3. t[i] \in Versions /\ \A j \in 1..(i - 1) : t[j] \notin Responses
        BY <2>1, <3>1, <3>2
      <3>4. QED
        BY <3>2, <3>3 DEF FirstResponse
    <2>3. ASSUME ~Holds(s, Responses), e \in Versions PROVE FirstResponse(t)
      <3>1. \A j \in 1..Len(s) : s[j] \notin Responses
        BY <2>3 DEF Holds
      <3>2. Len(s) + 1 \in 1..Len(t) /\ \A j \in 1..((Len(s) + 1) - 1) : j \in 1..Len(s)
        BY <2>1
      <3>3. t[Len(s) + 1] \in Versions /\ \A j \in 1..((Len(s) + 1) - 1) : t[j] \notin Responses
        BY <2>1, <2>3, <3>1, <3>2
      <3>4. QED
        BY <3>2, <3>3 DEF FirstResponse
    <2>4. QED
      BY <2>2, <2>3 DEF t
  <1>2. ASSUME NEW s \in Seq(Flow!ParentMessages), s # <<>>, FirstResponse(s)
        PROVE  /\ Head(s) \notin Responses => FirstResponse(Tail(s))
               /\ Head(s) \in Responses => Head(s) \in Versions
    <2> DEFINE t == Tail(s)
    <2>1. /\ Len(t) = Len(s) - 1 /\ Len(s) \in Nat /\ Len(s) > 0 /\ Head(s) = s[1]
          /\ \A i \in 1..(Len(s) - 1) : t[i] = s[i + 1]
      BY <1>2, TailIsSeq
    <2>2. PICK i \in 1..Len(s) : s[i] \in Versions /\ \A j \in 1..(i - 1) : s[j] \notin Responses
      BY <1>2 DEF FirstResponse
    <2> HIDE DEF t
    <2>3. i # 1 => Head(s) \notin Responses
      <3>1. i # 1 => 1 \in 1..(i - 1)
        BY <2>1
      <3>2. QED
        BY <2>1, <2>2, <3>1
    <2>4. i = 1 => Head(s) \in Versions /\ Head(s) \in Responses
      BY <2>1, <2>2 DEF Versions
    <2>5. ASSUME i # 1 PROVE FirstResponse(t)
      <3>1. /\ i - 1 \in 1..Len(t) /\ i - 1 \in 1..(Len(s) - 1) /\ (i - 1) + 1 = i
            /\ \A j \in 1..((i - 1) - 1) : j + 1 \in 1..(i - 1) /\ j \in 1..(Len(s) - 1)
        BY <2>1, <2>5
      <3>2. t[i - 1] = s[i] /\ \A j \in 1..((i - 1) - 1) : t[j] = s[j + 1]
        BY <2>1, <3>1
      <3>3. t[i - 1] \in Versions /\ \A j \in 1..((i - 1) - 1) : t[j] \notin Responses
        BY <2>2, <3>1, <3>2
      <3>4. QED
        BY <3>1, <3>3 DEF FirstResponse
    <2>6. QED
      BY <2>3, <2>4, <2>5 DEF t
  <1>3. QED
    BY <1>1, <1>2

\* The request for the version is queued, and is to be sent at once.
LEMMA QueuesVersion ==
    ASSUME Types, UsbInv, Cleared, HandlesCommand(AskVersion)
    PROVE  sending' /\ outgoing' = <<>> /\ IsVersion(Head(incoming'))
  <1>1. /\ Flow!Enqueue("GrblVersion", 3) /\ UNCHANGED <<outgoing, used>>
        /\ outgoing = <<>> /\ used = 0 /\ incoming = <<>> /\ ~alarm
    BY DEF HandlesCommand, AskVersion, Cleared, UsbInv, Basics
  <1> DEFINE r == Flow!Arriving("GrblVersion", 3)
  <1>2. incoming' = <<r>>
    <2>1. incoming' = Flow!Placed("GrblVersion", <<r>>)
      BY <1>1 DEF Flow!Enqueue
    <2>2. Flow!Placed("GrblVersion", <<r>>) = incoming \o <<r>>
      BY SMT, AskVersionIsSend DEF Flow!Placed
    <2>3. <<>> \o <<r>> = <<r>>
      OBVIOUS
    <2>4. QED
      BY <1>1, <2>1, <2>2, <2>3
  <1>3. r.type = "GrblVersion" /\ Head(<<r>>) = r /\ <<r>> # <<>>
    BY DEF Flow!Arriving
  <1> HIDE DEF r
  <1>4. Flow!PlannedSize(r) = 0 /\ r.type \notin Flow!Realtime
    BY <1>3 DEF Flow!PlannedSize, Flow!Planned, Flow!Realtime
  <1>5. Flow!CanSend'
    <2>1. incoming' # <<>> /\ Head(incoming') = r /\ used' = 0 /\ outgoing' = <<>>
      BY <1>1, <1>2, <1>3
    <2>2. 0 <= Limit - 0
      BY LimitAssumption
    <2>3. QED
      BY <1>4, <2>1, <2>2 DEF Flow!CanSend
  <1>6. alarm' = alarm /\ Flow!Run("GrblVersion" \in Flow!ClearsAlarm)
    BY <1>1 DEF Flow!Enqueue
  <1>7. sending'
    BY <1>1, <1>5, <1>6 DEF Flow!Run
  <1>8. QED
    BY <1>1, <1>2, <1>3, <1>7 DEF IsVersion

\* FlowControl handles a message of a machine that awaits its version.
LEMMA VersionHandles ==
    ASSUME Steady, ~aborted, ~aborted', FlowReadsMachine, state = "Grbl", BeforeVersion
    PROVE  BeforeVersion'
  <1> DEFINE msg == Head(toFlow)
  <1>0. toFlow \in Seq(FlowMessages)
    BY DEF Steady, Types, SocketTypes
  <1>1. /\ toFlow # <<>> /\ toFlow' = Tail(toFlow) /\ msg \in FlowMessages /\ ~sending
        /\ HandlesEnable(msg) \/ HandlesCommand(msg) \/ HandlesEvent(msg)
    BY HandlesMessage
  <1>2. HandlesEvent(msg) => Cleared
    <2>1. HandlesEvent(msg) => HasAdded(toFlow) \/ HasRemoved(toFlow)
      BY <1>0, <1>1, FlowTails DEF HandlesEvent
    <2>2. QED
      BY <2>1 DEF Steady, UsbInv, AddedInFlow, PairInv, LateRemoval
  <1>3. /\ msg = Enable => msg \notin Sends /\ msg # Added /\ msg # Removed
        /\ msg = AskVersion => msg # Enable /\ msg # Added /\ msg # Removed
        /\ msg = Removed => msg # Enable /\ msg \notin Sends
    BY SmallQueues DEF Enable, Removed, Sends
  <1>4. CASE Cleared /\ Enables(toFlow, 1)
    <2>1. msg = Enable /\ Asks(toFlow', 1)
      BY <1>0, <1>1, <1>4, FlowTails
    <2>2. HandlesEnable(msg)
      BY <1>1, <1>3, <2>1 DEF HandlesCommand, HandlesEvent
    <2>3. QED
      BY <1>4, <2>1, <2>2 DEF HandlesEnable, Cleared, BeforeVersion
  <1>5. CASE Cleared /\ Enables(toFlow, 2) /\ msg = Removed
    <2>1. HandlesEvent(msg)
      BY <1>1, <1>3, <1>5 DEF HandlesEnable, HandlesCommand
    <2>2. Enables(toFlow', 1)
      BY <1>0, <1>1, <1>5, VersionQueues
    <2>3. QED
      BY <2>1, <2>2 DEF HandlesEvent, BeforeVersion
  <1>6. CASE Cleared /\ active /\ Asks(toFlow, 1)
    <2>1. msg = AskVersion
      BY <1>0, <1>1, <1>6, FlowTails
    <2>2. HandlesCommand(AskVersion)
      BY <1>1, <1>3, <2>1 DEF HandlesEnable, HandlesEvent
    <2>3. QED
      BY <1>6, <2>2, QueuesVersion DEF Steady, BeforeVersion
  <1>7. CASE outgoing # <<>> /\ IsVersion(Head(outgoing))
    <2>1. outgoing' = outgoing
      BY <1>1, <1>2, <1>7 DEF HandlesEnable, HandlesCommand, Cleared
    <2>2. QED
      BY <1>7, <2>1 DEF BeforeVersion
  <1>8. QED
    BY <1>1, <1>4, <1>5, <1>6, <1>7 DEF BeforeVersion

\* FlowControl sends a request of one that awaits its version.
LEMMA VersionSends ==
    ASSUME Steady, FlowSends, BeforeVersion
    PROVE  BeforeVersion'
  <1> DEFINE r == Head(incoming)
  <1>1. /\ sending /\ incoming # <<>> /\ r \in CalmRequests
        /\ outgoing' = IF Ordinary(r) THEN Append(outgoing, r) ELSE outgoing
    BY SendsRequest DEF Steady
  <1>2. r \in Flow!Request /\ outgoing \in Seq(Flow!Request)
    BY <1>1, RealtimeCounts DEF Steady, Types, FlowTypes
  <1>3. CASE outgoing = <<>> /\ IsVersion(r)
    <2>1. Ordinary(r)
      BY <1>3, SMT DEF IsVersion, Ordinary, Realtime
    <2> HIDE DEF r
    <2>2. Append(<<>>, r) # <<>> /\ Head(Append(<<>>, r)) = r
      BY <1>2
    <2>3. QED
      BY <1>1, <1>3, <2>1, <2>2 DEF BeforeVersion
  <1>4. CASE outgoing # <<>> /\ IsVersion(Head(outgoing))
    <2> HIDE DEF r
    <2>1. Append(outgoing, r) = outgoing \o <<r>> /\ <<r>> \in Seq(Flow!Request)
      BY <1>2
    <2>2. outgoing \o <<r>> # <<>> /\ Head(outgoing \o <<r>>) = Head(outgoing)
      BY <1>2, <1>4, <2>1, HeadTailOfConcat
    <2>3. outgoing' # <<>> /\ Head(outgoing') = Head(outgoing)
      BY <1>1, <1>4, <2>1, <2>2
    <2>4. QED
      BY <1>4, <2>3 DEF BeforeVersion
  <1>5. QED
    BY <1>1, <1>3, <1>4 DEF BeforeVersion, Cleared

\* FlowControl reads a line of its device.
LEMMA VersionReads ==
    ASSUME NoStatusReports, Steady, FlowReadsSerial, InvalidEarly', state = "Grbl", FirstIsVersion
    PROVE  (BeforeVersion' /\ ~Holds(toParent', Responses)) \/ FirstResponse(toParent')
  <1> DEFINE line == Head(fromSerial)
  <1>0. toParent \in Seq(Flow!ParentMessages)
    BY DEF Steady, Types, SocketTypes
  <1>1. /\ UNCHANGED <<state, toFlow, active>> /\ ~sending /\ line \in Flow!Line
        /\ (BeforeVersion /\ ~Holds(toParent, Responses)) \/ FirstResponse(toParent)
    BY ReadsFrame, QuietLines DEF Steady, FirstIsVersion
  <1>2. \A e \in Flow!ParentMessages :
            /\ Holds(Append(toParent, e), Responses) <=> Holds(toParent, Responses) \/ e \in Responses
            /\ Holds(Append(toParent, e), Invalids) <=> Holds(toParent, Invalids) \/ e \in Invalids
            /\ FirstResponse(toParent) => FirstResponse(Append(toParent, e))
            /\ ~Holds(toParent, Responses) /\ e \in Versions => FirstResponse(Append(toParent, e))
    BY <1>0, ParentAppends, FirstResponseFacts
  <1>3. ~ReadsStartup(line)
    BY DEF ReadsStartup, Fresh
  <1>4. ~ReadsUnasked(line)
    <2>1. ASSUME ReadsUnasked(line) PROVE FALSE
      <3>1. PICK m \in Invalids : toParent' = Append(toParent, m)
        BY <2>1 DEF ReadsUnasked
      <3>2. Holds(toParent', Invalids)
        BY <1>2, <3>1 DEF Invalids, Responses
      <3>3. state' \in {"Connected", "Disconnected"}
        BY <3>2 DEF InvalidEarly
      <3>4. QED
        BY <1>1, <3>3
    <2>2. QED
      BY <2>1
  <1>5. CASE ReadsOther(line)
    <2>1. Flow!GrblPush(line) \in Flow!ParentMessages /\ Flow!GrblPush(line) \notin Responses
      BY <1>1, ParentKinds
    <2>2. BeforeVersion' <=> BeforeVersion
      BY <1>1, <1>5 DEF ReadsOther, BeforeVersion, Cleared, Asks, Enables
    <2>3. QED
      BY <1>1, <1>2, <1>5, <2>1, <2>2 DEF ReadsOther
  <1>6. CASE ReadsAnswer(line)
    <2>1. PICK m \in Responses \cap PairedMessages :
              m.type = Head(outgoing).type /\ toParent' = Append(toParent, m)
      BY <1>6 DEF ReadsAnswer
    <2>2. m \in Flow!ParentMessages
      BY DEF Responses
    <2>3. CASE BeforeVersion /\ ~Holds(toParent, Responses)
      <3>1. outgoing # <<>>
        BY <1>6 DEF ReadsAnswer
      <3>2. IsVersion(Head(outgoing))
        BY <1>1, <2>3, <3>1 DEF BeforeVersion, Cleared
      <3>3. m \in Versions
        BY <2>1, <3>2 DEF IsVersion, Versions
      <3>4. QED
        BY <1>2, <2>1, <2>2, <2>3, <3>3
    <2>4. QED
      BY <1>1, <1>2, <2>1, <2>2, <2>3
  <1>7. QED
    BY <1>3, <1>4, <1>5, <1>6, ReadsLine

LEMMA FirstIsVersionStep ==
    ASSUME NoStatusReports, Steady, InvalidEarly', ~aborted, ~aborted', [Next]_vars
    PROVE  FirstIsVersion'
  <1> SUFFICES ASSUME state' = "Grbl"
               PROVE  (BeforeVersion' /\ ~Holds(toParent', Responses)) \/ FirstResponse(toParent')
    BY DEF FirstIsVersion
  <1>0. /\ toParent \in Seq(Flow!ParentMessages) /\ toFlow \in Seq(FlowMessages)
        /\ FirstIsVersion
    BY DEF Steady, Types, SocketTypes, PairInv
  <1>1. CASE MachineReadsFlow
    <2> DEFINE m == Head(toParent)
    <2>1. /\ toParent # <<>> /\ toParent' = Tail(toParent) /\ m \in Flow!ParentMessages
          /\ UNCHANGED <<incoming, outgoing, used, sending, active>>
          /\ \/ m \in Inits /\ toFlow' = toFlow \o Mach!EnableAndAsk
             \/ state = "Grbl" /\ UNCHANGED toFlow /\ m \notin Responses
      BY <1>1, Frames, HandlesParent DEF Steady
    <2>2. /\ Holds(toParent, Responses) <=> m \in Responses \/ Holds(toParent', Responses)
          /\ Holds(toParent, Inits) <=> m \in Inits \/ Holds(toParent', Inits)
      BY <1>0, <2>1, ParentTails
    <2>3. CASE m \in Inits /\ toFlow' = toFlow \o Mach!EnableAndAsk
      <3>1. OnlyInit(toParent) /\ Silent
        BY <2>2, <2>3 DEF Steady, PairInv, Unasked
      <3>2. Cleared' /\ toFlow \in {<<>>, Left} /\ ~Holds(toParent', Responses)
        BY <2>1, <2>2, <3>1 DEF OnlyInit, Silent, Cleared
      <3>3. CASE toFlow = <<>>
        <4>1. Enables(toFlow', 1)
          BY <1>0, <2>3, <3>3, FlowAsked
        <4>2. QED
          BY <3>2, <4>1 DEF BeforeVersion
      <3>4. CASE toFlow = Left
        <4>1. Enables(toFlow', 2) /\ Head(toFlow') = Removed
          BY <2>3, <3>4, OneRemovalFacts
        <4>2. QED
          BY <3>2, <4>1 DEF BeforeVersion
      <3>5. QED
        BY <3>2, <3>3, <3>4
    <2>4. CASE state = "Grbl" /\ UNCHANGED toFlow /\ m \notin Responses
      <3>1. BeforeVersion' <=> BeforeVersion
        BY <2>1, <2>4 DEF BeforeVersion, Cleared, Asks, Enables
      <3>2. FirstResponse(toParent) => FirstResponse(toParent')
        BY <1>0, <2>1, <2>4, FirstResponseFacts
      <3>3. QED
        BY <1>0, <2>2, <2>4, <3>1, <3>2 DEF FirstIsVersion
    <2>5. QED
      BY <2>1, <2>3, <2>4
  <1>2. ~MachineReadsEvent
    BY HandlesUsb DEF Steady
  <1>3. CASE FlowReadsMachine
    <2>1. UNCHANGED <<state, toParent>>
      BY <1>3, HandlesMessage
    <2>2. QED
      BY <1>0, <1>3, <2>1, VersionHandles DEF FirstIsVersion
  <1>4. CASE FlowSends
    <2>1. UNCHANGED <<state, toParent>>
      BY <1>4, SendsRequest DEF Steady
    <2>2. QED
      BY <1>0, <1>4, <2>1, VersionSends DEF FirstIsVersion
  <1>5. CASE FlowReadsSerial
    <2>1. state = "Grbl"
      BY <1>5, ReadsFrame DEF Steady
    <2>2. QED
      BY <1>0, <1>5, <2>1, VersionReads
  <1>6. CASE ClientSends
    <2>1. UNCHANGED <<incoming, outgoing, used, sending, active, toParent, state>>
      BY <1>6, Frames
    <2>2. CASE toFlow' = toFlow
      BY <1>0, <2>1, <2>2 DEF FirstIsVersion, BeforeVersion, Cleared, Asks, Enables
    <2>3. CASE toFlow' # toFlow
      <3>1. PICK m \in FlowMessages : toFlow' = Append(toFlow, m)
        BY <1>6, <2>3, SendsCommand DEF Sends
      <3>2. /\ Asks(toFlow, 1) => Asks(toFlow', 1)
            /\ Enables(toFlow, 1) => Enables(toFlow', 1)
            /\ Enables(toFlow, 2) /\ Head(toFlow) = Removed
                   => Enables(toFlow', 2) /\ Head(toFlow') = Removed
        BY <1>0, <3>1, FlowAppends, VersionQueues
      <3>3. BeforeVersion => BeforeVersion'
        BY <2>1, <3>2 DEF BeforeVersion, Cleared
      <3>4. QED
        BY <1>0, <2>1, <3>3 DEF FirstIsVersion
    <2>4. QED
      BY <2>2, <2>3
  <1>7. CASE Device \/ SerialReadsFlow \/ ContextReads \/ Scan \/ Plug \/ Unplug \/ UNCHANGED vars
    <2>1. UNCHANGED <<incoming, outgoing, used, sending, active, toParent, state, toFlow>>
      BY <1>7, Frames
    <2>2. QED
      BY <1>0, <2>1 DEF FirstIsVersion, BeforeVersion, Cleared, Asks, Enables
  <1>8. QED
    BY <1>1, <1>2, <1>3, <1>4, <1>5, <1>6, <1>7 DEF Next, Actors

-----------------------------------------------------------------------------
(* The invariant holds while the process lives *)

LEMMA PairInit == Init => PairInv
  <1> SUFFICES ASSUME Init PROVE PairInv
    OBVIOUS
  <1>1. /\ toParent = <<>> /\ fromSerial = <<>> /\ outgoing = <<>> /\ toFlow = <<>>
        /\ state = "Disconnected" /\ restarts = 0 /\ ~crossed
    BY DEF Init, Flow!Init, Mach!Init, Link!Init
  <1>2. <<>> \in Seq(PairedMessages) /\ <<>> \in Seq(Flow!Line)
    BY EmptySeq
  <1>3. Answerable(<<>>, <<>>)
    BY <1>2, NothingAsked, HoldsOfEmpty
  <1>4. QED
    BY <1>1, <1>2, <1>3, HoldsOfEmpty, EmptyQueues DEF PairInv, Undisturbed, Waiting, Unasked,
       LateRemoval, InvalidEarly, FirstIsVersion

LEMMA PairStep ==
    ASSUME NothingShifts, Steady, Types', UsbInv', AnswerInv', ~aborted, ~aborted', [Next]_vars
    PROVE  PairInv'
  <1>1. NoAlarms /\ NoRestarts /\ NoStatusReports
    BY DEF NothingShifts
  <1>2. Undisturbed'
    BY <1>1, UndisturbedStep
  <1>3. InvalidEarly'
    BY <1>1, InvalidEarlyStep
  <1>4. (toParent \in Seq(PairedMessages))'
    BY <1>1, PairedStep
  <1>5. Waiting'
    BY <1>1, <1>2, WaitingStep
  <1>6. Unasked' /\ LateRemoval'
    BY <1>1, UnaskedStep, LateRemovalStep
  <1>7. FirstIsVersion'
    BY <1>1, <1>3, FirstIsVersionStep
  <1>8. QED
    BY <1>2, <1>3, <1>4, <1>5, <1>6, <1>7 DEF PairInv

SessionInv == Types /\ Loops /\ CalmTypes /\ (~aborted => UsbInv /\ AnswerInv /\ PairInv)

LEMMA PairAlways ==
    ASSUME NothingShifts
    PROVE  Spec => []SessionInv
  <1>1. Init => SessionInv
    BY InitTypes, CalmInit, UsbInit, AnswerInit, PairInit DEF Init, Flow!Init, Loops, SessionInv
  <1>2. SessionInv /\ [Next]_vars => SessionInv'
    <2> SUFFICES ASSUME Types, Loops, CalmTypes, ~aborted => UsbInv /\ AnswerInv /\ PairInv,
                        [Next]_vars
                 PROVE  SessionInv'
      BY DEF SessionInv
    <2>1. Types' /\ Loops' /\ CalmTypes' /\ (~aborted' => UsbInv')
      BY TypesStep, LoopsStep, CalmStep, UsbStep DEF NothingShifts
    <2>2. ~aborted' => ~aborted
      BY EndedIsStill DEF vars
    <2>3. ~aborted' => AnswerInv'
      BY <2>2, AnswerStep DEF NothingShifts
    <2>4. ~aborted' => PairInv'
      BY <2>1, <2>2, <2>3, PairStep DEF Steady
    <2>5. QED
      BY <2>1, <2>3, <2>4 DEF SessionInv
  <1>3. QED
    BY <1>1, <1>2, PTL DEF Spec

-----------------------------------------------------------------------------
(* The step that ends the process *)

\* It is a failed assertion, an answer to nothing, or a port that throws.
LEMMA EndingSteps ==
    ASSUME Types, Next, aborted'
    PROVE  \/ /\ FlowReadsMachine /\ Head(toFlow).kind = "Send" /\ Head(toFlow).size > Limit
              /\ UNCHANGED <<toParent, state>>
           \/ /\ MachineReadsFlow /\ Head(toParent).kind = "ResponseReceived"
              /\ Mach!Unsolicited(Head(toParent)) /\ ~Mach!Drops(state)
           \/ /\ SerialReadsFlow /\ UNCHANGED <<toParent, state>>
              /\ \/ ~plugged
                 \/ Head(toSerial).kind = "Data" /\ port # "open"
  <1>0. ~aborted
    BY EndedIsStill
  <1>1. CASE FlowReadsMachine
    <2>1. UNCHANGED state
      BY <1>1 DEF FlowReadsMachine, machineVars
    <2>2. CASE Head(toFlow).kind = "Send" /\ Flow!AssertionFails(Head(toFlow).type, Head(toFlow).size)
      BY <1>1, <2>1, <2>2 DEF Flow!AssertionFails, Flow!sockets
    <2>3. QED
      BY <1>0, <1>1, <2>2 DEF FlowReadsMachine, FlowHandles, Flow!SendMessage, Flow!Refuse,
         Flow!PassThrough, Flow!Enqueue, Flow!Reconnect, Flow!EnableFlowControl
  <1>2. ~FlowReadsSerial
    BY <1>0 DEF FlowReadsSerial, Flow!ReceiveData, Flow!ReceiveEmpty, Flow!ReceiveStartup,
       Flow!ReceivePush, Flow!ReceiveMultiline, Flow!ReceiveAlarm, Flow!ReceiveReply
  <1>3. ~FlowSends
    BY <1>0 DEF FlowSends, Flow!Loop, Flow!SendRequest, Flow!SendReset
  <1>4. ~MachineReadsEvent /\ ~ClientSends
    BY <1>0 DEF MachineReadsEvent, Mach!HandleContext, Mach!UsbDeviceAdded,
       Mach!UsbDeviceRemoved, Mach!ForwardGrbl, ClientSends
  <1>5. CASE MachineReadsFlow
    BY <1>0, <1>5 DEF MachineReadsFlow, Mach!HandleFlow, Mach!InitSupported, Mach!InitUnsupported,
       Mach!PushReceived, Mach!DropResponse, Mach!ResponseVersion, Mach!Response,
       Mach!ResponseAborts, Mach!vars
  <1>6. ~ContextReads /\ ~Scan /\ ~Plug /\ ~Unplug
    BY <1>0 DEF ContextReads, Scan, Plug, Unplug, Link!Lose
  <1>7. ~Device
    BY <1>0 DEF Device, DeviceBoots, DeviceRestarts, DeviceReports, DeviceObeys,
       DeviceStartsReply, DeviceReplies, DeviceSpeaks, Prints, Link!Flush
  <1>8. CASE SerialReadsFlow
    BY <1>0, <1>8 DEF SerialReadsFlow, SerialHandles, Link!Transmit, Link!Connect, Link!Disconnect,
       machineVars
  <1>9. QED
    BY <1>1, <1>2, <1>3, <1>4, <1>5, <1>6, <1>7, <1>8 DEF Next, Actors

\* An answer to nothing finds nobody connected, so that it does not end the process.
LEMMA NoneUnsolicited ==
    ASSUME Types, PairInv
    PROVE  AnswersMatch /\ NoUnsolicited
  <1>0. toParent \in Seq(Flow!ParentMessages)
    BY DEF Types, SocketTypes
  <1>1. AnswersMatch
    <2> SUFFICES ASSUME NEW i \in 1..Len(toParent), toParent[i].kind = "ResponseReceived",
                        toParent[i].type # "Invalid"
                 PROVE  Paired(toParent[i])
      BY DEF AnswersMatch
    <2>1. toParent[i] \in PairedMessages /\ toParent[i] \in Flow!ParentMessages
      BY <1>0 DEF PairInv
    <2>2. toParent[i] \in Responses /\ toParent[i] \notin Invalids
      BY <2>1 DEF Responses, Invalids
    <2>3. QED
      BY <2>1, <2>2 DEF PairedMessages
  <1>2. NoUnsolicited
    <2> SUFFICES ASSUME toParent # <<>>, Head(toParent).kind = "ResponseReceived",
                        Head(toParent).type = "Invalid"
                 PROVE  state \in {"Disconnected", "Connected"}
      BY DEF NoUnsolicited, Mach!Unsolicited, Mach!Drops
    <2>1. Head(toParent) \in Invalids
      BY <1>0, ParentTails DEF Invalids, Responses
    <2>2. Holds(toParent, Invalids)
      BY <1>0, <2>1, ParentTails
    <2>3. QED
      BY <2>2 DEF PairInv, InvalidEarly
  <1>3. QED
    BY <1>1, <1>2

\* Under the premises an answer to nothing does not end it, and the step that does leaves
\* Machine's queue and state alone.
LEMMA EndKeepsAnswers ==
    ASSUME Steady, Next, aborted'
    PROVE  /\ UNCHANGED <<toParent, state>>
           /\ \/ /\ FlowReadsMachine /\ Head(toFlow).kind = "Send" /\ Head(toFlow).size > Limit
              \/ SerialReadsFlow /\ (~plugged \/ (Head(toSerial).kind = "Data" /\ port # "open"))
  <1>1. NoUnsolicited
    BY NoneUnsolicited DEF Steady
  <1>2. ~(/\ MachineReadsFlow /\ Head(toParent).kind = "ResponseReceived"
          /\ Mach!Unsolicited(Head(toParent)) /\ ~Mach!Drops(state))
    BY <1>1 DEF NoUnsolicited, MachineReadsFlow
  <1>3. QED
    BY <1>2, EndingSteps DEF Steady

-----------------------------------------------------------------------------
(* The lines an answer carries *)

\* What FlowControl keeps of a reply is pushes and lines of the oldest outstanding
\* request, or it is left over from a device that is gone: nothing is outstanding then,
\* and nobody can ask before a startup line has emptied the buffer.
BufferIsOwn ==
    \A i \in 1..Len(buffer) :
        buffer[i].kind = "push" \/ (outgoing # <<>> /\ buffer[i].tag = Head(outgoing).tag)
LeftOver ==
    /\ Cleared /\ state \in {"Connected", "Disconnected"}
    /\ ~Holds(toFlow, Sends) /\ ~Holds(toParent, Inits)
BufferInv == BufferIsOwn \/ LeftOver

\* Neither no message nor a removal is a command.
LEMMA NoSendsLeft == ~Holds(<<>>, Sends) /\ ~Holds(Left, Sends)
  <1>1. Len(Left) = 1 /\ Left[1] = Removed
    BY DEF Left
  <1>2. Removed \notin Sends
    BY DEF Sends, Removed
  <1>3. QED
    BY <1>1, <1>2, HoldsOfEmpty DEF Holds

\* Of a line that FlowControl reads, what it keeps.
LEMMA KeepsLine ==
    ASSUME NoStatusReports, Steady, BufferInv, FlowReadsSerial
    PROVE  BufferInv'
  <1> DEFINE line == Head(fromSerial)
  <1>1. /\ fromSerial # <<>> /\ fromSerial \in Seq(Flow!Line) /\ Flow!ReceiveData(line)
        /\ UNCHANGED <<state, toFlow>>
    BY DEF FlowReadsSerial, machineVars, Steady, Types, SocketTypes
  <1>2. CASE buffer' = <<>>
    <2>1. Len(buffer') = 0
      BY <1>2
    <2>2. QED
      BY <2>1 DEF BufferInv, BufferIsOwn
  <1>3. CASE Flow!ReceiveMultiline(line)
    <2>1. /\ Flow!Class(line) = "Multiline" /\ buffer' = Flow!Buffered(line)
          /\ UNCHANGED <<incoming, outgoing, used, sending, toParent>>
      BY <1>3 DEF Flow!ReceiveMultiline, Flow!queues, Flow!sockets
    <2>2. /\ line \in Flow!Line /\ line \notin StartupLines
          /\ line.kind # "push" => line \in TextLines \/ line \in GarbledLines
      <3>1. /\ line \in Flow!Line /\ line.kind \in {"grbl", "oldGrbl", "push", "reply", "text"}
            /\ line \in StartupLines <=> line.kind \in {"grbl", "oldGrbl"}
            /\ line.kind = "text" <=> line \in TextLines \/ line \in GarbledLines
        BY <1>1, QuietLines DEF Steady
      <3>2. line.kind \in {"push", "text"}
        BY SMT, <2>1, <3>1 DEF Flow!Class
      <3>3. QED
        BY <3>1, <3>2
    <2>3. buffer \in Seq(Flow!Line) /\ buffer' = Append(buffer, line)
      BY <2>1 DEF Flow!Buffered, Steady, Types, FlowTypes
    <2>4. CASE LeftOver
      BY <1>1, <2>1, <2>4 DEF LeftOver, Cleared, BufferInv
    <2>5. CASE BufferIsOwn /\ (line.kind = "push" \/ (outgoing # <<>> /\ line.tag = Head(outgoing).tag))
      <3>1. /\ Len(Append(buffer, line)) = Len(buffer) + 1 /\ Len(buffer) \in Nat
            /\ \A i \in 1..Len(buffer) : Append(buffer, line)[i] = buffer[i]
            /\ Append(buffer, line)[Len(buffer) + 1] = line
        BY <2>2, <2>3, AppendIsSeq, LenProperties
      <3>2. ASSUME NEW i \in 1..Len(buffer')
            PROVE  \/ buffer'[i].kind = "push"
                   \/ outgoing' # <<>> /\ buffer'[i].tag = Head(outgoing').tag
        <4>1. i \in 1..Len(buffer) \/ i = Len(buffer) + 1
          BY <2>3, <3>1
        <4>2. (buffer'[i] = buffer[i] /\ i \in 1..Len(buffer)) \/ buffer'[i] = line
          BY <2>3, <3>1, <4>1
        <4>3. QED
          BY <2>1, <2>5, <4>2 DEF BufferIsOwn
      <3>3. QED
        BY <3>2 DEF BufferInv, BufferIsOwn
    <2>6. CASE BufferIsOwn /\ line \in GarbledLines
      <3>1. Holds(fromSerial, GarbledLines)
        BY <1>1, <2>6, HoldsOfTail
      <3>2. Fresh
        BY <3>1 DEF Steady, AnswerInv, FirstInv, GarbledIsFresh
      <3>3. toFlow \in {<<>>, Left} /\ toParent = <<>>
        BY <3>2 DEF Fresh
      <3>4. ~Holds(toFlow, Sends) /\ ~Holds(toParent, Inits)
        BY <3>3, NoSendsLeft, HoldsOfEmpty
      <3>5. QED
        BY <1>1, <2>1, <3>2, <3>4 DEF Fresh, Cleared, LeftOver, BufferInv
    <2>7. CASE BufferIsOwn /\ line \in TextLines
      <3>1. CASE Answerable(fromSerial, outgoing)
        <4>1. Begins(line, outgoing)
          BY <1>1, <2>7, <3>1, AnswerableReads DEF Steady, Types, FlowTypes
        <4>2. QED
          BY <2>5, <2>7, <4>1 DEF Begins
      <3>2. CASE Stale
        <4>1. line \in AnswerLines
          BY <2>7 DEF AnswerLines
        <4>2. Holds(fromSerial, AnswerLines)
          BY <1>1, <4>1, HoldsOfTail
        <4>3. ~Holds(toParent, Inits)
          BY <4>2 DEF Steady, PairInv, Unasked, Silent
        <4>4. ~Holds(toFlow, Sends)
          BY <3>2, HoldsOfEmpty DEF Stale
        <4>5. QED
          BY <1>1, <2>1, <3>2, <4>3, <4>4 DEF Stale, Cleared, LeftOver, BufferInv
      <3>3. QED
        BY <3>1, <3>2 DEF Steady, PairInv, Waiting
    <2>8. QED
      BY <2>2, <2>4, <2>5, <2>6, <2>7 DEF BufferInv
  <1>4. QED
    BY <1>1, <1>2, <1>3 DEF Flow!ReceiveData, Flow!ReceiveEmpty, Flow!ReceiveStartup,
       Flow!ReceivePush, Flow!ReceiveAlarm, Flow!ReceiveReply

\* FlowControl handles the removal, or a request.
LEMMA KeepsHandling ==
    ASSUME Steady, ~aborted, ~aborted', BufferInv, FlowReadsMachine
    PROVE  BufferInv'
  <1> DEFINE msg == Head(toFlow)
  <1>1. /\ toFlow # <<>> /\ toFlow' = Tail(toFlow) /\ toFlow \in Seq(FlowMessages)
        /\ UNCHANGED <<state, toParent, fromSerial>>
        /\ HandlesEnable(msg) \/ HandlesCommand(msg) \/ HandlesEvent(msg)
    BY HandlesMessage DEF Steady, Types, SocketTypes
  <1>2. buffer' = buffer
    BY DEF FlowReadsMachine, FlowHandles, Flow!SendMessage, Flow!Refuse, Flow!PassThrough,
       Flow!AssertionFails, Flow!Enqueue, Flow!EnableFlowControl, Flow!Reconnect, Flow!classifier
  <1>3. Holds(toFlow, Sends) <=> msg \in Sends \/ Holds(toFlow', Sends)
    BY <1>1, HoldsOfTail
  <1>4. CASE LeftOver
    <2>1. ~HandlesCommand(msg)
      BY <1>3, <1>4 DEF HandlesCommand, LeftOver
    <2>2. Cleared'
      BY <1>1, <1>4, <2>1 DEF HandlesEnable, HandlesEvent, LeftOver, Cleared
    <2>3. QED
      BY <1>1, <1>3, <1>4, <2>2 DEF LeftOver, BufferInv
  <1>5. CASE BufferIsOwn /\ outgoing' = outgoing
    BY <1>2, <1>5 DEF BufferIsOwn, BufferInv
  <1>6. CASE BufferIsOwn /\ outgoing' # outgoing
    <2>1. HandlesEvent(msg) /\ Cleared' /\ outgoing # <<>>
      BY <1>1, <1>6 DEF HandlesEnable, HandlesCommand, HandlesEvent, Cleared
    <2>2. Waiting'
      BY WaitingHandles
    <2>3. state = "Disconnected" /\ EndsWith(toFlow, Removed) /\ OneRemoval(toFlow) /\ msg = Removed
      <3>1. /\ HasAdded(toFlow) <=> msg = Added \/ HasAdded(Tail(toFlow))
            /\ HasRemoved(toFlow) <=> msg = Removed \/ HasRemoved(Tail(toFlow))
        BY <1>1, FlowTails
      <3>2. msg = Removed
        BY <2>1, <3>1 DEF HandlesEvent, Steady, UsbInv, AddedInFlow, Cleared
      <3>3. OneRemoval(toFlow) /\ state = "Disconnected"
        BY <2>1, <3>1, <3>2 DEF Steady, PairInv, LateRemoval, Cleared
      <3>4. QED
        BY <1>1, <3>2, <3>3 DEF Steady, UsbInv, DisconnectedIsIdle
    <2>4. ~Holds(toFlow', Sends)
      <3>1. Tail(toFlow) = <<>>
        BY <1>1, <2>3, LastRemoval
      <3>2. QED
        BY <1>1, <3>1, HoldsOfEmpty
    <2>5. ~Holds(toParent, Inits)
      BY <2>1 DEF Steady, PairInv, Unasked, Silent, Cleared
    <2>6. QED
      BY <1>1, <2>1, <2>3, <2>4, <2>5 DEF LeftOver, BufferInv
  <1>7. QED
    BY <1>4, <1>5, <1>6 DEF BufferInv

LEMMA KeepsStep ==
    ASSUME NoStatusReports, Steady, ~aborted, ~aborted', BufferInv, [Next]_vars
    PROVE  BufferInv'
  <1>0. toParent \in Seq(Flow!ParentMessages) /\ toFlow \in Seq(FlowMessages)
    BY DEF Steady, Types, SocketTypes
  <1>1. ASSUME UNCHANGED <<buffer, incoming, outgoing, used, sending, state, toFlow, toParent>>
        PROVE  BufferInv'
    BY <1>1 DEF BufferInv, BufferIsOwn, LeftOver, Cleared
  <1>2. ASSUME UNCHANGED <<buffer, outgoing>>, BufferIsOwn
        PROVE  BufferInv'
    BY <1>2 DEF BufferInv, BufferIsOwn
  <1>3. CASE MachineReadsEvent
    <2>1. /\ UNCHANGED <<buffer, incoming, outgoing, used, sending, toParent>>
          /\ Head(events) \in {Added, Removed} /\ toFlow' = Append(toFlow, Head(events))
          /\ state' \in {"Connected", "Disconnected"}
      BY <1>3, Frames, HandlesUsb DEF Steady, MachineReadsEvent, flowVars
    <2>2. Head(events) \in FlowMessages /\ Head(events) \notin Sends
      BY <2>1, MessageKinds DEF Sends, Added, Removed
    <2>3. Holds(toFlow', Sends) <=> Holds(toFlow, Sends)
      BY <1>0, <2>1, <2>2, HoldsOfAppend
    <2>4. LeftOver => LeftOver'
      BY <2>1, <2>3 DEF LeftOver, Cleared
    <2>5. QED
      BY <1>2, <2>1, <2>4 DEF BufferInv
  <1>4. CASE MachineReadsFlow
    <2> DEFINE m == Head(toParent)
    <2>1. /\ UNCHANGED <<buffer, incoming, outgoing, used, sending>>
          /\ toParent # <<>> /\ toParent' = Tail(toParent) /\ m \in Flow!ParentMessages
      BY <1>4, Frames, HandlesParent DEF Steady, MachineReadsFlow, flowVars
    <2>2. Holds(toParent, Inits) <=> m \in Inits \/ Holds(toParent', Inits)
      BY <1>0, <2>1, ParentTails
    <2>3. LeftOver => UNCHANGED <<state, toFlow>>
      BY <1>4, <2>2, HandlesParent DEF Steady, LeftOver
    <2>4. LeftOver => LeftOver'
      BY <2>1, <2>2, <2>3 DEF LeftOver, Cleared
    <2>5. QED
      BY <1>2, <2>1, <2>4 DEF BufferInv
  <1>5. CASE ClientSends
    <2>1. /\ UNCHANGED <<buffer, incoming, outgoing, used, sending, toParent, state>>
          /\ ~Mach!Ready(state) => UNCHANGED toFlow
      BY <1>5, Frames DEF ClientSends, flowVars
    <2>2. LeftOver => LeftOver'
      BY <2>1 DEF LeftOver, Mach!Ready, Cleared
    <2>3. QED
      BY <1>2, <2>1, <2>2 DEF BufferInv
  <1>6. CASE FlowSends
    <2> DEFINE r == Head(incoming)
    <2>1. /\ sending /\ r \in CalmRequests
          /\ outgoing' = IF Ordinary(r) THEN Append(outgoing, r) ELSE outgoing
      BY <1>6, SendsRequest DEF Steady
    <2>2. buffer' = buffer
      BY <1>6 DEF FlowSends, Flow!Loop, Flow!SendRequest, Flow!SendReset, Flow!classifier
    <2>3. BufferIsOwn
      BY <2>1 DEF BufferInv, LeftOver, Cleared
    <2>4. outgoing # <<>> => outgoing' # <<>> /\ Head(outgoing') = Head(outgoing)
      <3>1. r \in Flow!Request /\ outgoing \in Seq(Flow!Request)
        BY <2>1 DEF CalmRequests, Steady, Types, FlowTypes
      <3> HIDE DEF r
      <3>2. /\ Append(outgoing, r) = outgoing \o <<r>> /\ <<r>> \in Seq(Flow!Request)
            /\ Append(outgoing, r) # <<>>
        BY <3>1, AppendIsSeq, RequestQueues DEF Queues
      <3>3. outgoing # <<>> => Head(outgoing \o <<r>>) = Head(outgoing)
        BY <3>1, <3>2, HeadTailOfConcat
      <3>4. QED
        BY <2>1, <3>2, <3>3
    <2>5. QED
      BY <2>2, <2>3, <2>4 DEF BufferInv, BufferIsOwn
  <1>7. CASE Device
    <2>1. UNCHANGED <<incoming, outgoing, used, sending, toParent, state, toFlow>>
      BY <1>7, Frames
    <2>2. buffer' = buffer
      BY <1>7 DEF Device, DeviceBoots, DeviceRestarts, DeviceReports, DeviceObeys,
         DeviceStartsReply, DeviceReplies, DeviceSpeaks, Prints, flowVars
    <2>3. QED
      BY <1>1, <2>1, <2>2
  <1>8. CASE ContextReads \/ Scan \/ SerialReadsFlow \/ Plug \/ Unplug \/ UNCHANGED vars
    <2>1. UNCHANGED <<incoming, outgoing, used, sending, toParent, state, toFlow>>
      BY <1>8, Frames
    <2>2. buffer' = buffer
      BY <1>8 DEF ContextReads, Scan, SerialReadsFlow, Plug, Unplug, vars, flowVars
    <2>3. QED
      BY <1>1, <2>1, <2>2
  <1>9. QED
    BY <1>3, <1>4, <1>5, <1>6, <1>7, <1>8, KeepsLine, KeepsHandling DEF Next, Actors

\* The answer that FlowControl makes of what it has kept.
LEMMA AnswersOwn ==
    ASSUME NoStatusReports, Steady, ~aborted, ~aborted', BufferInv, AnswersHoldOwnLines,
           [Next]_vars
    PROVE  AnswersHoldOwnLines'
  <1>0. toParent \in Seq(Flow!ParentMessages)
    BY DEF Steady, Types, SocketTypes
  <1>1. CASE toParent' = toParent
    BY <1>1 DEF AnswersHoldOwnLines
  <1>2. CASE toParent # <<>> /\ toParent' = Tail(toParent)
    <2>1. /\ Len(toParent') = Len(toParent) - 1
          /\ \A i \in 1..Len(toParent') : toParent'[i] = toParent[i + 1]
      BY <1>0, <1>2, TailIsSeq
    <2>2. QED
      BY <1>0, <2>1 DEF AnswersHoldOwnLines
  <1>3. ASSUME NEW m \in Flow!ParentMessages, toParent' = Append(toParent, m),
               m.kind = "ResponseReceived" /\ m.type # "Invalid" => OwnLines(m)
        PROVE  AnswersHoldOwnLines'
    <2>1. /\ Len(toParent') = Len(toParent) + 1 /\ Len(toParent) \in Nat
          /\ \A i \in 1..Len(toParent) : toParent'[i] = toParent[i]
          /\ toParent'[Len(toParent) + 1] = m
      BY <1>0, <1>3, AppendIsSeq, LenProperties
    <2>2. ASSUME NEW i \in 1..Len(toParent')
          PROVE  i \in 1..Len(toParent) \/ toParent'[i] = m
      BY <2>1
    <2>3. QED
      BY <1>3, <2>1, <2>2 DEF AnswersHoldOwnLines
  <1>4. CASE FlowReadsSerial
    <2> DEFINE line == Head(fromSerial)
    <2>1. /\ fromSerial # <<>> /\ line \in Flow!Line /\ Flow!ReceiveData(line)
      BY <1>4, QuietLines DEF FlowReadsSerial, Steady
    <2>2. CASE ReadsStartup(line)
      <3>1. Flow!InitGrbl(line) \in Flow!ParentMessages /\ Flow!InitGrbl(line) \notin Responses
        BY <2>1, ParentKinds, MessageTypes
      <3>2. Flow!InitGrbl(line).kind # "ResponseReceived"
        BY <3>1, ParentKinds
      <3>3. QED
        BY <1>3, <2>2, <3>1, <3>2 DEF ReadsStartup
    <2>3. CASE ReadsOther(line)
      <3>1. Flow!GrblPush(line) \in Flow!ParentMessages
            /\ Flow!GrblPush(line).kind # "ResponseReceived"
        BY <2>1, ParentKinds
      <3>2. QED
        BY <1>1, <1>3, <2>3, <3>1 DEF ReadsOther
    <2>4. CASE ReadsUnasked(line)
      <3>1. \A m \in Invalids : m \in Flow!ParentMessages /\ m.type = "Invalid"
        BY DEF Invalids, Responses
      <3>2. QED
        BY <1>3, <2>4, <3>1 DEF ReadsUnasked
    <2>5. CASE ReadsAnswer(line)
      <3> DEFINE request == Head(outgoing)
                 lines == Flow!Buffered(line)
                 m == Flow!Response(request, lines)
      <3>1. /\ line \in ReplyLines /\ outgoing # <<>> /\ line.tag = request.tag
            /\ outgoing' = Tail(outgoing) /\ outgoing \in Seq(Flow!Request)
        BY <2>5 DEF ReadsAnswer, Steady, Types, FlowTypes
      <3>2. toParent' = Append(toParent, m)
        <4>1. outgoing' # outgoing
          <5>1. Len(Tail(outgoing)) = Len(outgoing) - 1 /\ Len(outgoing) \in Nat
            BY <3>1, TailIsSeq
          <5>2. Len(Tail(outgoing)) # Len(outgoing)
            BY <5>1
          <5>3. Tail(outgoing) # outgoing
            BY <5>2, Zenon
          <5>4. QED
            BY <3>1, <5>3, Zenon
        <4>2. Flow!ReceiveReply(line)
          BY <2>1, <4>1 DEF Flow!ReceiveData, Flow!ReceiveEmpty, Flow!ReceiveStartup,
             Flow!ReceivePush, Flow!ReceiveMultiline, Flow!ReceiveAlarm, Flow!queues
        <4>3. QED
          BY <3>1, <4>2 DEF Flow!ReceiveReply
      <3>3. \A i \in 1..Len(buffer) : buffer[i].kind = "push" \/ buffer[i].tag = request.tag
        BY <3>1 DEF BufferInv, LeftOver, Cleared, BufferIsOwn
      <3>4. buffer \in Seq(Flow!Line) /\ request \in Flow!Request
        BY <3>1, TailIsSeq DEF Steady, Types, FlowTypes
      <3>5. lines = <<line>> \/ lines = Append(buffer, line)
        BY DEF Flow!Buffered
      <3> HIDE DEF lines, request
      <3>6. /\ lines \in Seq(Flow!Line)
            /\ \A j \in 1..Len(lines) : lines[j].kind = "push" \/ lines[j].tag = request.tag
        <4>1. CASE lines = <<line>>
          <5>1. /\ <<line>> \in Seq(Flow!Line) /\ Len(<<line>>) = 1 /\ <<line>>[1] = line
            BY <2>1
          <5>2. lines \in Seq(Flow!Line)
            BY <4>1, <5>1
          <5>3. ASSUME NEW j \in 1..Len(lines)
                PROVE  lines[j].tag = request.tag
            <6>1. Len(lines) = 1 /\ lines[1] = line
              BY <4>1, <5>1
            <6>2. j = 1
              BY <6>1
            <6>3. QED
              BY <3>1, <6>1, <6>2
          <5>4. QED
            BY <5>2, <5>3
        <4>2. CASE lines = Append(buffer, line)
          <5>1. /\ Append(buffer, line) \in Seq(Flow!Line) /\ Len(buffer) \in Nat
                /\ Len(Append(buffer, line)) = Len(buffer) + 1
                /\ \A i \in 1..Len(buffer) : Append(buffer, line)[i] = buffer[i]
                /\ Append(buffer, line)[Len(buffer) + 1] = line
            BY <2>1, <3>4, AppendIsSeq, LenProperties
          <5>2. ASSUME NEW j \in 1..Len(lines)
                PROVE  (j \in 1..Len(buffer) /\ lines[j] = buffer[j]) \/ lines[j] = line
            BY <4>2, <5>1
          <5>3. QED
            BY <3>1, <3>3, <4>2, <5>1, <5>2
        <4>3. QED
          BY <3>5, <4>1, <4>2
      <3>7. m \in Responses /\ m.tag = request.tag /\ m.lines = lines
        BY <3>4, <3>6, ParentKinds
      <3>8. OwnLines(m)
        BY <3>6, <3>7 DEF OwnLines
      <3>9. m \in Flow!ParentMessages
        BY <3>7 DEF Responses
      <3>10. QED
        BY <1>3, <3>2, <3>8, <3>9
    <2>6. QED
      BY <1>4, <2>2, <2>3, <2>4, <2>5, ReadsLine
  <1>5. QED
    BY <1>1, <1>2, <1>4, ParentChanges

-----------------------------------------------------------------------------
(* The theorems *)

LEMMA AnswersAlways ==
    ASSUME NothingShifts
    PROVE  Spec => [](AnswersMatch /\ NoUnsolicited)
  <1>1. Init => AnswersMatch /\ NoUnsolicited
    BY InitTypes, PairInit, NoneUnsolicited
  <1>2. SessionInv /\ SessionInv' /\ AnswersMatch /\ NoUnsolicited /\ [Next]_vars
        => AnswersMatch' /\ NoUnsolicited'
    <2> SUFFICES ASSUME SessionInv, SessionInv', AnswersMatch, NoUnsolicited, [Next]_vars
                 PROVE  AnswersMatch' /\ NoUnsolicited'
      OBVIOUS
    <2>1. CASE ~aborted'
      <3>1. Types' /\ PairInv'
        BY <2>1 DEF SessionInv
      <3>2. QED
        BY <3>1, NoneUnsolicited, PTL
    <2>2. CASE UNCHANGED vars
      BY <2>2 DEF vars, machineVars, AnswersMatch, NoUnsolicited
    <2>3. CASE aborted' /\ Next
      <3>1. ~aborted
        BY <2>3, EndedIsStill
      <3>2. Steady
        BY <3>1 DEF SessionInv, Steady
      <3>3. UNCHANGED <<toParent, state>>
        BY <2>3, <3>2, EndKeepsAnswers
      <3>4. QED
        BY <3>3 DEF AnswersMatch, NoUnsolicited
    <2>4. QED
      BY <2>1, <2>2, <2>3
  <1>3. QED
    BY <1>1, <1>2, PairAlways, PTL DEF Spec

\* Where nothing shifts the answers against the requests, every answer that FlowControl
\* hands to Machine ends with the line its device printed for that very request, over every
\* unplugging with requests outstanding, and every line that is left over.
THEOREM AnswersAlwaysMatch ==
    ASSUME NothingShifts
    PROVE  Spec => []AnswersMatch
  BY AnswersAlways, PTL

LEMMA BufferAlways ==
    ASSUME NothingShifts
    PROVE  Spec => []AnswersHoldOwnLines
  <1> DEFINE J == AnswersHoldOwnLines /\ (~aborted => BufferInv)
  <1>1. Init => J
    <2> SUFFICES ASSUME Init PROVE J
      OBVIOUS
    <2>1. toParent = <<>> /\ buffer = <<>>
      BY DEF Init, Flow!Init, Mach!Init, Link!Init
    <2>2. Len(toParent) = 0 /\ Len(buffer) = 0
      BY <2>1
    <2>3. QED
      BY <2>2 DEF AnswersHoldOwnLines, BufferInv, BufferIsOwn
  <1>2. SessionInv /\ SessionInv' /\ J /\ [Next]_vars => J'
    <2> SUFFICES ASSUME SessionInv, SessionInv', AnswersHoldOwnLines, ~aborted => BufferInv,
                        [Next]_vars
                 PROVE  J'
      OBVIOUS
    <2>1. CASE ~aborted'
      <3>1. ~aborted
        BY <2>1, EndedIsStill DEF vars
      <3>2. Steady /\ NoStatusReports
        BY <3>1 DEF SessionInv, Steady, NothingShifts
      <3>3. QED
        BY <2>1, <3>1, <3>2, KeepsStep, AnswersOwn
    <2>2. CASE UNCHANGED vars /\ aborted'
      BY <2>2 DEF vars, AnswersHoldOwnLines
    <2>3. CASE aborted' /\ Next
      <3>1. ~aborted
        BY <2>3, EndedIsStill
      <3>2. Steady
        BY <3>1 DEF SessionInv, Steady
      <3>3. UNCHANGED toParent
        BY <2>3, <3>2, EndKeepsAnswers
      <3>4. QED
        BY <2>3, <3>3 DEF AnswersHoldOwnLines
    <2>4. QED
      BY <2>1, <2>2, <2>3
  <1>3. QED
    BY <1>1, <1>2, PairAlways, PTL DEF Spec

\* Where nothing shifts the answers against the requests, an answer holds lines of its own
\* reply and pushes, whatever was cut short by the unplugging before it: the lines left in
\* the classifier's buffer are gone before anything can be asked.
THEOREM AnswersAlwaysHoldOwnLines ==
    ASSUME NothingShifts
    PROVE  Spec => []AnswersHoldOwnLines
  BY BufferAlways

\* Where nothing shifts them, the answer of type Command::Invalid, which ends the process of
\* a connected machine, finds none connected: not for the rest of a cut line, nor for
\* the answers to requests that FlowControl gave up at the removal.
THEOREM UnsolicitedIsDropped ==
    ASSUME NothingShifts
    PROVE  Spec => []NoUnsolicited
  BY AnswersAlways, PTL

\* Where nothing shifts them, the answer that identifies the machine is the one to its $I,
\* whatever clients queue meanwhile and whatever was answered before.
THEOREM AlwaysIdentifiedByVersion ==
    ASSUME NothingShifts
    PROVE  Spec => IdentifiedByVersion
  <1>1. SessionInv /\ [Next]_vars
        => [state = "Grbl" /\ state' = "Identified" => Head(toParent).type = "GrblVersion"]_vars
    <2> SUFFICES ASSUME SessionInv, Next, state = "Grbl", state' = "Identified"
                 PROVE  Head(toParent).type = "GrblVersion"
      BY DEF vars, machineVars
    <2>1. Steady
      BY EndedIsStill DEF SessionInv, Steady
    <2>2. MachineReadsFlow
      <3>1. ~MachineReadsEvent
        BY <2>1, HandlesUsb DEF Steady
      <3>2. ~FlowReadsMachine /\ ~FlowReadsSerial /\ ~FlowSends
        BY DEF FlowReadsMachine, FlowReadsSerial, FlowSends, machineVars
      <3>3. QED
        BY <3>1, <3>2, Frames DEF Next, Actors
    <2>3. toParent # <<>> /\ Head(toParent) \in Responses
      BY <2>1, <2>2, Frames, HandlesParent DEF Steady
    <2>4. Holds(toParent, Responses)
      BY <2>1, <2>3, ParentTails DEF Steady, Types, SocketTypes
    <2>5. FirstResponse(toParent)
      BY <2>1, <2>4 DEF Steady, PairInv, FirstIsVersion
    <2>6. Head(toParent) \in Versions
      BY <2>1, <2>3, <2>5, FirstResponseFacts DEF Steady, Types, SocketTypes
    <2>7. QED
      BY <2>6 DEF Versions
  <1>2. QED
    BY <1>1, PairAlways, PTL DEF Spec, IdentifiedByVersion

\* What clients and Machine send is no longer than the device's buffer, the G-code
\* and the text of the other commands alike.
ShortRequests == 3 <= Limit /\ \A size \in GcodeSizes : size <= Limit

\* Where nothing shifts them and no request is longer than the device's buffer, only
\* unplugging ends the process: the assertion of queue() holds, no answer to
\* nothing reaches a connected machine, and a port that throws has lost its device.
THEOREM OnlyUnpluggingEnds ==
    ASSUME NothingShifts, ShortRequests
    PROVE  Spec => EndsOnlyByUnplugging
  <1>1. SessionInv /\ [Next]_vars => [~aborted /\ aborted' => ~plugged \/ port = "dead"]_vars
    <2> SUFFICES ASSUME SessionInv, Next, ~aborted, aborted', plugged, port # "dead"
                 PROVE  FALSE
      BY DEF vars, SessionInv, Types, DeviceTypes
    <2>1. Steady
      BY DEF SessionInv, Steady
    <2>2. CASE FlowReadsMachine /\ Head(toFlow).kind = "Send" /\ Head(toFlow).size > Limit
      <3>1. Head(toFlow) \in CalmCommands /\ Head(toFlow) \in FlowMessages
        BY <2>1, <2>2, TailIsSeq DEF Steady, CalmTypes, FlowReadsMachine, CalmCommands
      <3>2. Head(toFlow).size \in Nat
        BY <2>2, <3>1, MessageKinds
      <3>3. Head(toFlow).size <= Limit
        <4>1. Head(toFlow).size \in GcodeSizes \/ Head(toFlow).size <= 3
          BY <2>2, <3>1 DEF CalmCommands
        <4>2. QED
          BY <3>2, <4>1, LimitAssumption DEF ShortRequests
      <3>4. QED
        BY <2>2, <3>2, <3>3, LimitAssumption
    <2>3. CASE SerialReadsFlow /\ Head(toSerial).kind = "Data" /\ port # "open"
      <3>1. port = "closed" /\ toSerial # <<>>
        BY <2>1, <2>3 DEF Steady, Types, DeviceTypes, SerialReadsFlow
      <3>2. ~HasAdded(events) /\ ~HasAdded(toFlow) /\ known
        BY <2>1, <3>1 DEF Steady, UsbInv, NotYet, AddedInFlow
      <3>3. HasAdded(toSerial)
        BY <2>1, <3>1, <3>2 DEF Steady, UsbInv, PortKnown
      <3>4. Head(toSerial) = Added
        BY <2>1, <3>3, SmallQueues DEF Steady, UsbInv, AddedInSerial
      <3>5. QED
        BY <2>3, <3>4 DEF Added
    <2>4. QED
      BY <2>1, <2>2, <2>3, EndKeepsAnswers
  <1>2. QED
    BY <1>1, PairAlways, PTL DEF Spec, EndsOnlyByUnplugging
=============================================================================
