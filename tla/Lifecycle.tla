----------------------------- MODULE Lifecycle ------------------------------
(***************************************************************************)
(* A context of the library with one device that it has seen before, from  *)
(* the messages that keep its threads busy to libsubtractive_close_context:*)
(* which thread may wait for which, and whether the close returns.         *)
(*                                                                         *)
(* Handlers are reduced to the messages they send.  What FlowControl's     *)
(* alarm, empty requests and realtime slot add to the window of the queue  *)
(* is that it may send fewer requests than the window admits.  Machine's   *)
(* state decides whether it passes a command or an answer on.              *)
(***************************************************************************)
EXTENDS Actors, FiniteSets

CONSTANTS
    Window,       \* requests of the queue that are outstanding at most
    Backlog,      \* lines that the device and the terminal hold at most
    Requests,     \* what clients send: "queued" or "unlock" commands, "shutdown"
    MaxCommands,  \* bound: messages clients send (0: no bound)
    MaxWaiting,   \* bound: messages that clients may have waiting for the Context
    MaxPlugs,     \* bound: times the device is plugged in or out
    MaxPrinted    \* bound: lines the device prints unasked

ASSUME LifecycleAssumption ==
    /\ Hwm \in Nat \ {0}
    /\ Window \in Nat /\ Backlog \in Nat
    /\ Requests \subseteq {"queued", "unlock", "shutdown"}
    /\ {MaxCommands, MaxWaiting, MaxPlugs, MaxPrinted} \subseteq Nat

\* The window of 128 bytes and the terminal's buffer hold far fewer lines than a
\* socket pair holds messages, which suffices for all reports of Hotplug.
ASSUME RoomyChannels == Window <= Hwm /\ Backlog <= Hwm /\ MaxPlugs <= Hwm

VARIABLES
    phase,      \* of the context: "open", "closing" or "closed"
    quiet,      \* history: nothing was under way when the close began
    waiting,    \* requests in FlowControl's queue
    unanswered, \* requests of the queue that are outstanding
    lines,      \* what the device is about to print
    plugged,    \* the device is connected
    known,      \* device_list_ of Hotplug has it
    commands, plugs, printed   \* counted against the bounds

flowVars   == <<waiting, unanswered>>
deviceVars == <<lines, plugged, plugs, printed>>
vars == <<actorVars, phase, quiet, flowVars, deviceVars, known, commands>>

-----------------------------------------------------------------------------
(* The handlers *)

\* Context::process_command.
ContextForwards ==
    \E message \in {"queued", "unlock", "added", "removed"} :
        Take("context", "router", message, <<Send("toMachine", message)>>)

ContextDrops == Take("context", "toContext", "answer", <<>>)

\* Command::Shutdown: the thread of the Context returns after this pass.
ContextStops == Take("context", "router", "shutdown", <<Stop("context")>>)

\* Machine::process_command.
MachineHandles ==
    \/ \E message \in {"queued", "unlock", "added", "removed"} :
           Take("machine", "toMachine", message, <<Send("toFlow", message)>>)
    \/ \E message \in {"queued", "unlock"} :
           Take("machine", "toMachine", message, <<>>)
    \/ \E handling \in {<<>>, <<Send("toFlow", "enable"), Send("toFlow", "queued")>>} :
           Take("machine", "toParent", "startup", handling)
    \/ \E handling \in {<<>>, <<Send("toContext", "answer")>>} :
           Take("machine", "toParent", "answer", handling)

Repeat(op, n) == [i \in 1..n |-> op]
Transmit(n) == Repeat(Send("toSerial", "queued"), n)

\* run(): what of the queue the window lets through, or less.
Sendable(queued, outstanding) ==
    {n \in 0..queued : outstanding + n <= Window}

FlowQueues ==
    \E n \in Sendable(waiting + 1, unanswered) :
        /\ Take("flow", "toFlow", "queued", Transmit(n))
        /\ waiting' = waiting + 1 - n
        /\ unanswered' = unanswered + n

\* $X goes ahead of the queue, and its bytes are not counted.
FlowUnlocks ==
    \E n \in Sendable(waiting, unanswered) :
        /\ Take("flow", "toFlow", "unlock", <<Send("toSerial", "unlock")>> \o Transmit(n))
        /\ waiting' = waiting - n
        /\ unanswered' = unanswered + n

FlowReconnects ==
    /\ \E event \in {"added", "removed"} :
           Take("flow", "toFlow", event, <<Send("toSerial", event)>>)
    /\ waiting' = 0 /\ unanswered' = 0

FlowEnables == Take("flow", "toFlow", "enable", <<>>) /\ UNCHANGED flowVars

\* In alarm.
FlowRefuses == Take("flow", "toFlow", "queued", <<>>) /\ UNCHANGED flowVars

\* The answer is passed on before the queue goes on.
FlowReceives ==
    \E answered \in {"queued", "unlock"} :
        LET left == IF answered = "queued" /\ unanswered > 0 THEN unanswered - 1
                                                             ELSE unanswered IN
        \E n \in Sendable(waiting, left) :
            /\ Take("flow", "fromSerial", answered,
                    <<Send("toParent", "answer")>> \o Transmit(n))
            /\ waiting' = waiting - n
            /\ unanswered' = left + n

\* Lines of a longer reply are kept.
FlowRelays ==
    /\ \/ Take("flow", "fromSerial", "startup", <<Send("toParent", "startup")>>)
       \/ \E handling \in {<<>>, <<Send("toParent", "answer")>>} :
              Take("flow", "fromSerial", "push", handling)
    /\ UNCHANGED flowVars

FlowHandles ==
    \/ FlowQueues \/ FlowRefuses \/ FlowUnlocks \/ FlowReconnects
    \/ FlowEnables \/ FlowReceives \/ FlowRelays

\* What the device prints beyond the backlog is lost.
Prints(line) ==
    lines' = IF plugged /\ "reader" \in running
                        /\ Len(lines) + Len(work["reader"]) + Len(channel["internal"]) < Backlog
             THEN Append(lines, line) ELSE lines

SerialTransmits ==
    \E request \in {"queued", "unlock"} :
        Take("serial", "toSerial", request, <<>>) /\ Prints(request)

SerialConnects ==
    /\ \/ Take("serial", "toSerial", "added", Connect)
       \/ Take("serial", "toSerial", "removed", Disconnect)
    /\ UNCHANGED lines

SerialRelays ==
    /\ \E line \in {"queued", "unlock", "startup", "push"} :
           Take("serial", "internal", line, <<Send("fromSerial", line)>>)
    /\ UNCHANGED lines

SerialHandles == SerialTransmits \/ SerialConnects \/ SerialRelays

-----------------------------------------------------------------------------
(* The thread that reads the port, the USB scan, and close_context *)

\* read_cb at the end of a line.
ReadLine ==
    /\ Idle("reader") /\ "reader" \in running
    /\ lines # <<>>
    /\ Begin("reader", channel, <<Send("internal", Head(lines))>>)
    /\ lines' = Tail(lines)
    /\ UNCHANGED <<todo, running, ended, closed>>

\* An operation of a thread's work.  A port that is opened prints the startup line;
\* one that is gone ends the process, and nothing is left that waits.
Works(thread) ==
    /\ Do(thread)
    /\ lines' = IF Head(work[thread]).do # "start" THEN lines
                ELSE IF plugged THEN <<"startup">> ELSE <<>>

\* enumerate_usb.  Hotplug has a connection to the ROUTER for itself.
Scan ==
    /\ Idle("hotplug") /\ "hotplug" \in running
    /\ plugged # known
    /\ channel' = [channel EXCEPT !["router"] =
                       Append(@, IF plugged THEN "added" ELSE "removed")]
    /\ known' = plugged
    /\ UNCHANGED <<todo, work, running, ended, closed>>

\* Nothing is under way.
Settled ==
    /\ \A ch \in Channels : channel[ch] = <<>>
    /\ \A thread \in Threads : work[thread] = <<>>
    /\ \A actor \in Actor : todo[actor] = <<>>
    /\ lines = <<>> /\ plugged = known

\* libsubtractive_close_context deletes the context.
CloseContext ==
    /\ phase = "open"
    /\ phase' = "closing"
    /\ quiet' \in {FALSE, Settled}
    /\ work' = [work EXCEPT !["api"] = DestroyContext]
    /\ UNCHANGED <<channel, todo, running, ended, closed>>

ContextIsClosed ==
    /\ phase = "closing" /\ work["api"] = <<>>
    /\ phase' = "closed"
    /\ UNCHANGED <<actorVars, quiet>>

-----------------------------------------------------------------------------
(* Clients and the device.  They leave a quiet close alone. *)

Reaches(message) ==
    /\ ~quiet /\ "context" \notin closed
    /\ Len(channel["router"]) < MaxWaiting
    /\ channel' = [channel EXCEPT !["router"] = Append(@, message)]
    /\ UNCHANGED <<todo, work, running, ended, closed>>

ClientSends ==
    /\ MaxCommands = 0 \/ commands < MaxCommands
    /\ \E request \in Requests : Reaches(request)
    /\ commands' = IF MaxCommands = 0 THEN 0 ELSE commands + 1

DeviceSpeaks ==
    /\ ~quiet /\ printed < MaxPrinted
    /\ Prints("push") /\ lines' # lines
    /\ printed' = printed + 1
    /\ UNCHANGED <<plugged, plugs>>

PlugOrUnplug ==
    /\ ~quiet /\ plugs < MaxPlugs
    /\ plugged' = ~plugged
    /\ lines' = <<>>
    /\ plugs' = plugs + 1
    /\ UNCHANGED printed

-----------------------------------------------------------------------------

Init ==
    /\ plugged \in BOOLEAN /\ known = plugged
    /\ channel = [ch \in Channels |-> <<>>]
    /\ todo = [actor \in Actor |-> <<>>]
    /\ work = [thread \in Threads |-> <<>>]
    /\ running = Actor \cup {"hotplug"} \cup (IF plugged THEN {"reader"} ELSE {})
    /\ ended = Threads \ (running \cup {"api"}) /\ closed = {}
    /\ phase = "open" /\ quiet = FALSE
    /\ waiting = 0 /\ unanswered = 0
    /\ lines = <<>> /\ commands = 0 /\ plugs = 0 /\ printed = 0

\* One step of a thread.
ThreadStep(thread) ==
    /\ \/ Works(thread)
       \/ Return(thread) /\ UNCHANGED lines
    /\ UNCHANGED <<phase, quiet, flowVars, plugged, plugs, printed, known, commands>>

ContextStep ==
    /\ ContextForwards \/ ContextDrops \/ ContextStops
    /\ UNCHANGED <<phase, quiet, flowVars, deviceVars, known, commands>>

MachineStep ==
    /\ MachineHandles
    /\ UNCHANGED <<phase, quiet, flowVars, deviceVars, known, commands>>

FlowStep ==
    /\ FlowHandles
    /\ UNCHANGED <<phase, quiet, deviceVars, known, commands>>

SerialStep ==
    /\ SerialHandles
    /\ UNCHANGED <<phase, quiet, flowVars, plugged, plugs, printed, known, commands>>

ReaderStep ==
    /\ ReadLine
    /\ UNCHANGED <<phase, quiet, flowVars, plugged, plugs, printed, known, commands>>

HotplugStep ==
    /\ Scan
    /\ UNCHANGED <<phase, quiet, flowVars, deviceVars, commands>>

ApiStep ==
    /\ CloseContext \/ ContextIsClosed
    /\ UNCHANGED <<flowVars, deviceVars, known, commands>>

Environment ==
    \/ /\ ClientSends
       /\ UNCHANGED <<phase, quiet, flowVars, deviceVars, known>>
    \/ /\ DeviceSpeaks \/ PlugOrUnplug
       /\ UNCHANGED <<actorVars, phase, quiet, flowVars, known, commands>>

Handlers == ContextStep \/ MachineStep \/ FlowStep \/ SerialStep

Next ==
    \/ \E thread \in Threads : ThreadStep(thread)
    \/ Handlers \/ ReaderStep \/ HotplugStep
    \/ ApiStep
    \/ Environment

Spec == Init /\ [][Next]_vars

\* The operating system runs every thread that can run; closing waits for none but
\* these.
Fairness ==
    /\ \A thread \in Threads : WF_vars(ThreadStep(thread))
    /\ WF_vars(ContextStep) /\ WF_vars(MachineStep)
    /\ WF_vars(FlowStep) /\ WF_vars(SerialStep)
    /\ WF_vars(ContextIsClosed /\ UNCHANGED <<flowVars, deviceVars, known, commands>>)

FairSpec == Spec /\ Fairness

-----------------------------------------------------------------------------
(* Properties *)

\* The thread that must act before a blocked thread can go on.
WaitsFor(thread) ==
    LET op == Head(work[thread]) IN
    IF op.do = "join" THEN op.thread ELSE Reader[op.channel]

\* Threads that wait for each other: everyone in the set waits for another of the set.
Deadlocked(set) == set # {} /\ \A thread \in set : WaitsFor(thread) \in set

\* No threads wait for each other in a circle, whenever the context is closed and
\* however much clients send, be it $X or what the window counts; with both, sent
\* without end, FlowControl and SerialConnection can fill the sockets between them.
\* Machine and FlowControl send to each other over one socket pair, and neither can
\* take a message while its own send waits: what keeps both directions from being full
\* at once is that a pass of either one takes from each of its ready sockets in turn,
\* so that it sends the other at most one message more than it takes.
NoCyclicWait ==
    \A set \in SUBSET {thread \in Threads : Blocked(thread)} : ~Deadlocked(set)

\* A thread blocked for good: its message is for an actor whose thread has returned.
Stranded ==
    \E thread \in Threads :
        /\ Blocked(thread) /\ Head(work[thread]).do = "send"
        /\ WaitsFor(thread) \in ended

\* libsubtractive_close_context returns, whatever was under way and whoever still
\* sends, unless a thread is stranded: shut down in another order, the destructors
\* would wait for a thread that a later message has started again.
CloseReturns == phase = "closing" ~> phase = "closed" \/ Stranded

\* Closing a context in which nothing is under way returns, with no exception.
QuietCloseReturns == quiet ~> phase = "closed"
=============================================================================
