------------------------------- MODULE Actors -------------------------------
(***************************************************************************)
(* The threads of one library context with one device, and what they wait  *)
(* for: an actor polls its sockets and takes one message from each that is *)
(* ready, a send on a full socket blocks its thread, and the destruction of*)
(* the context joins the threads one after another while the others still  *)
(* run.                                                                    *)
(*                                                                         *)
(* What a handler, the scan or a destructor does next is a sequence of     *)
(* operations, `work'; an operation that cannot be done blocks its thread. *)
(* Polling, taking a message and the first send of its handler, when it    *)
(* need not wait, are one step: until then no other thread is touched.     *)
(* Sends of the Context to clients do not block: a ROUTER drops.           *)
(***************************************************************************)
EXTENDS Integers, Sequences

CONSTANT Hwm    \* messages a socket pair holds before a send blocks

VARIABLES
    channel,    \* the messages in each socket pair
    todo,       \* the sockets an actor still takes a message from in this pass
    work,       \* the operations a thread has still to do
    running,    \* the threads whose running_ is true
    ended,      \* the threads that have returned
    closed      \* the actors whose sockets are closed

actorVars == <<channel, todo, work, running, ended, closed>>

-----------------------------------------------------------------------------
(* Threads, sockets and operations *)

Actor    == {"context", "machine", "flow", "serial"}
Threads  == Actor \cup {"reader", "hotplug", "api"}
Channels == {"router", "toMachine", "toContext", "toFlow", "toParent", "toSerial",
             "fromSerial", "internal"}

\* The sockets of an actor, in the order of poll_items_.
Sockets(actor) ==
    CASE actor = "context" -> <<"router", "toContext">>
      [] actor = "machine" -> <<"toMachine", "toParent">>
      [] actor = "flow"    -> <<"toFlow", "fromSerial">>
      [] actor = "serial"  -> <<"toSerial", "internal">>

Reader == [ch \in Channels |->
              CHOOSE actor \in Actor : \E i \in 1..2 : Sockets(actor)[i] = ch]

Send(ch, message) == [do |-> "send", channel |-> ch, message |-> message]
Stop(thread)      == [do |-> "stop", thread |-> thread]
Join(thread)      == [do |-> "join", thread |-> thread]
Start(thread)     == [do |-> "start", thread |-> thread]
Close(actor)      == [do |-> "close", thread |-> actor]

\* shutdown_actor: running_ = false, then join.
JoinThenStop(thread) == <<Join(thread), Stop(thread)>>
ShutDown(thread) == <<Stop(thread), Join(thread)>>

\* Nonwindows::disconnect and connect.
Disconnect == ShutDown("reader")
Connect    == Disconnect \o <<Start("reader")>>

\* ~Context and the destructors of its members and of theirs, in reverse
\* order of declaration.
DisconnectThenShutDown ==
    ShutDown("machine")
    \o Disconnect \o ShutDown("serial") \o <<Close("serial")>>
    \o ShutDown("flow") \o <<Close("flow")>>
    \o <<Close("machine")>>
DestroyMachine ==
    ShutDown("machine")
    \o ShutDown("serial") \o Disconnect \o <<Close("serial")>>
    \o ShutDown("flow") \o <<Close("flow")>>
    \o <<Close("machine")>>
DestroyContext ==
    ShutDown("context")
    \o DestroyMachine
    \o ShutDown("hotplug")
    \o <<Close("context")>>

Idle(thread) == work[thread] = <<>> /\ thread \notin ended

-----------------------------------------------------------------------------
(* Sends and blocking *)

\* A full socket pair, and one whose reader is gone, make a send wait.
Takes(chs, ch) == Len(chs[ch]) < Hwm /\ Reader[ch] \notin closed

\* A thread begins work; its first send is done at once unless it must wait.
Begin(thread, chs, ops) ==
    LET sends == ops # <<>> /\ Head(ops).do = "send" IN
    IF sends /\ Takes(chs, Head(ops).channel)
    THEN /\ channel' = [chs EXCEPT ![Head(ops).channel] = Append(@, Head(ops).message)]
         /\ work' = [work EXCEPT ![thread] = Tail(ops)]
    ELSE /\ channel' = chs
         /\ work' = [work EXCEPT ![thread] = ops]

\* The operation at the head of a thread's work can be done.
Ready(op) ==
    CASE op.do = "send" -> Takes(channel, op.channel)
      [] op.do = "join" -> op.thread \in ended
      [] OTHER          -> TRUE

Blocked(thread) == work[thread] # <<>> /\ ~Ready(Head(work[thread]))

\* A thread goes on with its work.
Do(thread) ==
    /\ work[thread] # <<>> /\ ~Blocked(thread)
    /\ LET op == Head(work[thread]) IN
       /\ channel' = IF op.do = "send"
                     THEN [channel EXCEPT ![op.channel] = Append(@, op.message)]
                     ELSE channel
       /\ work' = [work EXCEPT ![thread] = Tail(@)]
       /\ running' = CASE op.do = "stop"  -> running \ {op.thread}
                       [] op.do = "start" -> running \cup {op.thread}
                       [] OTHER           -> running
       /\ ended' = IF op.do = "start" THEN ended \ {op.thread} ELSE ended
       /\ closed' = IF op.do = "close" THEN closed \cup {op.thread} ELSE closed
    /\ UNCHANGED todo

-----------------------------------------------------------------------------
(* Actor::zmq_thread *)

ReadyOf(ch) == IF channel[ch] = <<>> THEN <<>> ELSE <<ch>>

\* zmq_poll: one message from each socket that is ready now.
ReadyNow(actor) == ReadyOf(Sockets(actor)[1]) \o ReadyOf(Sockets(actor)[2])
FirstReady(actor) ==
    IF ReadyNow(actor) = <<>> THEN <<>> ELSE <<Head(ReadyNow(actor))>>
Pass(actor) == ReadyNow(actor)

\* The sockets that this pass, or the next one, still takes a message from.
Remaining(actor) ==
    IF todo[actor] # <<>> THEN todo[actor]
    ELSE IF actor \in running THEN Pass(actor) ELSE <<>>

\* The next message of the pass, and what its handler does.
Take(actor, ch, message, handling) ==
    /\ channel[ch] # <<>> /\ message = Head(channel[ch])
    /\ Idle(actor)
    /\ Remaining(actor) # <<>> /\ ch = Head(Remaining(actor))
    /\ todo' = [todo EXCEPT ![actor] = Tail(Remaining(actor))]
    /\ Begin(actor, [channel EXCEPT ![ch] = Tail(@)], handling)
    /\ UNCHANGED <<running, ended, closed>>

Return(thread) ==
    /\ Idle(thread) /\ thread # "api"
    /\ thread \in Actor => todo[thread] = <<>>
    /\ thread \notin running
    /\ ended' = ended \cup {thread}
    /\ UNCHANGED <<channel, todo, work, running, closed>>
=============================================================================
