-------------------------- MODULE LifecycleProofs ---------------------------
(***************************************************************************)
(* No threads of a context wait for each other in a circle, for every size *)
(* of the sockets, the window and the terminal's buffer.                   *)
(*                                                                         *)
(* The threads that send to each other stand in a row: Context, Machine,   *)
(* FlowControl, SerialConnection.  A circle of them needs two neighbours   *)
(* that each wait for room in the socket to the other.  The invariant      *)
(* bounds the sum of both directions, counting with the messages in a      *)
(* socket those that its writer still has to send (Sent), and the sockets  *)
(* that a poll pass has left to read (Rest): a thread only takes a message *)
(* when it has nothing left to send, and one from each socket per pass.    *)
(*                                                                         *)
(* A startup line makes Machine send two messages for the one it takes;    *)
(* each one has a plugging of the device of its own, so the bounds grow    *)
(* with plugs.  Requests that the window counts keep the socket from       *)
(* FlowControl to SerialConnection from filling up.  Of $X there is no     *)
(* limit, but one message leads to one message, as for the other pairs.    *)
(* Both kinds without end are too many: see OneKind.                       *)
(***************************************************************************)
EXTENDS Lifecycle, SequenceFacts

-----------------------------------------------------------------------------
(* Who writes to a socket pair, and what *)

Messages == {"queued", "unlock", "added", "removed", "shutdown", "enable",
             "startup", "push", "answer"}

\* Every pair but the ROUTER's has one writing thread.
Writer == [ch \in Channels |->
    CASE ch = "toMachine"              -> "context"
      [] ch \in {"toContext", "toFlow"} -> "machine"
      [] ch \in {"toParent", "toSerial"} -> "flow"
      [] ch = "fromSerial"             -> "serial"
      [] ch = "internal"               -> "reader"
      [] OTHER                        -> "hotplug"]

Unlocks == Requests \cap {"unlock"}
Lines   == {"queued", "unlock", "startup", "push"}
Events  == {"added", "removed"}

Carried == [ch \in Channels |->
    CASE ch = "router"    -> Requests \cup Events
      [] ch = "toMachine" -> (Requests \ {"shutdown"}) \cup Events
      [] ch = "toContext" -> {"answer"}
      [] ch = "toFlow"    -> Unlocks \cup Events \cup {"queued", "enable"}
      [] ch = "toParent"  -> {"startup", "answer"}
      [] ch = "toSerial"  -> Unlocks \cup Events \cup {"queued"}
      [] OTHER            -> Lines]

Sends    == [do : {"send"}, channel : Channels, message : Messages]
Controls == [do : {"stop", "join", "start", "close"}, thread : Threads]
Ops      == Sends \cup Controls

\* What a thread may have to do.
Destructions ==
    {op \in Controls : /\ op.do # "start" /\ op.thread # "api"
                       /\ op.do = "close" => op.thread \in Actor}
Controlled(thread) ==
    CASE thread = "context" -> {Stop("context")}
      [] thread = "serial"  -> {Stop("reader"), Join("reader"), Start("reader")}
      [] thread = "api"     -> Destructions
      [] OTHER              -> {}
Duties == [thread \in Threads |->
    {op \in Sends : /\ op.channel # "router" /\ Writer[op.channel] = thread
                     /\ op.message \in Carried[op.channel]}
    \cup Controlled(thread)]

Second == [actor \in Actor |-> Sockets(actor)[2]]

LEMMA Wiring ==
    /\ Writer["toMachine"] = "context" /\ Writer["toContext"] = "machine"
    /\ Writer["toFlow"] = "machine"    /\ Writer["toParent"] = "flow"
    /\ Writer["toSerial"] = "flow"     /\ Writer["fromSerial"] = "serial"
    /\ Writer["internal"] = "reader"   /\ Writer["router"] = "hotplug"
    /\ Writer \in [Channels -> Threads]
  BY DEF Writer, Channels, Threads, Actor

LEMMA SocketPairs ==
    /\ Sockets("context") = <<"router", "toContext">>
    /\ Sockets("machine") = <<"toMachine", "toParent">>
    /\ Sockets("flow") = <<"toFlow", "fromSerial">>
    /\ Sockets("serial") = <<"toSerial", "internal">>
    /\ Second["context"] = "toContext" /\ Second["machine"] = "toParent"
    /\ Second["flow"] = "fromSerial" /\ Second["serial"] = "internal"
  BY DEF Sockets, Second, Actor

LEMMA Readers ==
    /\ Reader["router"] = "context"    /\ Reader["toContext"] = "context"
    /\ Reader["toMachine"] = "machine" /\ Reader["toParent"] = "machine"
    /\ Reader["toFlow"] = "flow"       /\ Reader["fromSerial"] = "flow"
    /\ Reader["toSerial"] = "serial"   /\ Reader["internal"] = "serial"
  <1> DEFINE Has(actor, ch) == \E i \in 1..2 : Sockets(actor)[i] = ch
  <1>1. \A ch :
            /\ Has("context", ch) <=> ch \in {"router", "toContext"}
            /\ Has("machine", ch) <=> ch \in {"toMachine", "toParent"}
            /\ Has("flow", ch) <=> ch \in {"toFlow", "fromSerial"}
            /\ Has("serial", ch) <=> ch \in {"toSerial", "internal"}
    BY SocketPairs
  <1>2. \A ch \in Channels : Reader[ch] = CHOOSE actor \in Actor : Has(actor, ch)
    BY DEF Reader
  <1> HIDE DEF Has
  <1>3. ASSUME NEW ch \in Channels, NEW reader \in Actor, Has(reader, ch),
               \A actor \in Actor : Has(actor, ch) => actor = reader
        PROVE  Reader[ch] = reader
    BY <1>2, <1>3
  <1>4. QED
    BY <1>1, <1>3 DEF Actor, Channels

LEMMA CarriedMessages ==
    /\ \A ch \in Channels : Carried[ch] \subseteq Messages
    /\ Carried["router"] = Requests \cup Events
    /\ Carried["toMachine"] = (Requests \ {"shutdown"}) \cup Events
    /\ Carried["toContext"] = {"answer"}
    /\ Carried["toFlow"] = Unlocks \cup Events \cup {"queued", "enable"}
    /\ Carried["toParent"] = {"startup", "answer"}
    /\ Carried["toSerial"] = Unlocks \cup Events \cup {"queued"}
    /\ Carried["fromSerial"] = Lines /\ Carried["internal"] = Lines
  BY LifecycleAssumption DEF Carried, Channels, Messages, Unlocks, Events, Lines

LEMMA DutyIsOp == \A thread \in Threads : Duties[thread] \subseteq Ops
  BY DEF Duties, Controlled, Destructions, Ops, Controls, Stop, Join, Start, Threads, Actor

-----------------------------------------------------------------------------
(* Counting messages *)

Only(T)     == [m \in Messages |-> IF m \in T THEN <<m>> ELSE <<>>]
Count(T, s) == Len(Flat(Messages, Only(T))[s])

\* What a list of operations sends to a socket pair.
To(ch)       == [op \in Ops |-> IF op.do = "send" /\ op.channel = ch THEN <<op.message>>
                                                                   ELSE <<>>]
Out(ch, ops) == Flat(Ops, To(ch))[ops]

LEMMA OnlyGathers ==
    ASSUME NEW T
    PROVE  Gathers(Flat(Messages, Only(T)), Messages, Messages, Only(T))
  <1>1. Only(T) \in [Messages -> Seq(Messages)]
    BY PairIsSeq, EmptySeq DEF Only
  <1>2. QED
    BY <1>1, FlatGathers

LEMMA CountOne ==
    ASSUME NEW T, NEW m \in Messages
    PROVE  /\ m \in T => Count(T, <<m>>) = 1
           /\ m \notin T => Count(T, <<m>>) = 0
  <1> DEFINE f == Flat(Messages, Only(T))
  <1>1. Gathers(f, Messages, Messages, Only(T))
    BY OnlyGathers
  <1>2. <<m>> = Append(<<>>, m) /\ <<>> \in Seq(Messages) /\ Len(<<m>>) = 1
    OBVIOUS
  <1>3. f[Append(<<>>, m)] = f[<<>>] \o Only(T)[m] /\ f[<<>>] = <<>>
    BY <1>1, <1>2 DEF Gathers
  <1>4. Count(T, <<m>>) = Len(f[<<m>>])
    BY DEF Count
  <1> HIDE DEF f
  <1>5. f[<<m>>] = <<>> \o Only(T)[m]
    BY <1>2, <1>3
  <1>6. CASE m \in T
    <2>1. f[<<m>>] = <<>> \o <<m>> /\ <<>> \o <<m>> = <<m>>
      BY <1>5, <1>6 DEF Only
    <2>2. QED
      BY <1>2, <1>4, <1>6, <2>1
  <1>7. CASE m \notin T
    <2>1. f[<<m>>] = <<>> \o <<>> /\ <<>> \o <<>> = <<>>
      BY <1>5, <1>7 DEF Only
    <2>2. QED
      BY <1>4, <1>7, <2>1
  <1>8. QED
    BY <1>6, <1>7

LEMMA Counting ==
    ASSUME NEW T
    PROVE  /\ Count(T, <<>>) = 0
           /\ \A s \in Seq(Messages) : Count(T, s) \in Nat
           /\ \A s, t \in Seq(Messages) : Count(T, s \o t) = Count(T, s) + Count(T, t)
  <1> DEFINE f == Flat(Messages, Only(T))
  <1>1. Gathers(f, Messages, Messages, Only(T))
    BY OnlyGathers
  <1>2. \A s : Count(T, s) = Len(f[s])
    BY DEF Count
  <1>3. f[<<>>] = <<>> /\ \A s \in Seq(Messages) : f[s] \in Seq(Messages) /\ Len(f[s]) \in Nat
    BY <1>1 DEF Gathers
  <1>4. ASSUME NEW s \in Seq(Messages), NEW t \in Seq(Messages)
        PROVE  Count(T, s \o t) = Count(T, s) + Count(T, t)
    <2>1. f[s \o t] = f[s] \o f[t]
      BY <1>1 DEF Gathers
    <2>2. f[s] \in Seq(Messages) /\ f[t] \in Seq(Messages)
      BY <1>3
    <2> HIDE DEF f
    <2>3. Len(f[s] \o f[t]) = Len(f[s]) + Len(f[t])
      BY <2>2, ConcatProperties
    <2>4. Count(T, s \o t) = Len(f[s \o t]) /\ Count(T, s) = Len(f[s]) /\ Count(T, t) = Len(f[t])
      BY <1>2
    <2>5. QED
      BY <2>1, <2>3, <2>4
  <1>5. Count(T, <<>>) = 0 /\ \A s \in Seq(Messages) : Count(T, s) \in Nat
    BY <1>2, <1>3
  <1> HIDE DEF Count
  <1>6. QED
    BY <1>4, <1>5

LEMMA CountTail ==
    ASSUME NEW T, NEW s \in Seq(Messages), s # <<>>
    PROVE  /\ Head(s) \in T => Count(T, s) = Count(T, Tail(s)) + 1
           /\ Head(s) \notin T => Count(T, s) = Count(T, Tail(s))
  <1> DEFINE m == Head(s)
             t == Tail(s)
  <1>1. /\ m \in Messages /\ t \in Seq(Messages)
        /\ <<m>> \in Seq(Messages) /\ s = <<m>> \o t
    BY HeadBeforeTail
  <1> HIDE DEF m, t
  <1>2. Count(T, s) = Count(T, <<m>>) + Count(T, t)
    BY <1>1, Counting
  <1>3. Count(T, t) \in Nat
    BY <1>1, Counting
  <1>4. /\ m \in T => Count(T, <<m>>) = 1
        /\ m \notin T => Count(T, <<m>>) = 0
    BY <1>1, CountOne
  <1>5. QED
    BY <1>2, <1>3, <1>4 DEF m, t

LEMMA ToGathers ==
    ASSUME NEW ch
    PROVE  Gathers(Flat(Ops, To(ch)), Ops, Messages, To(ch))
  <1>1. To(ch) \in [Ops -> Seq(Messages)]
    <2>1. \A op \in Ops : op.do = "send" => op.message \in Messages
      BY DEF Ops, Sends, Controls
    <2>2. QED
      BY <2>1, PairIsSeq, EmptySeq DEF To
  <1>2. QED
    BY <1>1, FlatGathers

LEMMA Sending ==
    ASSUME NEW ch
    PROVE  /\ Out(ch, <<>>) = <<>>
           /\ \A ops \in Seq(Ops) : Out(ch, ops) \in Seq(Messages)
           /\ \A s, t \in Seq(Ops) : Out(ch, s \o t) = Out(ch, s) \o Out(ch, t)
           /\ \A op \in Ops : Out(ch, <<op>>) = To(ch)[op]
           /\ \A s \in Seq(Ops) : \A op \in Ops : Out(ch, Append(s, op)) = Out(ch, s) \o To(ch)[op]
           /\ \A s \in Seq(Ops) : s # <<>> => Out(ch, s) = To(ch)[Head(s)] \o Out(ch, Tail(s))
  <1>1. /\ Out(ch, <<>>) = <<>>
        /\ \A ops \in Seq(Ops) : Out(ch, ops) \in Seq(Messages)
        /\ \A s, t \in Seq(Ops) : Out(ch, s \o t) = Out(ch, s) \o Out(ch, t)
        /\ \A s \in Seq(Ops) : \A op \in Ops : Out(ch, Append(s, op)) = Out(ch, s) \o To(ch)[op]
        /\ \A s \in Seq(Ops) : s # <<>> => Out(ch, s) = To(ch)[Head(s)] \o Out(ch, Tail(s))
    BY ToGathers DEF Gathers, Out
  <1>2. ASSUME NEW op \in Ops PROVE Out(ch, <<op>>) = To(ch)[op]
    <2>1. <<op>> = Append(<<>>, op) /\ <<>> \in Seq(Ops)
      OBVIOUS
    <2>2. To(ch)[op] \in Seq(Messages)
      BY PairIsSeq, EmptySeq DEF To, Ops, Sends, Controls
    <2>3. <<>> \o To(ch)[op] = To(ch)[op]
      BY <2>2, ConcatParts
    <2>4. QED
      BY <1>1, <2>1, <2>3
  <1>3. QED
    BY <1>1, <1>2

\* An operation sends to one socket pair, or to none.
LEMMA OneOp ==
    /\ \A ch, other \in Channels : \A m \in Messages :
           /\ Send(ch, m) \in Ops /\ Send(ch, m).do = "send"
           /\ Send(ch, m).channel = ch /\ Send(ch, m).message = m
           /\ To(other)[Send(ch, m)] = IF other = ch THEN <<m>> ELSE <<>>
    /\ \A op \in Controls : op \in Ops /\ op.do # "send" /\ \A ch : To(ch)[op] = <<>>
    /\ \A ch : \A op \in Sends : To(ch)[op] = IF op.channel = ch THEN <<op.message>> ELSE <<>>
  <1>1. \A ch \in Channels : \A m \in Messages :
           /\ Send(ch, m) \in Sends /\ Send(ch, m).do = "send"
           /\ Send(ch, m).channel = ch /\ Send(ch, m).message = m
    BY DEF Send, Sends
  <1>2. \A op \in Controls : op \in Ops /\ op.do # "send" /\ \A ch : To(ch)[op] = <<>>
    BY DEF Controls, Ops, To
  <1>3. \A ch : \A op \in Sends : To(ch)[op] = IF op.channel = ch THEN <<op.message>> ELSE <<>>
    BY DEF Ops, To, Sends
  <1>4. QED
    BY <1>1, <1>2, <1>3 DEF Ops

-----------------------------------------------------------------------------
(* What has been sent, whether or not it has found room *)

Pending == [ch \in Channels |-> Out(ch, work[Writer[ch]])]
Sent    == [ch \in Channels |-> channel[ch] \o Pending[ch]]

ChannelTypes(chs) ==
    /\ chs \in [Channels -> Seq(Messages)]
    /\ \A ch \in Channels : chs[ch] \in Seq(Carried[ch])
    /\ \A ch \in Channels \ {"router"} : Len(chs[ch]) <= Hwm

WorkTypes ==
    /\ work \in [Threads -> Seq(Ops)]
    /\ \A thread \in Threads : work[thread] \in Seq(Duties[thread])

ThreadTypes ==
    /\ ChannelTypes(channel) /\ WorkTypes
    /\ todo \in [Actor -> Seq(Channels)]
    /\ \A actor \in Actor : todo[actor] \in {<<>>, <<Second[actor]>>}
    /\ running \subseteq Threads /\ ended \subseteq Threads \ {"api"} /\ closed \subseteq Actor

\* The list is as it was, or has lost its head.
Shortened(new, old) == new = old \/ (old # <<>> /\ new = Tail(old))

LEMMA SentTypes ==
    ASSUME ThreadTypes
    PROVE  /\ \A ch \in Channels : /\ Pending[ch] \in Seq(Messages) /\ Sent[ch] \in Seq(Messages)
                                   /\ Sent[ch] = channel[ch] \o Pending[ch]
                                   /\ work[Writer[ch]] = <<>> => Pending[ch] = <<>>
                                   /\ Pending[ch] = <<>> => Sent[ch] = channel[ch]
                                   /\ channel[ch] = <<>> => Sent[ch] = Pending[ch]
                                   /\ channel[ch] \in Seq(Messages)
           /\ work["hotplug"] = <<>> /\ Pending["router"] = <<>>
  <1>1. Duties["hotplug"] = {}
    <2>1. \A ch \in Channels : Writer[ch] = "hotplug" => ch = "router"
      BY Wiring DEF Channels
    <2>2. \A op \in Sends : Writer[op.channel] = "hotplug" => op.channel = "router"
      BY <2>1 DEF Sends
    <2>3. QED
      BY <2>2 DEF Duties, Controlled, Threads, Actor
  <1>2. work["hotplug"] \in Seq({})
    BY <1>1 DEF ThreadTypes, WorkTypes, Threads
  <1>3. work["hotplug"] = <<>>
    <2>1. work["hotplug"] # <<>> => Head(work["hotplug"]) \in {}
      BY <1>2, TailIsSeq
    <2>2. QED
      BY <2>1
  <1>4. ASSUME NEW ch \in Channels
        PROVE  /\ Pending[ch] \in Seq(Messages) /\ channel[ch] \in Seq(Messages)
               /\ Sent[ch] = channel[ch] \o Pending[ch]
               /\ work[Writer[ch]] = <<>> => Pending[ch] = <<>>
    <2>1. Writer[ch] \in Threads
      BY Wiring
    <2>2. work[Writer[ch]] \in Seq(Ops) /\ channel[ch] \in Seq(Messages)
      BY <2>1 DEF ThreadTypes, WorkTypes, ChannelTypes
    <2>3. Pending[ch] = Out(ch, work[Writer[ch]]) /\ Sent[ch] = channel[ch] \o Pending[ch]
      BY DEF Pending, Sent
    <2>4. QED
      BY <2>2, <2>3, Sending
  <1>5. ASSUME NEW ch \in Channels
        PROVE  /\ Sent[ch] \in Seq(Messages)
               /\ Pending[ch] = <<>> => Sent[ch] = channel[ch]
               /\ channel[ch] = <<>> => Sent[ch] = Pending[ch]
    <2>1. /\ Pending[ch] \in Seq(Messages) /\ channel[ch] \in Seq(Messages)
          /\ Sent[ch] = channel[ch] \o Pending[ch]
      BY <1>4
    <2>2. /\ channel[ch] \o Pending[ch] \in Seq(Messages)
          /\ <<>> \o Pending[ch] = Pending[ch] /\ channel[ch] \o <<>> = channel[ch]
      BY <2>1, ConcatParts
    <2>3. QED
      BY <2>1, <2>2
  <1>6. Pending["router"] = <<>>
    BY <1>3, <1>4, Wiring DEF Channels
  <1>7. QED
    BY <1>3, <1>4, <1>5, <1>6

-----------------------------------------------------------------------------
(* One operation *)

LEMMA Lists ==
    /\ <<>> \in Seq(Messages)
    /\ \A s \in Seq(Messages) : <<>> \o s = s /\ s \o <<>> = s /\ Len(s) \in Nat
    /\ \A s, t \in Seq(Messages) : s \o t \in Seq(Messages) /\ Len(s \o t) = Len(s) + Len(t)
    /\ \A s, t, u \in Seq(Messages) : (s \o t) \o u = s \o (t \o u)
    /\ \A e \in Messages : <<e>> \in Seq(Messages) /\ <<e>> # <<>> /\ Len(<<e>>) = 1
    /\ \A s \in Seq(Messages) : \A e \in Messages : Append(s, e) = s \o <<e>>
    /\ \A s \in Seq(Messages) : \A e \in Messages : <<e>> \o s # <<>> /\ Tail(<<e>> \o s) = s
    /\ \A s, t \in Seq(Messages) : s # <<>> =>
           s \o t # <<>> /\ Head(s \o t) = Head(s) /\ Tail(s \o t) = Tail(s) \o t
    /\ \A s \in Seq(Messages) : s # <<>> =>
           Head(s) \in Messages /\ Tail(s) \in Seq(Messages) /\ Len(s) = Len(Tail(s)) + 1
  <1>1. ASSUME NEW s \in Seq(Messages), NEW t \in Seq(Messages)
        PROVE  /\ <<>> \o s = s /\ s \o <<>> = s
               /\ s \o t \in Seq(Messages)
               /\ \A u \in Seq(Messages) : (s \o t) \o u = s \o (t \o u)
               /\ \A e \in Messages : Append(s, e) = s \o <<e>>
               /\ s # <<>> =>
                      s \o t # <<>> /\ Head(s \o t) = Head(s) /\ Tail(s \o t) = Tail(s) \o t
    <2>1. /\ \A u \in Seq(Messages) : <<>> \o u = u /\ u \o <<>> = u
          /\ s \o t \in Seq(Messages)
          /\ \A u \in Seq(Messages) : (s \o t) \o u = s \o (t \o u)
          /\ \A e \in Messages : Append(s, e) = s \o <<e>>
      BY ConcatParts
    <2>2. s # <<>> =>
              s \o t # <<>> /\ Head(s \o t) = Head(s) /\ Tail(s \o t) = Tail(s) \o t
      BY ConcatParts
    <2>3. QED
      BY <2>1, <2>2
  <1>2. \A s, t \in Seq(Messages) : Len(s \o t) = Len(s) + Len(t) /\ Len(s) \in Nat
    BY ConcatProperties, LenProperties
  <1>3. ASSUME NEW s \in Seq(Messages), s # <<>>
        PROVE  Head(s) \in Messages /\ Tail(s) \in Seq(Messages) /\ Len(s) = Len(Tail(s)) + 1
    BY <1>3, TailIsSeq
  <1>4. <<>> \in Seq(Messages) /\ \A e \in Messages : <<e>> \in Seq(Messages) /\ <<e>> # <<>> /\ Len(<<e>>) = 1
    OBVIOUS
  <1>5. ASSUME NEW s \in Seq(Messages), NEW e \in Messages
        PROVE  <<e>> \o s # <<>> /\ Tail(<<e>> \o s) = s
    <2> DEFINE one == <<e>>
    <2>1. one \in Seq(Messages) /\ one # <<>> /\ Tail(one) = <<>>
      OBVIOUS
    <2> HIDE DEF one
    <2>2. one \o s # <<>> /\ Tail(one \o s) = Tail(one) \o s
      BY <1>1, <2>1
    <2>3. Tail(one) \o s = s
      BY <1>1, <2>1
    <2>4. QED
      BY <2>2, <2>3 DEF one
  <1>6. /\ \A s, t \in Seq(Messages) : s \o t \in Seq(Messages) /\ Len(s \o t) = Len(s) + Len(t)
        /\ \A s, t, u \in Seq(Messages) : (s \o t) \o u = s \o (t \o u)
        /\ \A s, t \in Seq(Messages) : s # <<>> =>
               s \o t # <<>> /\ Head(s \o t) = Head(s) /\ Tail(s \o t) = Tail(s) \o t
    BY <1>1, <1>2
  <1>7. /\ \A s \in Seq(Messages) : <<>> \o s = s /\ s \o <<>> = s /\ Len(s) \in Nat
        /\ \A s \in Seq(Messages) : \A e \in Messages : Append(s, e) = s \o <<e>>
    BY <1>1, <1>2
  <1>8. /\ \A s \in Seq(Messages) : \A e \in Messages : <<e>> \o s # <<>> /\ Tail(<<e>> \o s) = s
        /\ \A s \in Seq(Messages) : s # <<>> =>
               Head(s) \in Messages /\ Tail(s) \in Seq(Messages) /\ Len(s) = Len(Tail(s)) + 1
    BY <1>3, <1>5
  <1>9. QED
    BY <1>4, <1>6, <1>7, <1>8

LEMMA DutyToSend ==
    ASSUME NEW thread \in Threads, NEW op \in Duties[thread], op.do = "send"
    PROVE  /\ op \in Sends /\ op \in Ops
           /\ op.channel \in Channels /\ op.channel # "router"
           /\ Writer[op.channel] = thread
           /\ op.message \in Carried[op.channel] /\ op.message \in Messages
  <1>1. op \in Sends /\ op.channel # "router" /\ Writer[op.channel] = thread
        /\ op.message \in Carried[op.channel]
    BY DEF Duties, Controlled, Destructions, Controls, Stop, Join, Start, Threads, Actor
  <1>2. QED
    BY <1>1 DEF Sends, Ops

\* The socket pairs when an operation has sent its message.
Put(chs, op) == [chs EXCEPT ![op.channel] = Append(@, op.message)]

LEMMA SendMoves ==
    ASSUME NEW chs, ChannelTypes(chs), NEW thread \in Threads,
           NEW ops \in Seq(Duties[thread]), ops # <<>>, Head(ops).do = "send",
           Len(chs[Head(ops).channel]) < Hwm,
           NEW new, new = Put(chs, Head(ops))
    PROVE  /\ ChannelTypes(new)
           /\ \A ch \in Channels :
                  /\ Writer[ch] # thread => new[ch] = chs[ch]
                  /\ Writer[ch] = thread =>
                         /\ new[ch] \o Out(ch, Tail(ops)) = chs[ch] \o Out(ch, ops)
                         /\ Shortened(Out(ch, Tail(ops)), Out(ch, ops))
  <1> DEFINE op == Head(ops)
  <1>1. op \in Duties[thread] /\ Tail(ops) \in Seq(Duties[thread])
    BY TailIsSeq
  <1>2. /\ op \in Sends /\ op \in Ops
        /\ op.channel \in Channels /\ op.channel # "router"
        /\ Writer[op.channel] = thread
        /\ op.message \in Carried[op.channel] /\ op.message \in Messages
    BY <1>1, DutyToSend
  <1>3. ops \in Seq(Ops) /\ Tail(ops) \in Seq(Ops)
    BY <1>1, DutyIsOp
  <1>4. \A ch : Out(ch, ops) = To(ch)[op] \o Out(ch, Tail(ops)) /\ Out(ch, Tail(ops)) \in Seq(Messages)
    BY <1>3, Sending
  <1>5. \A ch : To(ch)[op] = IF op.channel = ch THEN <<op.message>> ELSE <<>>
    <2>1. op \in Sends /\ op \in Ops /\ op.do = "send"
      BY <1>2 DEF Sends
    <2> HIDE DEF op
    <2>2. QED
      BY <2>1 DEF To
  <1>6. /\ chs \in [Channels -> Seq(Messages)]
        /\ \A ch \in Channels : chs[ch] \in Seq(Carried[ch])
        /\ \A ch \in Channels \ {"router"} : Len(chs[ch]) <= Hwm
    BY DEF ChannelTypes
  <1> DEFINE to == op.channel
             e == op.message
  <1>7. /\ new \in [Channels -> Seq(Messages)]
        /\ new[to] = Append(chs[to], e)
        /\ \A ch \in Channels : ch # to => new[ch] = chs[ch]
    <2>1. chs[to] \in Seq(Messages) /\ Append(chs[to], e) \in Seq(Messages)
      BY <1>2, <1>6
    <2>2. QED
      BY <1>2, <1>6, <2>1 DEF Put
  <1> HIDE DEF op
  <1>8. ChannelTypes(new)
    <2>1. chs[to] \in Seq(Carried[to]) /\ Len(chs[to]) < Hwm
      BY <1>2, <1>6 DEF op
    <2>2. Append(chs[to], e) \in Seq(Carried[to]) /\ Len(Append(chs[to], e)) = Len(chs[to]) + 1
      <3> DEFINE S == Carried[to]
                 list == chs[to]
      <3>1. e \in S /\ list \in Seq(S)
        BY <1>2, <2>1
      <3> HIDE DEF e, S, list
      <3>2. Append(list, e) \in Seq(S) /\ Len(Append(list, e)) = Len(list) + 1
        BY <3>1, AppendIsSeq
      <3>3. QED
        BY <3>2 DEF S, list
    <2>3. Len(chs[to]) \in Nat /\ Hwm \in Nat
      BY <2>1, LifecycleAssumption
    <2>4. Len(new[to]) <= Hwm
      BY <1>7, <2>1, <2>2, <2>3
    <2>5. QED
      BY <1>6, <1>7, <2>2, <2>4 DEF ChannelTypes
  <1>9. ASSUME NEW ch \in Channels, Writer[ch] = thread
        PROVE  /\ new[ch] \o Out(ch, Tail(ops)) = chs[ch] \o Out(ch, ops)
               /\ Shortened(Out(ch, Tail(ops)), Out(ch, ops))
    <2> DEFINE t == Out(ch, Tail(ops))
    <2>1. t \in Seq(Messages) /\ chs[ch] \in Seq(Messages)
      BY <1>4, <1>6
    <2>2. CASE ch = to
      <3>1. Out(ch, ops) = <<e>> \o t
        BY <1>4, <1>5, <2>2
      <3>2. <<e>> \in Seq(Messages) /\ <<e>> # <<>> /\ Head(<<e>>) = e /\ Tail(<<e>>) = <<>>
        BY <1>2
      <3>3. <<e>> \o t # <<>> /\ Tail(<<e>> \o t) = t
        BY <1>2, <2>1, Lists
      <3>4. Append(chs[ch], e) = chs[ch] \o <<e>> /\ (chs[ch] \o <<e>>) \o t = chs[ch] \o (<<e>> \o t)
        <4> DEFINE list == chs[ch]
        <4>1. e \in Messages /\ list \in Seq(Messages)
          BY <1>2, <2>1
        <4> HIDE DEF e, t, list
        <4>2. Append(list, e) = list \o <<e>> /\ (list \o <<e>>) \o t = list \o (<<e>> \o t)
          BY <2>1, <3>2, <4>1, Lists
        <4>3. QED
          BY <4>2 DEF list
      <3>5. QED
        BY <1>7, <2>2, <3>1, <3>3, <3>4 DEF Shortened
    <2>3. CASE ch # to
      <3>1. Out(ch, ops) = <<>> \o t /\ <<>> \o t = t
        <4>1. To(ch)[op] = <<>>
          BY <1>5, <2>3
        <4>2. Out(ch, ops) = <<>> \o t
          BY <1>4, <4>1
        <4> HIDE DEF t
        <4>3. <<>> \o t = t
          BY <2>1, Lists
        <4>4. QED
          BY <4>2, <4>3
      <3>2. QED
        BY <1>7, <2>3, <3>1 DEF Shortened
    <2>4. QED
      BY <2>2, <2>3
  <1>10. \A ch \in Channels : Writer[ch] # thread => new[ch] = chs[ch]
    BY <1>2, <1>7
  <1>11. QED
    BY <1>8, <1>9, <1>10

LEMMA ControlMoves ==
    ASSUME NEW ops \in Seq(Ops), ops # <<>>, Head(ops).do # "send"
    PROVE  \A ch : Out(ch, Tail(ops)) = Out(ch, ops)
  <1>1. Head(ops) \in Ops /\ Tail(ops) \in Seq(Ops)
    BY TailIsSeq
  <1>2. Head(ops) \in Controls
    BY <1>1 DEF Ops, Sends
  <1>3. ASSUME NEW ch PROVE Out(ch, Tail(ops)) = Out(ch, ops)
    <2>1. To(ch)[Head(ops)] = <<>>
      BY <1>2, OneOp
    <2>2. Out(ch, ops) = <<>> \o Out(ch, Tail(ops)) /\ Out(ch, Tail(ops)) \in Seq(Messages)
      BY <1>1, <2>1, Sending
    <2>3. QED
      BY <2>2, ConcatParts
  <1>4. QED
    BY <1>3

LEMMA BeginsWork ==
    ASSUME WorkTypes, NEW chs, ChannelTypes(chs), NEW thread \in Threads,
           NEW ops \in Seq(Duties[thread]), Begin(thread, chs, ops)
    PROVE  /\ ChannelTypes(channel') /\ WorkTypes'
           /\ work'[thread] = ops \/ (ops # <<>> /\ work'[thread] = Tail(ops))
           /\ \A other \in Threads : other # thread => work'[other] = work[other]
           /\ \A ch \in Channels :
                  /\ Writer[ch] # thread => channel'[ch] = chs[ch]
                  /\ Writer[ch] = thread =>
                         /\ channel'[ch] \o Out(ch, work'[thread]) = chs[ch] \o Out(ch, ops)
                         /\ Shortened(Out(ch, work'[thread]), Out(ch, ops))
  <1> DEFINE sends == ops # <<>> /\ Head(ops).do = "send" /\ Takes(chs, Head(ops).channel)
  <1>1. ops \in Seq(Ops)
    BY DutyIsOp
  <1>2. WorkTypes /\ work \in [Threads -> Seq(Ops)]
    BY DEF WorkTypes
  <1>3. ASSUME NEW list \in Seq(Duties[thread]), work' = [work EXCEPT ![thread] = list]
        PROVE  /\ WorkTypes' /\ work'[thread] = list
               /\ \A other \in Threads : other # thread => work'[other] = work[other]
    <2>1. list \in Seq(Ops)
      BY DutyIsOp
    <2>2. QED
      BY <1>2, <1>3, <2>1 DEF WorkTypes
  <1>4. CASE sends
    <2>1. channel' = Put(chs, Head(ops)) /\ work' = [work EXCEPT ![thread] = Tail(ops)]
      BY <1>4 DEF Begin, Put
    <2>2. ops # <<>> /\ Head(ops).do = "send" /\ Len(chs[Head(ops).channel]) < Hwm
      BY <1>4 DEF Takes
    <2>3. Tail(ops) \in Seq(Duties[thread])
      BY <2>2, TailIsSeq
    <2>4. /\ WorkTypes' /\ work'[thread] = Tail(ops)
          /\ \A other \in Threads : other # thread => work'[other] = work[other]
      BY <1>3, <2>1, <2>3
    <2>5. /\ ChannelTypes(channel')
          /\ \A ch \in Channels :
                  /\ Writer[ch] # thread => channel'[ch] = chs[ch]
                  /\ Writer[ch] = thread =>
                         /\ channel'[ch] \o Out(ch, Tail(ops)) = chs[ch] \o Out(ch, ops)
                         /\ Shortened(Out(ch, Tail(ops)), Out(ch, ops))
      BY <2>1, <2>2, SendMoves
    <2>6. QED
      BY <2>2, <2>4, <2>5
  <1>5. CASE ~sends
    <2>1. channel' = chs /\ work' = [work EXCEPT ![thread] = ops]
      BY <1>5 DEF Begin
    <2>2. /\ WorkTypes' /\ work'[thread] = ops
          /\ \A other \in Threads : other # thread => work'[other] = work[other]
      BY <1>3, <2>1
    <2>3. ChannelTypes(channel')
      BY <2>1
    <2>4. QED
      BY <2>1, <2>2, <2>3 DEF Shortened
  <1>6. QED
    BY <1>4, <1>5

LEMMA DutyToControl ==
    ASSUME NEW thread \in Threads, NEW op \in Duties[thread], op.do # "send"
    PROVE  \/ thread = "context" /\ op = Stop("context")
           \/ thread = "serial" /\ op \in {Stop("reader"), Join("reader"), Start("reader")}
           \/ /\ thread = "api" /\ op \in Controls /\ op.do # "start" /\ op.thread # "api"
              /\ op.do = "close" => op.thread \in Actor
  <1>1. op \notin Sends
    BY DEF Sends
  <1>2. op \in Controlled(thread)
    BY <1>1 DEF Duties
  <1>3. CASE thread = "context"
    BY <1>2, <1>3 DEF Controlled
  <1>4. CASE thread = "serial"
    BY <1>2, <1>4 DEF Controlled
  <1>5. CASE thread = "api"
    <2>1. op \in Destructions
      BY <1>2, <1>5 DEF Controlled
    <2>2. QED
      BY <1>5, <2>1 DEF Destructions
  <1>6. CASE thread \notin {"context", "serial", "api"}
    BY <1>2, <1>6 DEF Controlled
  <1>7. QED
    BY <1>3, <1>4, <1>5, <1>6

LEMMA DoMoves ==
    ASSUME ThreadTypes, NEW thread \in Threads, Do(thread)
    PROVE  /\ ThreadTypes'
           /\ \A ch \in Channels : /\ Sent'[ch] = Sent[ch]
                                   /\ Shortened(Pending'[ch], Pending[ch])
           /\ todo' = todo
           /\ work[thread] # <<>> /\ work'[thread] = Tail(work[thread])
           /\ \A other \in Threads : other # thread => work'[other] = work[other]
  <1> DEFINE ops == work[thread]
             op  == Head(ops)
  <1>1. /\ ops \in Seq(Duties[thread]) /\ ops # <<>>
        /\ work' = [work EXCEPT ![thread] = Tail(ops)] /\ todo' = todo
    BY DEF Do, ThreadTypes, WorkTypes
  <1>2. /\ op \in Duties[thread] /\ Tail(ops) \in Seq(Duties[thread])
    BY <1>1, TailIsSeq
  <1>3. ops \in Seq(Ops) /\ op \in Ops /\ Tail(ops) \in Seq(Ops)
    BY <1>1, <1>2, DutyIsOp
  <1>4. /\ WorkTypes' /\ work'[thread] = Tail(ops)
        /\ \A other \in Threads : other # thread => work'[other] = work[other]
    <2> HIDE DEF op
    <2> DEFINE rest == Tail(ops)
    <2>1. rest \in Seq(Duties[thread]) /\ rest \in Seq(Ops) /\ work' = [work EXCEPT ![thread] = rest]
      BY <1>1, <1>2, <1>3
    <2> HIDE DEF rest, ops
    <2>2. /\ WorkTypes' /\ work'[thread] = rest
          /\ \A other \in Threads : other # thread => work'[other] = work[other]
      BY <2>1 DEF ThreadTypes, WorkTypes
    <2>3. QED
      BY <2>2 DEF rest
  <1>5. /\ ChannelTypes(channel')
        /\ \A ch \in Channels :
               /\ Writer[ch] # thread => channel'[ch] = channel[ch]
               /\ Writer[ch] = thread =>
                      /\ channel'[ch] \o Out(ch, Tail(ops)) = channel[ch] \o Out(ch, ops)
                      /\ Shortened(Out(ch, Tail(ops)), Out(ch, ops))
    <2>1. CASE op.do = "send"
      <3>1. channel' = Put(channel, op)
        BY <2>1 DEF Do, Put
      <3>2. Len(channel[op.channel]) < Hwm
        BY <1>1, <2>1 DEF Do, Blocked, Ready, Takes
      <3>3. ChannelTypes(channel)
        BY DEF ThreadTypes
      <3>4. QED
        <4>1. ops \in Seq(Duties[thread]) /\ ops # <<>>
          BY <1>1
        <4> HIDE DEF ops
        <4>2. QED
          BY <2>1, <3>1, <3>2, <3>3, <4>1, SendMoves
    <2>2. CASE op.do # "send"
      <3>1. channel' = channel
        BY <2>2 DEF Do
      <3>2. \A ch : Out(ch, Tail(ops)) = Out(ch, ops)
        BY <1>1, <1>3, <2>2, ControlMoves
      <3>3. QED
        BY <3>1, <3>2 DEF ThreadTypes, Shortened
    <2>3. QED
      BY <2>1, <2>2
  <1>6. /\ running' \subseteq Threads /\ ended' \subseteq Threads \ {"api"} /\ closed' \subseteq Actor
    <2>1. /\ op.do \in {"stop", "join", "start", "close"} => op \in Controls
          /\ op.do \in {"start", "close"} => op.thread \in Threads
          /\ op.do = "close" => op.thread \in Actor
      <3>1. op.do \in {"stop", "join", "start", "close"} => op \in Controls
        BY <1>3 DEF Ops, Sends
      <3>3. op.do = "close" => op.thread \in Actor
        BY <1>2, DutyToControl DEF Stop, Join, Start
      <3>4. QED
        BY <3>1, <3>3 DEF Controls
    <2>2. QED
      BY <2>1 DEF Do, ThreadTypes
  <1>7. ThreadTypes'
    BY <1>1, <1>4, <1>5, <1>6 DEF ThreadTypes
  <1>8. ASSUME NEW ch \in Channels
        PROVE  Sent'[ch] = Sent[ch] /\ Shortened(Pending'[ch], Pending[ch])
    <2>1. /\ Pending[ch] = Out(ch, work[Writer[ch]]) /\ Sent[ch] = channel[ch] \o Pending[ch]
          /\ Pending'[ch] = Out(ch, work'[Writer[ch]]) /\ Sent'[ch] = channel'[ch] \o Pending'[ch]
      BY DEF Pending, Sent
    <2>2. CASE Writer[ch] = thread
      BY <1>4, <1>5, <2>1, <2>2
    <2>3. CASE Writer[ch] # thread
      <3>1. Writer[ch] \in Threads
        BY Wiring
      <3>2. Pending'[ch] = Pending[ch] /\ channel'[ch] = channel[ch]
        BY <1>4, <1>5, <2>1, <2>3, <3>1
      <3>3. QED
        BY <2>1, <3>2 DEF Shortened
    <2>4. QED
      BY <2>2, <2>3
  <1>9. QED
    BY <1>1, <1>4, <1>7, <1>8

-----------------------------------------------------------------------------
(* Taking a message *)

First == [actor \in Actor |-> Sockets(actor)[1]]

\* Whose turn a socket of an actor is, and what is left of the pass.
Turn(actor, ch) ==
    \/ /\ ch = First[actor] /\ todo[actor] = <<>>
       /\ \/ todo'[actor] = <<Second[actor]>>
          \/ todo'[actor] = <<>> /\ channel[Second[actor]] = <<>>
    \/ /\ ch = Second[actor] /\ todo'[actor] = <<>>
       /\ \/ todo[actor] = <<Second[actor]>>
          \/ todo[actor] = <<>> /\ channel[First[actor]] = <<>>

LEMMA FirstSockets ==
    /\ First["context"] = "router" /\ First["machine"] = "toMachine"
    /\ First["flow"] = "toFlow" /\ First["serial"] = "toSerial"
    /\ \A actor \in Actor : /\ Sockets(actor) = <<First[actor], Second[actor]>>
                            /\ First[actor] \in Channels /\ Second[actor] \in Channels
                            /\ First[actor] # Second[actor]
                            /\ Writer[First[actor]] # actor /\ Writer[Second[actor]] # actor
  BY SocketPairs, Wiring DEF First, Second, Actor, Channels

LEMMA TakesTurn ==
    ASSUME ThreadTypes, NEW actor \in Actor, NEW ch, NEW m, NEW handling,
           Take(actor, ch, m, handling)
    PROVE  /\ Turn(actor, ch) /\ ch \in Channels /\ Writer[ch] # actor
           /\ \A other \in Actor : other # actor => todo'[other] = todo[other]
           /\ todo' \in [Actor -> Seq(Channels)]
           /\ \A other \in Actor : todo'[other] \in {<<>>, <<Second[other]>>}
  <1> DEFINE one == First[actor]
             two == Second[actor]
  <1>1. /\ Sockets(actor) = <<one, two>> /\ one \in Channels /\ two \in Channels /\ one # two
        /\ Writer[one] # actor /\ Writer[two] # actor
    BY FirstSockets
  <1>2. /\ todo' = [todo EXCEPT ![actor] = Tail(Remaining(actor))]
        /\ Remaining(actor) # <<>> /\ ch = Head(Remaining(actor))
    BY DEF Take
  <1>3. /\ todo \in [Actor -> Seq(Channels)]
        /\ \A other \in Actor : todo[other] \in {<<>>, <<Second[other]>>}
    BY DEF ThreadTypes
  <1> HIDE DEF one, two
  <1>4. ReadyNow(actor) = ReadyOf(one) \o ReadyOf(two)
    BY <1>1 DEF ReadyNow
  <1>5. /\ Turn(actor, ch) /\ ch \in {one, two}
        /\ todo'[actor] \in {<<>>, <<two>>}
    <2>1. CASE todo[actor] # <<>>
      <3>1. Remaining(actor) = <<two>>
        BY <1>3, <2>1 DEF Remaining, two
      <3>2. ch = two /\ todo'[actor] = <<>>
        BY <1>2, <1>3, <3>1
      <3>3. todo[actor] = <<two>>
        BY <1>3, <2>1 DEF two
      <3>4. QED
        BY <3>2, <3>3 DEF Turn, two
    <2>2. CASE todo[actor] = <<>>
      <3>1. Remaining(actor) = ReadyOf(one) \o ReadyOf(two)
        BY <1>2, <1>4, <2>2 DEF Remaining, Pass
      <3>2. CASE channel[one] = <<>>
        <4>1. CASE channel[two] = <<>>
          <5>1. ReadyOf(one) \o ReadyOf(two) = <<>>
            BY <3>2, <4>1 DEF ReadyOf
          <5>2. QED
            BY <1>2, <3>1, <5>1
        <4>2. CASE channel[two] # <<>>
          <5>1. ReadyOf(one) \o ReadyOf(two) = <<two>>
            BY <3>2, <4>2 DEF ReadyOf
          <5>2. ch = two /\ todo'[actor] = <<>>
            BY <1>2, <1>3, <3>1, <5>1
          <5>3. QED
            BY <2>2, <3>2, <5>2 DEF Turn, one, two
        <4>3. QED
          BY <4>1, <4>2
      <3>3. CASE channel[one] # <<>>
        <4>1. CASE channel[two] = <<>>
          <5>1. ReadyOf(one) \o ReadyOf(two) = <<one>>
            BY <3>3, <4>1 DEF ReadyOf
          <5>2. ch = one /\ todo'[actor] = <<>>
            BY <1>2, <1>3, <3>1, <5>1
          <5>3. QED
            BY <2>2, <4>1, <5>2 DEF Turn, one, two
        <4>2. CASE channel[two] # <<>>
          <5> DEFINE s == <<one>>
                     t == <<two>>
          <5>1. ReadyOf(one) \o ReadyOf(two) = s \o t
            BY <3>3, <4>2 DEF ReadyOf
          <5>2. Head(s \o t) = one /\ Tail(s \o t) = t
            <6>1. /\ s \in Seq(Channels) /\ t \in Seq(Channels)
                  /\ s # <<>> /\ Head(s) = one /\ Tail(s) = <<>>
              BY <1>1
            <6> HIDE DEF s, t
            <6>2. /\ Head(s \o t) = Head(s) /\ Tail(s \o t) = Tail(s) \o t
                  /\ <<>> \o t = t
              BY <6>1, ConcatParts
            <6>3. QED
              BY <6>1, <6>2
          <5>3. ch = one /\ todo'[actor] = <<two>>
            BY <1>2, <1>3, <3>1, <5>1, <5>2
          <5>4. QED
            BY <2>2, <5>3 DEF Turn, one, two
        <4>3. QED
          BY <4>1, <4>2
      <3>4. QED
        BY <3>2, <3>3
    <2>3. QED
      BY <2>1, <2>2
  <1>6. \A other \in Actor : other # actor => todo'[other] = todo[other]
    BY <1>2, <1>3
  <1>7. /\ \A other \in Actor : todo'[other] \in {<<>>, <<Second[other]>>}
        /\ todo' \in [Actor -> Seq(Channels)]
    <2>1. \A other \in Actor : todo'[other] \in {<<>>, <<Second[other]>>}
      BY <1>3, <1>5, <1>6 DEF two
    <2>2. \A other \in Actor : todo'[other] \in Seq(Channels)
      <3>1. \A other \in Actor : <<>> \in Seq(Channels) /\ <<Second[other]>> \in Seq(Channels)
        BY FirstSockets
      <3>2. QED
        BY <2>1, <3>1
    <2>3. todo' = [other \in Actor |-> todo'[other]]
      BY <1>2, <1>3
    <2>4. QED
      BY <2>1, <2>2, <2>3
  <1>8. QED
    BY <1>1, <1>5, <1>6, <1>7

LEMMA TakeMoves ==
    ASSUME ThreadTypes, NEW actor \in Actor, NEW ch, NEW m,
           NEW handling \in Seq(Duties[actor]), Take(actor, ch, m, handling)
    PROVE  /\ ThreadTypes'
           /\ Turn(actor, ch) /\ ch \in Channels /\ Writer[ch] # actor
           /\ \A other \in Actor : other # actor => todo'[other] = todo[other]
           /\ actor \notin ended /\ work[actor] = <<>> /\ running' = running
           /\ ended' = ended /\ closed' = closed
           /\ work'[actor] = handling \/ (handling # <<>> /\ work'[actor] = Tail(handling))
           /\ \A other \in Threads : other # actor => work'[other] = work[other]
           /\ m \in Carried[ch] /\ Sent[ch] # <<>> /\ m = Head(Sent[ch])
           /\ Sent'[ch] = Tail(Sent[ch])
           /\ \A to \in Channels :
                  /\ Writer[to] = actor =>
                         /\ Sent[to] = channel[to] /\ Sent'[to] = Sent[to] \o Out(to, handling)
                         /\ Shortened(Pending'[to], Out(to, handling))
                  /\ Writer[to] # actor =>
                         /\ Pending'[to] = Pending[to]
                         /\ to # ch => Sent'[to] = Sent[to]
  <1> DEFINE chs == [channel EXCEPT ![ch] = Tail(@)]
  <1>1. /\ channel[ch] # <<>> /\ m = Head(channel[ch]) /\ work[actor] = <<>> /\ actor \notin ended
        /\ Begin(actor, chs, handling)
        /\ running' = running /\ ended' = ended /\ closed' = closed
    BY DEF Take, Idle
  <1>2. /\ Turn(actor, ch) /\ ch \in Channels /\ Writer[ch] # actor
        /\ \A other \in Actor : other # actor => todo'[other] = todo[other]
        /\ todo' \in [Actor -> Seq(Channels)]
        /\ \A other \in Actor : todo'[other] \in {<<>>, <<Second[other]>>}
    BY TakesTurn
  <1>3. /\ channel \in [Channels -> Seq(Messages)]
        /\ \A to \in Channels : channel[to] \in Seq(Carried[to])
        /\ \A to \in Channels \ {"router"} : Len(channel[to]) <= Hwm
        /\ WorkTypes
    BY DEF ThreadTypes, ChannelTypes
  <1>4. /\ m \in Carried[ch] /\ Tail(channel[ch]) \in Seq(Carried[ch])
        /\ Len(Tail(channel[ch])) = Len(channel[ch]) - 1 /\ Len(channel[ch]) \in Nat
    <2> DEFINE S == Carried[ch]
               s == channel[ch]
    <2>1. s \in Seq(S) /\ s # <<>> /\ m = Head(s)
      BY <1>1, <1>2, <1>3
    <2> HIDE DEF S, s
    <2>2. Head(s) \in S /\ Tail(s) \in Seq(S) /\ Len(Tail(s)) = Len(s) - 1 /\ Len(s) \in Nat
      BY <2>1, TailIsSeq
    <2>3. QED
      BY <2>1, <2>2 DEF S, s
  <1>5. Tail(channel[ch]) \in Seq(Messages)
    BY <1>1, <1>2, <1>3, Lists
  <1>6. /\ chs \in [Channels -> Seq(Messages)] /\ chs[ch] = Tail(channel[ch])
        /\ \A to \in Channels : to # ch => chs[to] = channel[to]
    BY <1>2, <1>3, <1>5
  <1> HIDE DEF chs
  <1>7. ChannelTypes(chs)
    <2>1. \A to \in Channels : chs[to] \in Seq(Carried[to])
      BY <1>3, <1>4, <1>6
    <2>2. \A to \in Channels \ {"router"} : Len(chs[to]) <= Hwm
      <3>1. ASSUME NEW to \in Channels \ {"router"} PROVE Len(chs[to]) <= Hwm
        <4>1. CASE to = ch
          <5>1. Len(channel[ch]) <= Hwm /\ Len(chs[ch]) = Len(channel[ch]) - 1
            BY <1>3, <1>4, <1>6, <4>1
          <5>2. QED
            BY <1>4, <4>1, <5>1, LifecycleAssumption
        <4>2. CASE to # ch
          BY <1>3, <1>6, <4>2
        <4>3. QED
          BY <4>1, <4>2
      <3>2. QED
        BY <3>1
    <2>3. QED
      BY <1>6, <2>1, <2>2 DEF ChannelTypes
  <1>8. /\ ChannelTypes(channel') /\ WorkTypes'
        /\ work'[actor] = handling \/ (handling # <<>> /\ work'[actor] = Tail(handling))
        /\ \A other \in Threads : other # actor => work'[other] = work[other]
        /\ \A to \in Channels :
               /\ Writer[to] # actor => channel'[to] = chs[to]
               /\ Writer[to] = actor =>
                      /\ channel'[to] \o Out(to, work'[actor]) = chs[to] \o Out(to, handling)
                      /\ Shortened(Out(to, work'[actor]), Out(to, handling))
    BY <1>1, <1>3, <1>7, BeginsWork DEF Threads
  <1>9. ThreadTypes'
    BY <1>1, <1>2, <1>8 DEF ThreadTypes
  <1>10. ASSUME NEW to \in Channels
         PROVE  /\ Pending[to] = Out(to, work[Writer[to]]) /\ Sent[to] = channel[to] \o Pending[to]
                /\ Pending'[to] = Out(to, work'[Writer[to]]) /\ Sent'[to] = channel'[to] \o Pending'[to]
                /\ Pending[to] \in Seq(Messages) /\ channel[to] \in Seq(Messages)
                /\ work[Writer[to]] = <<>> => Sent[to] = channel[to]
    <2>1. /\ Pending[to] = Out(to, work[Writer[to]]) /\ Sent[to] = channel[to] \o Pending[to]
          /\ Pending'[to] = Out(to, work'[Writer[to]]) /\ Sent'[to] = channel'[to] \o Pending'[to]
      BY DEF Pending, Sent
    <2>2. QED
      BY <2>1, SentTypes
  <1>11. ASSUME NEW to \in Channels, Writer[to] = actor
         PROVE  /\ Sent[to] = channel[to] /\ Sent'[to] = Sent[to] \o Out(to, handling)
                /\ Shortened(Pending'[to], Out(to, handling))
    <2>1. Sent[to] = channel[to]
      BY <1>1, <1>10, <1>11
    <2>2. to # ch
      BY <1>2, <1>11
    <2>3. QED
      BY <1>6, <1>8, <1>10, <1>11, <2>1, <2>2
  <1>12. ASSUME NEW to \in Channels, Writer[to] # actor
         PROVE  Pending'[to] = Pending[to] /\ channel'[to] = chs[to]
    <2>1. Writer[to] \in Threads
      BY Wiring
    <2>2. QED
      BY <1>8, <1>10, <1>12, <2>1
  <1>13. ASSUME NEW to \in Channels, Writer[to] # actor, to # ch
         PROVE  Sent'[to] = Sent[to]
    BY <1>6, <1>10, <1>12, <1>13
  <1>14. Sent[ch] # <<>> /\ m = Head(Sent[ch]) /\ Sent'[ch] = Tail(Sent[ch])
    <2>1. /\ Sent[ch] = channel[ch] \o Pending[ch] /\ Sent'[ch] = Tail(channel[ch]) \o Pending[ch]
          /\ Pending[ch] \in Seq(Messages) /\ channel[ch] \in Seq(Messages)
      BY <1>2, <1>6, <1>10, <1>12
    <2> DEFINE s == channel[ch]
               t == Pending[ch]
    <2>2. s \in Seq(Messages) /\ t \in Seq(Messages) /\ s # <<>>
      BY <1>1, <2>1
    <2> HIDE DEF s, t
    <2>3. s \o t # <<>> /\ Head(s \o t) = Head(s) /\ Tail(s \o t) = Tail(s) \o t
      BY <2>2, Lists
    <2>4. QED
      BY <1>1, <2>1, <2>3 DEF s, t
  <1>15. QED
    BY <1>1, <1>2, <1>4, <1>8, <1>9, <1>11, <1>12, <1>13, <1>14

-----------------------------------------------------------------------------
(* What a handler sends *)

LEMMA OutOfSend ==
    ASSUME NEW ch \in Channels, NEW m \in Messages
    PROVE  /\ <<Send(ch, m)>> \in Seq(Ops)
           /\ Out(ch, <<Send(ch, m)>>) = <<m>>
           /\ \A other \in Channels : other # ch => Out(other, <<Send(ch, m)>>) = <<>>
  <1> DEFINE op == Send(ch, m)
  <1>1. /\ op \in Ops
        /\ \A other \in Channels : To(other)[op] = IF other = ch THEN <<m>> ELSE <<>>
    BY OneOp
  <1> HIDE DEF op
  <1>2. \A other : Out(other, <<op>>) = To(other)[op]
    BY <1>1, Sending
  <1>3. <<op>> \in Seq(Ops)
    BY <1>1
  <1>4. QED
    BY <1>1, <1>2, <1>3 DEF op

\* A thread's send of what it may send.
LEMMA SendIsDuty ==
    ASSUME NEW ch \in Channels \ {"router"}, NEW m \in Carried[ch]
    PROVE  Send(ch, m) \in Duties[Writer[ch]] /\ <<Send(ch, m)>> \in Seq(Duties[Writer[ch]])
  <1> DEFINE op == Send(ch, m)
             thread == Writer[ch]
  <1>1. m \in Messages
    BY CarriedMessages
  <1>2. op \in Sends /\ op.channel = ch /\ op.message = m
    BY <1>1 DEF Send, Sends
  <1>3. thread \in Threads
    BY Wiring
  <1> HIDE DEF op
  <1>4. op \in Duties[thread]
    BY <1>2, <1>3 DEF Duties
  <1> DEFINE S == Duties[thread]
  <1>5. op \in S
    BY <1>4
  <1> HIDE DEF S
  <1>6. <<op>> \in Seq(S)
    BY <1>5
  <1>7. QED
    BY <1>4, <1>6 DEF op, S

LEMMA RepeatGrows ==
    ASSUME NEW S, NEW op \in S, NEW n \in Nat
    PROVE  /\ Repeat(op, 0) = <<>> /\ Repeat(op, n) \in Seq(S)
           /\ Repeat(op, n + 1) = Append(Repeat(op, n), op)
  <1>1. \A k \in Nat : /\ Repeat(op, k) \in Seq(S) /\ Len(Repeat(op, k)) = k
                       /\ \A i \in 1..k : Repeat(op, k)[i] = op
    BY IsASeq DEF Repeat
  <1> DEFINE s == Repeat(op, n)
             t == Repeat(op, n + 1)
  <1>2. /\ s \in Seq(S) /\ Len(s) = n /\ \A i \in 1..n : s[i] = op
        /\ t \in Seq(S) /\ Len(t) = n + 1 /\ \A i \in 1..(n + 1) : t[i] = op
        /\ n + 1 \in Nat
    BY <1>1
  <1>3. Repeat(op, 0) = <<>>
    BY <1>1, EmptySeq
  <1> HIDE DEF s, t
  <1>4. /\ Append(s, op) \in Seq(S) /\ Len(Append(s, op)) = n + 1
        /\ \A i \in 1..n : Append(s, op)[i] = s[i]
        /\ Append(s, op)[n + 1] = op
    BY <1>2, AppendIsSeq
  <1>5. \A i \in 1..Len(t) : t[i] = Append(s, op)[i]
    <2> SUFFICES ASSUME NEW i \in 1..(n + 1) PROVE t[i] = Append(s, op)[i]
      BY <1>2
    <2>1. i \in 1..n \/ i = n + 1
      OBVIOUS
    <2>2. QED
      BY <1>2, <1>4, <2>1
  <1>6. t = Append(s, op)
    BY <1>2, <1>4, <1>5, SeqEqual
  <1>7. QED
    BY <1>2, <1>3, <1>6 DEF s, t

LEMMA TransmitSends ==
    ASSUME NEW n \in Nat
    PROVE  /\ Transmit(n) \in Seq(Duties["flow"])
           /\ \A ch \in Channels : ch # "toSerial" => Out(ch, Transmit(n)) = <<>>
           /\ Out("toSerial", Transmit(n)) \in Seq(Messages)
           /\ Len(Out("toSerial", Transmit(n))) = n
           /\ \A T : /\ "queued" \in T => Count(T, Out("toSerial", Transmit(n))) = n
                     /\ "queued" \notin T => Count(T, Out("toSerial", Transmit(n))) = 0
  <1> DEFINE op == Send("toSerial", "queued")
  <1>1. op \in Duties["flow"]
    BY SendIsDuty, Wiring, CarriedMessages DEF Channels
  <1>2. /\ op \in Ops
        /\ \A ch \in Channels : To(ch)[op] = IF ch = "toSerial" THEN <<"queued">> ELSE <<>>
    <2>1. "toSerial" \in Channels /\ "queued" \in Messages
      BY DEF Channels, Messages
    <2>2. QED
      BY <2>1, OneOp
  <1> HIDE DEF op
  <1> DEFINE R(k) == Repeat(op, k)
             Sum(k) == Out("toSerial", R(k))
             S == {k \in Nat :
                      /\ \A ch \in Channels : ch # "toSerial" => Out(ch, R(k)) = <<>>
                      /\ Len(Sum(k)) = k
                      /\ \A T : /\ "queued" \in T => Count(T, Sum(k)) = k
                                /\ "queued" \notin T => Count(T, Sum(k)) = 0}
  <1>3. R(0) = <<>> /\ \A k \in Nat : R(k) \in Seq(Ops) /\ R(k + 1) = Append(R(k), op)
    BY <1>2, RepeatGrows
  <1>4. \A k \in Nat : Sum(k) \in Seq(Messages)
    BY <1>3, Sending
  <1>5. \A k \in Nat : \A ch \in Channels : Out(ch, R(k + 1)) = Out(ch, R(k)) \o To(ch)[op]
    <2> SUFFICES ASSUME NEW k \in Nat, NEW ch \in Channels
                 PROVE  Out(ch, R(k + 1)) = Out(ch, R(k)) \o To(ch)[op]
      OBVIOUS
    <2>1. R(k) \in Seq(Ops) /\ R(k + 1) = Append(R(k), op)
      BY <1>3
    <2> HIDE DEF R
    <2>2. Out(ch, Append(R(k), op)) = Out(ch, R(k)) \o To(ch)[op]
      BY <1>2, <2>1, Sending
    <2>3. QED
      BY <2>1, <2>2
  <1>6. \A ch : Out(ch, R(0)) = <<>>
    BY <1>3, Sending
  <1> HIDE DEF R
  <1>7. 0 \in S
    <2>1. \A T : Count(T, <<>>) = 0
      BY Counting
    <2>2. Sum(0) = <<>>
      BY <1>6
    <2>3. QED
      BY <1>6, <2>1, <2>2
  <1>8. ASSUME NEW k \in Nat, k \in S PROVE k + 1 \in S
    <2>1. \A ch \in Channels : ch # "toSerial" => Out(ch, R(k + 1)) = <<>>
      <3>1. \A ch \in Channels : ch # "toSerial" => Out(ch, R(k + 1)) = <<>> \o <<>>
        BY <1>2, <1>5, <1>8
      <3>2. QED
        BY <3>1
    <2>2. Sum(k + 1) = Sum(k) \o <<"queued">>
      BY <1>2, <1>5 DEF Channels
    <2>3. Sum(k) \in Seq(Messages) /\ <<"queued">> \in Seq(Messages) /\ Len(<<"queued">>) = 1
      BY <1>4 DEF Messages
    <2>4. /\ Len(Sum(k)) = k
          /\ \A T : /\ "queued" \in T => Count(T, Sum(k)) = k
                    /\ "queued" \notin T => Count(T, Sum(k)) = 0
      BY <1>8
    <2> HIDE DEF Sum
    <2>5. Len(Sum(k + 1)) = k + 1
      BY <2>2, <2>3, <2>4, Lists
    <2>6. ASSUME NEW T
          PROVE  /\ "queued" \in T => Count(T, Sum(k + 1)) = k + 1
                 /\ "queued" \notin T => Count(T, Sum(k + 1)) = 0
      <3>1. Count(T, Sum(k + 1)) = Count(T, Sum(k)) + Count(T, <<"queued">>)
        BY <2>2, <2>3, Counting
      <3>2. /\ "queued" \in T => Count(T, <<"queued">>) = 1
            /\ "queued" \notin T => Count(T, <<"queued">>) = 0
        <4>1. "queued" \in Messages
          BY DEF Messages
        <4>2. QED
          BY <4>1, CountOne
      <3>3. QED
        BY <2>4, <3>1, <3>2
    <2>7. QED
      BY <2>1, <2>5, <2>6
  <1> HIDE DEF S
  <1>9. n \in S
    BY <1>7, <1>8, SetInduction
  <1>10. R(n) = Transmit(n) /\ Transmit(n) \in Seq(Duties["flow"])
    BY <1>1, RepeatGrows DEF R, Transmit, op
  <1>11. QED
    BY <1>4, <1>9, <1>10 DEF S

-----------------------------------------------------------------------------
(* The numbers of messages *)

Added   == {"added"}
Startup == {"startup"}
Enable  == {"enable"}
Queued  == {"queued"}

Size(s)      == Len(s)
Weight(T, m) == Count(T, <<m>>)
Amount(T, ch) == Count(T, Sent[ch])
Length(ch)   == Size(Sent[ch])
Unsent(ch)   == Size(Pending[ch])
Rest(actor)  == Size(todo[actor])

Loses(ch, m) == Sent[ch] # <<>> /\ m = Head(Sent[ch]) /\ Sent'[ch] = Tail(Sent[ch])
Gains(ch, s) == Sent'[ch] = Sent[ch] \o s
Keeps(ch)    == Sent'[ch] = Sent[ch]

LEMMA Singles ==
    /\ Weight(Added, "added") = 1
    /\ \A m \in Messages : m # "added" => Weight(Added, m) = 0
    /\ Weight(Startup, "startup") = 1
    /\ \A m \in Messages : m # "startup" => Weight(Startup, m) = 0
    /\ Weight(Enable, "enable") = 1
    /\ \A m \in Messages : m # "enable" => Weight(Enable, m) = 0
    /\ Weight(Queued, "queued") = 1
    /\ \A m \in Messages : m # "queued" => Weight(Queued, m) = 0
    /\ \A m \in Events : Weight(Events, m) = 1
    /\ \A m \in Messages : m \notin Events => Weight(Events, m) = 0
  <1>1. Weight(Added, "added") = 1
    BY CountOne DEF Weight, Added, Messages
  <1>2. \A m \in Messages : m # "added" => Weight(Added, m) = 0
    BY CountOne DEF Weight, Added
  <1>3. Weight(Startup, "startup") = 1
    BY CountOne DEF Weight, Startup, Messages
  <1>4. \A m \in Messages : m # "startup" => Weight(Startup, m) = 0
    BY CountOne DEF Weight, Startup
  <1>5. Weight(Enable, "enable") = 1
    BY CountOne DEF Weight, Enable, Messages
  <1>6. \A m \in Messages : m # "enable" => Weight(Enable, m) = 0
    BY CountOne DEF Weight, Enable
  <1>7. Weight(Queued, "queued") = 1
    BY CountOne DEF Weight, Queued, Messages
  <1>8. \A m \in Messages : m # "queued" => Weight(Queued, m) = 0
    BY CountOne DEF Weight, Queued
  <1>9. \A m \in Events : Weight(Events, m) = 1
    <2>1. \A m \in Events : m \in Messages
      BY DEF Events, Messages
    <2>2. QED
      BY <2>1, CountOne DEF Weight
  <1>10. \A m \in Messages : m \notin Events => Weight(Events, m) = 0
    BY CountOne DEF Weight
  <1>11. QED
    BY <1>1, <1>2, <1>3, <1>4, <1>5, <1>6, <1>7, <1>8, <1>9, <1>10

LEMMA Amounts ==
    /\ \A T : \A s \in Seq(Messages) : Count(T, s) \in Nat
    /\ \A T : \A m \in Messages : Weight(T, m) \in Nat
    /\ \A T : Count(T, <<>>) = 0
    /\ \A s \in Seq(Messages) : Len(s) \in Nat /\ Size(s) \in Nat
    /\ Size(<<>>) = 0 /\ \A x : Size(<<x>>) = 1
  <1>1. \A T : \A s \in Seq(Messages) : Count(T, s) \in Nat
    BY Counting
  <1>2. \A s \in Seq(Messages) : Len(s) \in Nat /\ Size(s) \in Nat
    BY Lists DEF Size
  <1>3. Size(<<>>) = 0 /\ \A x : Size(<<x>>) = 1
    BY DEF Size
  <1>4. \A m \in Messages : <<m>> \in Seq(Messages)
    OBVIOUS
  <1>5. \A T : \A m \in Messages : Weight(T, m) \in Nat
    BY <1>1, <1>4 DEF Weight
  <1>6. \A T : Count(T, <<>>) = 0
    BY Counting
  <1>7. QED
    BY <1>1, <1>2, <1>3, <1>5, <1>6

LEMMA Loss ==
    ASSUME ThreadTypes, NEW ch \in Channels, NEW m, Loses(ch, m)
    PROVE  /\ m \in Messages
           /\ Length(ch) = Length(ch)' + 1 /\ Length(ch)' \in Nat
           /\ \A T : /\ Amount(T, ch) = Amount(T, ch)' + Weight(T, m)
                     /\ Amount(T, ch)' \in Nat /\ Weight(T, m) \in Nat
  <1> DEFINE s == Sent[ch]
             t == Sent'[ch]
  <1>1. s \in Seq(Messages) /\ s # <<>> /\ m = Head(s) /\ t = Tail(s)
    BY SentTypes DEF Loses
  <1> HIDE DEF s, t
  <1>2. /\ m \in Messages /\ t \in Seq(Messages) /\ Len(s) = Len(t) + 1
        /\ <<m>> \in Seq(Messages) /\ s = <<m>> \o t
    <2>1. m \in Messages /\ t \in Seq(Messages) /\ Len(s) = Len(t) + 1
      BY <1>1, Lists
    <2>2. s = <<m>> \o t
      BY <1>1, HeadBeforeTail
    <2>3. QED
      BY <2>1, <2>2
  <1>3. ASSUME NEW T
        PROVE  /\ Count(T, s) = Count(T, t) + Weight(T, m)
               /\ Count(T, t) \in Nat /\ Weight(T, m) \in Nat
    <2>1. Count(T, s) = Count(T, <<m>>) + Count(T, t)
      BY <1>2, Counting
    <2>2. Count(T, t) \in Nat /\ Count(T, <<m>>) \in Nat
      BY <1>2, Amounts
    <2>3. QED
      BY <2>1, <2>2 DEF Weight
  <1>4. Len(t) \in Nat
    BY <1>2, Amounts
  <1>5. QED
    BY <1>2, <1>3, <1>4 DEF s, t, Length, Amount, Size

LEMMA Gain ==
    ASSUME ThreadTypes, NEW ch \in Channels, NEW s \in Seq(Messages), Gains(ch, s)
    PROVE  /\ Length(ch)' = Length(ch) + Size(s) /\ Length(ch) \in Nat /\ Size(s) \in Nat
           /\ \A T : /\ Amount(T, ch)' = Amount(T, ch) + Count(T, s)
                     /\ Amount(T, ch) \in Nat /\ Count(T, s) \in Nat
  <1> DEFINE old == Sent[ch]
             new == Sent'[ch]
  <1>1. old \in Seq(Messages) /\ new = old \o s
    BY SentTypes DEF Gains
  <1> HIDE DEF old, new
  <1>2. Len(new) = Len(old) + Len(s) /\ Len(old) \in Nat /\ Len(s) \in Nat
    BY <1>1, Lists
  <1>3. \A T : Count(T, new) = Count(T, old) + Count(T, s)
    BY <1>1, Counting
  <1>4. \A T : Count(T, old) \in Nat /\ Count(T, s) \in Nat
    BY <1>1, Amounts
  <1>5. QED
    BY <1>2, <1>3, <1>4 DEF old, new, Length, Amount, Size

LEMMA GainOne ==
    ASSUME ThreadTypes, NEW ch \in Channels, NEW m \in Messages, Gains(ch, <<m>>)
    PROVE  /\ Length(ch)' = Length(ch) + 1 /\ Length(ch) \in Nat
           /\ \A T : /\ Amount(T, ch)' = Amount(T, ch) + Weight(T, m)
                     /\ Amount(T, ch) \in Nat /\ Weight(T, m) \in Nat
  <1> DEFINE s == <<m>>
  <1>1. s \in Seq(Messages) /\ Size(s) = 1 /\ \A T : Weight(T, m) = Count(T, s)
    BY Amounts DEF Weight
  <1> HIDE DEF s
  <1>2. Gains(ch, s)
    BY DEF s
  <1>3. /\ Length(ch)' = Length(ch) + Size(s) /\ Length(ch) \in Nat /\ Size(s) \in Nat
        /\ \A T : /\ Amount(T, ch)' = Amount(T, ch) + Count(T, s)
                  /\ Amount(T, ch) \in Nat /\ Count(T, s) \in Nat
    BY <1>1, <1>2, Gain
  <1>4. QED
    BY <1>1, <1>3

LEMMA GainNone ==
    ASSUME ThreadTypes, NEW ch \in Channels, Gains(ch, <<>>)
    PROVE  Keeps(ch)
  BY SentTypes, Lists DEF Gains, Keeps

LEMMA Kept ==
    ASSUME NEW ch, Keeps(ch)
    PROVE  Length(ch)' = Length(ch) /\ \A T : Amount(T, ch)' = Amount(T, ch)
  BY DEF Keeps, Length, Amount

\* What the reader is still to be started for.
Starting == [op \in Ops |-> IF op.do = "start" THEN <<"startup">> ELSE <<>>]
Boot(ops) == Len(Flat(Ops, Starting)[ops])

LEMMA Booting ==
    /\ Boot(<<>>) = 0
    /\ \A ops \in Seq(Ops) : Boot(ops) \in Nat
    /\ \A ops \in Seq(Ops) : ops # <<>> =>
           /\ Head(ops).do = "start" => Boot(ops) = Boot(Tail(ops)) + 1
           /\ Head(ops).do # "start" => Boot(ops) = Boot(Tail(ops))
  <1> DEFINE f == Flat(Ops, Starting)
  <1>1. Starting \in [Ops -> Seq(Messages)]
    <2>1. <<"startup">> \in Seq(Messages) /\ <<>> \in Seq(Messages)
      BY DEF Messages
    <2>2. QED
      BY <2>1 DEF Starting
  <1>2. Gathers(f, Ops, Messages, Starting)
    BY <1>1, FlatGathers
  <1>3. /\ f[<<>>] = <<>>
        /\ \A ops \in Seq(Ops) : f[ops] \in Seq(Messages)
        /\ \A ops \in Seq(Ops) : ops # <<>> => f[ops] = Starting[Head(ops)] \o f[Tail(ops)]
    BY <1>2 DEF Gathers
  <1>4. \A ops : Boot(ops) = Len(f[ops])
    BY DEF Boot
  <1> HIDE DEF f
  <1>5. ASSUME NEW ops \in Seq(Ops), ops # <<>>
        PROVE  /\ Head(ops).do = "start" => Boot(ops) = Boot(Tail(ops)) + 1
               /\ Head(ops).do # "start" => Boot(ops) = Boot(Tail(ops))
    <2>1. Head(ops) \in Ops /\ Tail(ops) \in Seq(Ops)
      BY <1>5, TailIsSeq
    <2>2. f[ops] = Starting[Head(ops)] \o f[Tail(ops)] /\ f[Tail(ops)] \in Seq(Messages)
      BY <1>3, <1>5, <2>1
    <2>3. Boot(ops) = Len(f[ops]) /\ Boot(Tail(ops)) = Len(f[Tail(ops)])
      BY <1>4
    <2> DEFINE t == f[Tail(ops)]
    <2> HIDE DEF t
    <2>4. CASE Head(ops).do = "start"
      <3>1. f[ops] = <<"startup">> \o t
        BY <2>1, <2>2, <2>4 DEF Starting, t
      <3>2. t \in Seq(Messages) /\ <<"startup">> \in Seq(Messages) /\ Len(<<"startup">>) = 1
        BY <2>2 DEF t, Messages
      <3>3. Len(<<"startup">> \o t) = 1 + Len(t) /\ Len(t) \in Nat
        BY <3>2, Lists
      <3>4. QED
        BY <2>3, <2>4, <3>1, <3>3 DEF t
    <2>5. CASE Head(ops).do # "start"
      <3>1. f[ops] = <<>> \o t /\ t \in Seq(Messages)
        BY <2>1, <2>2, <2>5 DEF Starting, t
      <3>2. f[ops] = t
        BY <3>1, Lists
      <3>3. QED
        BY <2>3, <2>5, <3>2 DEF t
    <2>6. QED
      BY <2>4, <2>5
  <1>6. Boot(<<>>) = 0 /\ \A ops \in Seq(Ops) : Boot(ops) \in Nat
    BY <1>3, <1>4, Lists
  <1>7. QED
    BY <1>5, <1>6

-----------------------------------------------------------------------------
(* The invariant *)

Boots  == Boot(work["serial"])
News   == IF plugged /\ ~known THEN 1 ELSE 0
Unseen == IF plugged # known THEN 1 ELSE 0

\* Startup lines that are still to come and those that are on their way, events
\* on their way to FlowControl, replies to requests of the queue.
Coming   == News + Amount(Added, "router") + Amount(Added, "toMachine")
                 + Amount(Added, "toFlow") + Amount(Added, "toSerial")
                 + Boots
Printed  == Count(Startup, lines) + Amount(Startup, "internal")
                 + Amount(Startup, "fromSerial") + Amount(Startup, "toParent")
Reported == Unseen + Amount(Events, "router") + Amount(Events, "toMachine")
                 + Amount(Events, "toFlow")
Replies  == Count(Queued, lines) + Amount(Queued, "internal")
                 + Amount(Queued, "fromSerial")
Enabled  == Amount(Enable, "toFlow")
InFlow   == Amount(Queued, "toFlow")
InSerial == Amount(Queued, "toSerial")

Credit == (Window + 1) * Reported
Limit  == (Window + 1) * plugs

StateTypes ==
    /\ ThreadTypes
    /\ waiting \in Nat /\ unanswered \in Nat /\ lines \in Seq(Messages) /\ lines \in Seq(Lines)
    /\ plugged \in BOOLEAN /\ known \in BOOLEAN
    /\ plugs \in Nat /\ plugs <= MaxPlugs

\* Nobody has more than a message or two to send.
FewUnsent ==
    /\ Unsent("toContext") + Rest("machine") <= 1
    /\ Unsent("toMachine") <= 1
    /\ Unsent("toParent") + Rest("flow") <= 1
    /\ Unsent("fromSerial") + Rest("serial") <= 1
    /\ Unsent("toSerial") <= 1 + Count(Queued, Pending["toSerial"])
    /\ Unsent("toFlow") <= 1 + Count(Enable, Pending["toFlow"])
    /\ Size(work["reader"]) <= 1

\* Each startup line, and what Machine does at one, has a plugging of its own.
Startups == Coming + Printed + Enabled <= plugs

\* What neighbours have for each other.
ContextAndMachine ==
    Length("toMachine") + Length("toContext") + Rest("machine") <= Hwm + 2 + Rest("context")
MachineAndFlow ==
    Length("toFlow") + Length("toParent") + Rest("flow") + 2 * (Coming + Printed)
        <= Hwm + 2 + 2 * plugs + Rest("machine")
DeviceAndReader ==
    Size(lines) + Length("internal") + Coming <= Backlog + plugs

\* Without $X the window bounds what FlowControl has for the device ...
OnlyCounted ==
    /\ unanswered <= Window
    /\ Length("toSerial") + Replies + Credit <= unanswered + Limit

\* ... and without requests of clients, the pluggings bound what it has to queue.
OnlyStatus ==
    Coming + Printed + InFlow + waiting + InSerial <= plugs
FlowAndSerial ==
    Length("toSerial") + Length("fromSerial") + Rest("serial") + Coming + Printed + InFlow + waiting
        <= Hwm + 2 + plugs + Rest("flow")

ByWindow == "unlock" \notin Requests => OnlyCounted
ByStatus == "queued" \notin Requests => OnlyStatus /\ FlowAndSerial

\* The destructors close the sockets of threads that have returned.
Joined(s, done) ==
    \A i \in 1..Len(s) : s[i].do = "close" =>
        \/ s[i].thread \in done
        \/ \E j \in 1..(i - 1) : s[j] = Join(s[i].thread)
Returned ==
    /\ closed \subseteq ended
    /\ \A thread \in ended : work[thread] = <<>>
    /\ Joined(work["api"], ended)

Bounds ==
    /\ FewUnsent /\ Startups /\ ContextAndMachine /\ MachineAndFlow /\ DeviceAndReader
    /\ ByWindow /\ ByStatus
Inv == StateTypes /\ Bounds /\ Returned

LEMMA Numbers ==
    ASSUME StateTypes
    PROVE  /\ \A ch \in Channels : Length(ch) \in Nat /\ Unsent(ch) \in Nat
           /\ \A ch \in Channels : Size(channel[ch]) \in Nat /\ Length(ch) = Size(channel[ch]) + Unsent(ch)
           /\ \A actor \in Actor : Rest(actor) \in Nat /\ Rest(actor) <= 1
           /\ News \in Nat /\ News <= 1 /\ Unseen \in Nat /\ Unseen <= 1 /\ Boots \in Nat
           /\ \A T : /\ Count(T, lines) \in Nat
                     /\ \A ch \in Channels : /\ Amount(T, ch) \in Nat /\ Count(T, Pending[ch]) \in Nat
                                             /\ Count(T, Pending[ch]) <= Amount(T, ch)
           /\ Coming \in Nat /\ Printed \in Nat /\ Reported \in Nat /\ Replies \in Nat
           /\ Enabled \in Nat /\ InFlow \in Nat /\ InSerial \in Nat
           /\ Credit \in Nat /\ Limit \in Nat /\ Size(lines) \in Nat
           /\ Hwm \in Nat /\ Hwm > 0 /\ Window \in Nat /\ Backlog \in Nat /\ MaxPlugs \in Nat
           /\ plugs \in Nat /\ waiting \in Nat /\ unanswered \in Nat
  <1>1. ThreadTypes /\ lines \in Seq(Messages)
    BY DEF StateTypes
  <1>2. ASSUME NEW ch \in Channels
        PROVE  /\ Length(ch) \in Nat /\ Unsent(ch) \in Nat /\ Size(channel[ch]) \in Nat
               /\ Length(ch) = Size(channel[ch]) + Unsent(ch)
               /\ \A T : /\ Amount(T, ch) \in Nat /\ Count(T, Pending[ch]) \in Nat
                         /\ Count(T, Pending[ch]) <= Amount(T, ch)
    <2> DEFINE s == Sent[ch]
               c == channel[ch]
               p == Pending[ch]
    <2>1. s \in Seq(Messages) /\ c \in Seq(Messages) /\ p \in Seq(Messages) /\ s = c \o p
      BY <1>1, SentTypes
    <2> HIDE DEF s, c, p
    <2>2. Len(s) = Len(c) + Len(p) /\ Len(s) \in Nat /\ Len(c) \in Nat /\ Len(p) \in Nat
      BY <2>1, Lists
    <2>3. ASSUME NEW T
          PROVE  Count(T, s) \in Nat /\ Count(T, p) \in Nat /\ Count(T, p) <= Count(T, s)
      <3>1. Count(T, s) = Count(T, c) + Count(T, p)
        BY <2>1, Counting
      <3>2. Count(T, s) \in Nat /\ Count(T, p) \in Nat /\ Count(T, c) \in Nat
        BY <2>1, Amounts
      <3>3. QED
        BY <3>1, <3>2
    <2>4. QED
      BY <2>2, <2>3 DEF s, c, p, Length, Unsent, Size, Amount
  <1>3. \A actor \in Actor : Rest(actor) \in Nat /\ Rest(actor) <= 1
    <2>1. \A actor \in Actor : todo[actor] = <<>> \/ todo[actor] = <<Second[actor]>>
      BY <1>1 DEF ThreadTypes
    <2>2. ASSUME NEW actor \in Actor PROVE Rest(actor) \in Nat /\ Rest(actor) <= 1
      <3>1. CASE todo[actor] = <<>>
        BY <3>1, Amounts DEF Rest
      <3>2. CASE todo[actor] = <<Second[actor]>>
        BY <3>2, Amounts DEF Rest
      <3>3. QED
        BY <2>1, <3>1, <3>2
    <2>3. QED
      BY <2>2
  <1>4. News \in Nat /\ News <= 1 /\ Unseen \in Nat /\ Unseen <= 1
    BY DEF News, Unseen
  <1>5. Size(lines) \in Nat /\ \A T : Count(T, lines) \in Nat
    BY <1>1, Amounts
  <1>6. Boots \in Nat
    <2>1. work["serial"] \in Seq(Ops)
      BY <1>1 DEF ThreadTypes, WorkTypes, Threads, Actor
    <2>2. QED
      BY <2>1, Booting DEF Boots
  <1>7. \A T : /\ Amount(T, "router") \in Nat /\ Amount(T, "toMachine") \in Nat
               /\ Amount(T, "toFlow") \in Nat /\ Amount(T, "toSerial") \in Nat
               /\ Amount(T, "internal") \in Nat /\ Amount(T, "fromSerial") \in Nat
               /\ Amount(T, "toParent") \in Nat
    BY <1>2 DEF Channels
  <1>8. /\ Coming \in Nat /\ Printed \in Nat /\ Reported \in Nat /\ Replies \in Nat
        /\ Enabled \in Nat /\ InFlow \in Nat /\ InSerial \in Nat
    <2>1. News \in Nat /\ Unseen \in Nat
      BY <1>4
    <2>2. Coming \in Nat
      BY <1>6, <1>7, <2>1 DEF Coming
    <2>3. Printed \in Nat
      BY <1>5, <1>7 DEF Printed
    <2>4. Reported \in Nat
      BY <1>7, <2>1 DEF Reported
    <2>5. Replies \in Nat
      BY <1>5, <1>7 DEF Replies
    <2>6. Enabled \in Nat /\ InFlow \in Nat /\ InSerial \in Nat
      BY <1>7 DEF Enabled, InFlow, InSerial
    <2>7. QED
      BY <2>2, <2>3, <2>4, <2>5, <2>6
  <1>9. /\ Hwm \in Nat /\ Hwm > 0 /\ Window \in Nat /\ Backlog \in Nat /\ MaxPlugs \in Nat
        /\ plugs \in Nat /\ waiting \in Nat /\ unanswered \in Nat
    BY LifecycleAssumption DEF StateTypes
  <1>10. Credit \in Nat /\ Limit \in Nat
    BY <1>8, <1>9 DEF Credit, Limit
  <1>11. QED
    BY <1>2, <1>3, <1>4, <1>5, <1>6, <1>8, <1>9, <1>10

-----------------------------------------------------------------------------
(* Steps that take a message *)

LEMMA TurnNumbers ==
    ASSUME ThreadTypes, NEW actor \in Actor, NEW ch, Turn(actor, ch)
    PROVE  /\ ch = First[actor] =>
                  /\ Rest(actor) = 0
                  /\ \/ Rest(actor)' = 1
                     \/ Rest(actor)' = 0 /\ Length(Second[actor]) = Unsent(Second[actor])
           /\ ch = Second[actor] =>
                  /\ Rest(actor)' = 0
                  /\ \/ Rest(actor) = 1
                     \/ Rest(actor) = 0 /\ Length(First[actor]) = Unsent(First[actor])
  <1>1. First[actor] \in Channels /\ Second[actor] \in Channels /\ First[actor] # Second[actor]
    BY FirstSockets
  <1>2. Size(<<>>) = 0 /\ Size(<<Second[actor]>>) = 1
    BY Amounts
  <1>3. /\ channel[First[actor]] = <<>> => Length(First[actor]) = Unsent(First[actor])
        /\ channel[Second[actor]] = <<>> => Length(Second[actor]) = Unsent(Second[actor])
    BY <1>1, SentTypes DEF Length, Unsent
  <1>4. QED
    BY <1>1, <1>2, <1>3 DEF Turn, Rest

LEMMA TakenMessage ==
    ASSUME ThreadTypes, NEW actor \in Actor, NEW ch \in Channels, NEW m, NEW handling,
           Take(actor, ch, m, handling)
    PROVE  m \in Carried[ch]
  <1> DEFINE s == channel[ch]
             S == Carried[ch]
  <1>1. s \in Seq(S) /\ s # <<>> /\ m = Head(s)
    BY DEF Take, ThreadTypes, ChannelTypes
  <1> HIDE DEF s, S
  <1>2. m \in S
    BY <1>1, TailIsSeq
  <1>3. QED
    BY <1>2 DEF S

LEMMA NextAmounts ==
    ASSUME ThreadTypes'
    PROVE  \A ch \in Channels : /\ Length(ch)' \in Nat /\ Unsent(ch)' \in Nat
                                 /\ \A T : Amount(T, ch)' \in Nat
  <1> SUFFICES ASSUME NEW ch \in Channels
               PROVE  /\ Length(ch)' \in Nat /\ Unsent(ch)' \in Nat
                      /\ \A T : Amount(T, ch)' \in Nat
    OBVIOUS
  <1> DEFINE c == channel'[ch]
             p == Pending'[ch]
             s == Sent'[ch]
  <1>1. Writer[ch] \in Threads
    BY Wiring
  <1>2. work'[Writer[ch]] \in Seq(Ops) /\ c \in Seq(Messages)
    BY <1>1 DEF ThreadTypes, WorkTypes, ChannelTypes
  <1>3. p = Out(ch, work'[Writer[ch]]) /\ s = c \o p
    BY DEF Pending, Sent
  <1>4. p \in Seq(Messages)
    BY <1>2, <1>3, Sending
  <1> HIDE DEF c, p, s
  <1>5. s \in Seq(Messages)
    BY <1>2, <1>3, <1>4, Lists
  <1>6. /\ Length(ch)' = Size(s) /\ Unsent(ch)' = Size(p)
        /\ \A T : Amount(T, ch)' = Count(T, s)
    BY DEF Length, Unsent, Amount, s, p
  <1>7. QED
    BY <1>4, <1>5, <1>6, Amounts

\* What a step of an actor leaves alone.
LEMMA TakeFrame ==
    ASSUME StateTypes, NEW actor \in Actor, NEW ch, NEW m,
           NEW handling \in Seq(Duties[actor]), Take(actor, ch, m, handling)
    PROVE  /\ \A other \in Actor : other # actor => Rest(other)' = Rest(other)
           /\ \A to \in Channels : Writer[to] # actor =>
                  Unsent(to)' = Unsent(to) /\ Pending'[to] = Pending[to]
           /\ \A to \in Channels : Writer[to] # actor /\ to # ch => Keeps(to)
           /\ Loses(ch, m)
           /\ \A to \in Channels : Writer[to] = actor =>
                  /\ Gains(to, Out(to, handling))
                  /\ Shortened(Pending'[to], Out(to, handling))
                  /\ to # "router" => Length(to) <= Hwm
           /\ actor # "serial" => Boots' = Boots
           /\ work'["reader"] = work["reader"]
           /\ ThreadTypes'
  <1>1. ThreadTypes
    BY DEF StateTypes
  <1>2. /\ ThreadTypes'
        /\ \A other \in Actor : other # actor => todo'[other] = todo[other]
        /\ \A other \in Threads : other # actor => work'[other] = work[other]
        /\ Sent[ch] # <<>> /\ m = Head(Sent[ch]) /\ Sent'[ch] = Tail(Sent[ch])
        /\ \A to \in Channels :
               /\ Writer[to] = actor =>
                      /\ Sent[to] = channel[to] /\ Sent'[to] = Sent[to] \o Out(to, handling)
                      /\ Shortened(Pending'[to], Out(to, handling))
               /\ Writer[to] # actor =>
                      /\ Pending'[to] = Pending[to]
                      /\ to # ch => Sent'[to] = Sent[to]
    BY <1>1, TakeMoves
  <1>3. \A to \in Channels \ {"router"} : Len(channel[to]) <= Hwm
    BY <1>1 DEF ThreadTypes, ChannelTypes
  <1>4. \A other \in Actor : other # actor => Rest(other)' = Rest(other)
    BY <1>2 DEF Rest
  <1>5. \A to \in Channels : Writer[to] # actor =>
            Unsent(to)' = Unsent(to) /\ Pending'[to] = Pending[to]
    BY <1>2 DEF Unsent
  <1>6. actor # "serial" => Boots' = Boots
    BY <1>2 DEF Boots, Threads, Actor
  <1>7. work'["reader"] = work["reader"]
    BY <1>2 DEF Threads, Actor
  <1>8. \A to \in Channels : Writer[to] = actor =>
            /\ Gains(to, Out(to, handling))
            /\ Shortened(Pending'[to], Out(to, handling))
            /\ to # "router" => Length(to) <= Hwm
    BY <1>2, <1>3 DEF Gains, Length, Size
  <1>9. QED
    BY <1>2, <1>4, <1>5, <1>6, <1>7, <1>8 DEF Loses, Keeps

\* A list that is shortened.
LEMMA ShortenedNumbers ==
    ASSUME NEW old \in Seq(Messages), NEW new, Shortened(new, old)
    PROVE  /\ Size(new) <= Size(old) /\ Size(new) \in Nat /\ Size(old) \in Nat
           /\ \A T : /\ Count(T, new) \in Nat /\ Count(T, old) \in Nat
                     /\ Size(old) <= 1 + Count(T, old) => Size(new) <= 1 + Count(T, new)
  <1>1. CASE new = old
    BY <1>1, Amounts
  <1>2. CASE old # <<>> /\ new = Tail(old)
    <2>1. new \in Seq(Messages) /\ Size(old) = Size(new) + 1 /\ Size(old) \in Nat /\ Size(new) \in Nat
      BY <1>2, Lists DEF Size
    <2>2. ASSUME NEW T
          PROVE  /\ Count(T, new) \in Nat /\ Count(T, old) \in Nat
                 /\ Count(T, old) <= Count(T, new) + 1
      <3>1. Count(T, new) \in Nat /\ Count(T, old) \in Nat
        BY <2>1, Amounts
      <3>2. /\ Head(old) \in T => Count(T, old) = Count(T, Tail(old)) + 1
            /\ Head(old) \notin T => Count(T, old) = Count(T, Tail(old))
        BY <1>2, CountTail
      <3>3. QED
        BY <1>2, <3>1, <3>2
    <2>3. QED
      BY <2>1, <2>2
  <1>3. QED
    BY <1>1, <1>2 DEF Shortened

\* No thread that has returned takes a message.
LEMMA TakeReturned ==
    ASSUME ThreadTypes, Returned, NEW actor \in Actor, NEW ch, NEW m,
           NEW handling \in Seq(Duties[actor]), Take(actor, ch, m, handling)
    PROVE  Returned'
  <1>1. /\ actor \notin ended /\ ended' = ended /\ closed' = closed
        /\ \A other \in Threads : other # actor => work'[other] = work[other]
    BY TakeMoves
  <1>2. /\ ended \subseteq Threads /\ "api" \in Threads /\ "api" # actor
    BY DEF ThreadTypes, Threads, Actor
  <1>3. Joined(work["api"], ended)' <=> Joined(work["api"], ended)
    BY <1>1, <1>2 DEF Joined
  <1>4. QED
    BY <1>1, <1>2, <1>3 DEF Returned

-----------------------------------------------------------------------------
(* The Context *)

LEMMA EmptyHandling ==
    /\ \A ch : Out(ch, <<>>) = <<>>
    /\ \A thread : <<>> \in Seq(Duties[thread])
  BY Sending

LEMMA Names ==
    /\ Channels = {"router", "toMachine", "toContext", "toFlow", "toParent", "toSerial",
                   "fromSerial", "internal"}
    /\ Actor = {"context", "machine", "flow", "serial"}
    /\ Threads = {"context", "machine", "flow", "serial", "reader", "hotplug", "api"}
  BY DEF Channels, Actor, Threads

\* The variables that a step of an actor leaves alone.
Elsewhere == UNCHANGED <<plugged, known, plugs>>

\* A step of the Context sends nothing or passes the message on.
ContextMoves(ch, m, handling) ==
    /\ handling \in Seq(Duties["context"])
    /\ Take("context", ch, m, handling)
    /\ \A to \in Channels : to # "toMachine" => Out(to, handling) = <<>>
    /\ \/ Out("toMachine", handling) = <<>> /\ (ch = "router" => m \notin Events)
       \/ Out("toMachine", handling) = <<m>> /\ ch = "router"
    /\ Elsewhere /\ UNCHANGED <<waiting, unanswered, lines>>

LEMMA ContextTakes ==
    ASSUME Inv, NEW ch, NEW m, NEW handling, ContextMoves(ch, m, handling)
    PROVE  Bounds'
  <1> DEFINE sends == Out("toMachine", handling)
  <1>0. /\ handling \in Seq(Duties["context"])
        /\ Take("context", ch, m, handling)
        /\ \A to \in Channels : to # "toMachine" => Out(to, handling) = <<>>
        /\ \/ sends = <<>> /\ (ch = "router" => m \notin Events)
           \/ sends = <<m>> /\ ch = "router"
        /\ Elsewhere /\ UNCHANGED <<waiting, unanswered, lines>>
    BY DEF ContextMoves
  <1>1. StateTypes /\ ThreadTypes /\ Bounds
    BY DEF Inv, StateTypes
  <1>2. Turn("context", ch)
    BY <1>0, <1>1, TakeMoves DEF Actor
  <1>3. ch \in {"router", "toContext"}
    BY <1>2, FirstSockets, SocketPairs DEF Turn
  <1>4. /\ Rest("machine")' = Rest("machine") /\ Rest("flow")' = Rest("flow")
        /\ Rest("serial")' = Rest("serial")
        /\ \A to \in Channels \ {"toMachine"} : Unsent(to)' = Unsent(to) /\ Pending'[to] = Pending[to]
        /\ \A to \in Channels \ {"toMachine", ch} : Keeps(to)
        /\ Loses(ch, m) /\ Gains("toMachine", sends) /\ Shortened(Pending'["toMachine"], sends)
        /\ Length("toMachine") <= Hwm
        /\ Boots' = Boots /\ work'["reader"] = work["reader"]
        /\ ThreadTypes'
    BY <1>0, <1>1, TakeFrame, Wiring, Names
  <1>5. /\ m \in Messages
        /\ Length(ch) = Length(ch)' + 1 /\ Length(ch)' \in Nat
        /\ \A T : /\ Amount(T, ch) = Amount(T, ch)' + Weight(T, m)
                  /\ Amount(T, ch)' \in Nat /\ Weight(T, m) \in Nat
    BY <1>1, <1>3, <1>4, Loss DEF Channels
  <1>6. sends \in Seq(Messages) /\ Size(sends) \in 0..1
    <2>1. <<m>> \in Seq(Messages) /\ <<>> \in Seq(Messages)
      BY <1>5
    <2>2. Size(<<>>) = 0 /\ Size(<<m>>) = 1
      BY Amounts
    <2>3. sends = <<>> \/ sends = <<m>>
      BY <1>0
    <2> HIDE DEF sends
    <2>4. sends \in Seq(Messages)
      BY <2>1, <2>3
    <2>5. Size(sends) = 0 \/ Size(sends) = 1
      BY <2>2, <2>3
    <2>6. QED
      BY <2>4, <2>5
  <1> HIDE DEF sends
  <1>7. Unsent("toMachine")' <= 1
    <2> DEFINE new == Pending'["toMachine"]
    <2>1. Shortened(new, sends)
      BY <1>4
    <2>2. Unsent("toMachine")' = Size(new)
      BY DEF Unsent
    <2> HIDE DEF new
    <2>3. Size(new) <= Size(sends) /\ Size(new) \in Nat
      BY <1>6, <2>1, ShortenedNumbers
    <2>4. QED
      BY <1>6, <2>2, <2>3
  <1>8. FewUnsent'
    BY <1>1, <1>4, <1>7, Names DEF Bounds, FewUnsent
  <1>9. /\ Length("toMachine")' = Length("toMachine") + Size(sends)
        /\ \A T : Amount(T, "toMachine")' = Amount(T, "toMachine") + Count(T, sends)
    BY <1>1, <1>4, <1>6, Gain DEF Channels
  <1>10. /\ ch # "toContext" => Keeps("toContext")
         /\ ch # "router" => Keeps("router")
         /\ Keeps("toFlow") /\ Keeps("toParent") /\ Keeps("toSerial")
         /\ Keeps("fromSerial") /\ Keeps("internal")
    BY <1>3, <1>4 DEF Channels
  <1>11. /\ News' = News /\ Unseen' = Unseen /\ Count(Queued, lines)' = Count(Queued, lines)
         /\ Count(Startup, lines)' = Count(Startup, lines) /\ Size(lines)' = Size(lines)
    BY <1>0 DEF News, Unseen, Elsewhere
  <1>12. ASSUME NEW T, T \in {Added, Events}
         PROVE  Amount(T, "router")' + Amount(T, "toMachine")'
                    = Amount(T, "router") + Amount(T, "toMachine")
    <2>1. Amount(T, "router") \in Nat /\ Amount(T, "toMachine") \in Nat
      BY <1>1, Numbers DEF Channels
    <2>2. Amount(T, "toMachine")' = Amount(T, "toMachine") + Count(T, sends)
      BY <1>9
    <2>3. CASE ch = "router"
      <3>1. /\ Amount(T, "router") = Amount(T, "router")' + Weight(T, m)
            /\ Amount(T, "router")' \in Nat /\ Weight(T, m) \in Nat
        BY <1>5, <2>3
      <3>2. Count(T, sends) = Weight(T, m)
        <4>1. CASE sends = <<m>>
          BY <4>1 DEF Weight
        <4>2. CASE sends = <<>> /\ m \notin Events
          <5>1. Weight(Added, m) = 0 /\ Weight(Events, m) = 0
            BY <1>5, <4>2, Singles DEF Events
          <5>2. Count(T, sends) = 0
            BY <4>2, Amounts
          <5>3. QED
            BY <1>12, <5>1, <5>2
        <4>3. QED
          BY <1>0, <2>3, <4>1, <4>2
      <3>3. QED
        BY <2>1, <2>2, <3>1, <3>2
    <2>4. CASE ch = "toContext"
      <3>1. sends = <<>>
        BY <1>0, <2>4
      <3>2. Count(T, sends) = 0
        BY <3>1, Amounts
      <3>3. Amount(T, "router")' = Amount(T, "router")
        BY <1>10, <2>4, Kept
      <3>4. QED
        BY <2>1, <2>2, <3>2, <3>3
    <2>5. QED
      BY <1>3, <2>3, <2>4
  <1>13. /\ Printed' = Printed /\ Enabled' = Enabled /\ Replies' = Replies /\ InFlow' = InFlow
         /\ InSerial' = InSerial
    BY <1>10, <1>11, Kept DEF Printed, Enabled, Replies, InFlow, InSerial
  <1>14. Coming' = Coming /\ Reported' = Reported
    <2>1. /\ \A T : Amount(T, "toFlow")' = Amount(T, "toFlow")
          /\ \A T : Amount(T, "toSerial")' = Amount(T, "toSerial")
      BY <1>10, Kept
    <2>2. /\ Amount(Added, "router")' + Amount(Added, "toMachine")'
                = Amount(Added, "router") + Amount(Added, "toMachine")
          /\ Amount(Events, "router")' + Amount(Events, "toMachine")'
                = Amount(Events, "router") + Amount(Events, "toMachine")
      BY <1>12
    <2>3. ASSUME NEW T
          PROVE  /\ Amount(T, "router")' \in Nat /\ Amount(T, "toMachine")' \in Nat
                 /\ Amount(T, "router") \in Nat /\ Amount(T, "toMachine") \in Nat
                 /\ Amount(T, "toFlow") \in Nat /\ Amount(T, "toSerial") \in Nat
      BY <1>1, <1>4, Numbers, NextAmounts DEF Channels
    <2>4. News \in Nat /\ Unseen \in Nat /\ Boots \in Nat
      BY <1>1, Numbers
    <2>5. Coming' = Coming
      <3>1. /\ Amount(Added, "router")' \in Nat /\ Amount(Added, "toMachine")' \in Nat
            /\ Amount(Added, "router") \in Nat /\ Amount(Added, "toMachine") \in Nat
            /\ Amount(Added, "toFlow") \in Nat /\ Amount(Added, "toSerial") \in Nat
            /\ Amount(Added, "toFlow")' = Amount(Added, "toFlow")
            /\ Amount(Added, "toSerial")' = Amount(Added, "toSerial")
            /\ Boots' = Boots /\ News' = News
        BY <1>4, <1>11, <2>1, <2>3
      <3>2. /\ Coming = News + Amount(Added, "router") + Amount(Added, "toMachine")
                           + Amount(Added, "toFlow") + Amount(Added, "toSerial") + Boots
            /\ Coming' = News' + Amount(Added, "router")' + Amount(Added, "toMachine")'
                           + Amount(Added, "toFlow")' + Amount(Added, "toSerial")' + Boots'
        BY DEF Coming
      <3>3. QED
        BY <2>2, <2>4, <3>1, <3>2
    <2>6. Reported' = Reported
      <3>1. /\ Amount(Events, "router")' \in Nat /\ Amount(Events, "toMachine")' \in Nat
            /\ Amount(Events, "router") \in Nat /\ Amount(Events, "toMachine") \in Nat
            /\ Amount(Events, "toFlow") \in Nat
            /\ Amount(Events, "toFlow")' = Amount(Events, "toFlow") /\ Unseen' = Unseen
        BY <1>11, <2>1, <2>3
      <3>2. QED
        BY <2>2, <2>4, <3>1 DEF Reported
    <2>7. QED
      BY <2>5, <2>6
  <1>15. /\ plugs' = plugs /\ waiting' = waiting /\ unanswered' = unanswered
         /\ Credit' = Credit /\ Limit' = Limit
    BY <1>0, <1>14 DEF Elsewhere, Credit, Limit
  <1>16. /\ Length("toFlow")' = Length("toFlow") /\ Length("toParent")' = Length("toParent")
         /\ Length("toSerial")' = Length("toSerial") /\ Length("fromSerial")' = Length("fromSerial")
         /\ Length("internal")' = Length("internal")
         /\ Rest("machine")' = Rest("machine") /\ Rest("flow")' = Rest("flow")
         /\ Rest("serial")' = Rest("serial")
    BY <1>4, <1>10, Kept
  <1>17. ContextAndMachine'
    <2>0. Size(sends) \in Nat /\ Size(sends) <= 1
      BY <1>6
    <2>1. /\ Length("toMachine") \in Nat /\ Length("toContext") \in Nat /\ Unsent("toContext") \in Nat
          /\ Rest("machine") \in Nat /\ Rest("context") \in Nat /\ Hwm \in Nat
          /\ Length("toMachine")' = Length("toMachine") + Size(sends)
          /\ Length("toMachine") <= Hwm
      BY <1>1, <1>4, <1>9, Numbers DEF Channels, Actor
    <2>2. /\ Length("toMachine") + Length("toContext") + Rest("machine") <= Hwm + 2 + Rest("context")
          /\ Unsent("toContext") + Rest("machine") <= 1
      BY <1>1 DEF Bounds, ContextAndMachine, FewUnsent
    <2>3. CASE ch = "router"
      <3>1. /\ Rest("context") = 0
            /\ \/ Rest("context")' = 1
               \/ Rest("context")' = 0 /\ Length("toContext") = Unsent("toContext")
            /\ Length("toContext")' = Length("toContext")
        BY <1>1, <1>2, <1>10, <2>3, TurnNumbers, SocketPairs, FirstSockets, Kept DEF Actor
      <3>2. QED
        BY <1>16, <2>0, <2>1, <2>2, <3>1 DEF ContextAndMachine
    <2>4. CASE ch = "toContext"
      <3>1. /\ Rest("context")' = 0 /\ Rest("context") <= 1
            /\ Length("toContext") = Length("toContext")' + 1 /\ Length("toContext")' \in Nat
        BY <1>1, <1>2, <1>5, <2>4, TurnNumbers, SocketPairs, FirstSockets, Numbers DEF Actor
      <3>2. Size(sends) = 0
        BY <1>0, <2>4, Amounts
      <3>3. QED
        BY <1>16, <2>0, <2>1, <2>2, <3>1, <3>2 DEF ContextAndMachine
    <2>5. QED
      BY <1>3, <2>3, <2>4
  <1>18. /\ Startups' /\ MachineAndFlow' /\ DeviceAndReader' /\ ByWindow' /\ ByStatus'
    <2>1. Startups /\ MachineAndFlow /\ DeviceAndReader /\ ByWindow /\ ByStatus
      BY <1>1 DEF Bounds
    <2>2. QED
      BY <1>11, <1>13, <1>14, <1>15, <1>16, <2>1
         DEF Startups, MachineAndFlow, DeviceAndReader, ByWindow, ByStatus, OnlyCounted,
             OnlyStatus, FlowAndSerial
  <1>19. QED
    BY <1>8, <1>17, <1>18 DEF Bounds

-----------------------------------------------------------------------------
(* Machine *)

\* How a step of an actor changes the numbers.
LEMMA TakenNumbers ==
    ASSUME StateTypes, NEW actor \in Actor, NEW ch \in Channels, NEW m,
           NEW handling \in Seq(Duties[actor]), Take(actor, ch, m, handling)
    PROVE  /\ m \in Messages
           /\ Length(ch) = Length(ch)' + 1
           /\ \A T : Amount(T, ch) = Amount(T, ch)' + Weight(T, m) /\ Weight(T, m) \in Nat
           /\ \A to \in Channels : Writer[to] = actor =>
                  /\ Out(to, handling) \in Seq(Messages)
                  /\ Length(to)' = Length(to) + Size(Out(to, handling))
                  /\ Unsent(to)' <= Size(Out(to, handling))
                  /\ \A T : /\ Amount(T, to)' = Amount(T, to) + Count(T, Out(to, handling))
                            /\ Size(Out(to, handling)) <= 1 + Count(T, Out(to, handling))
                                   => Unsent(to)' <= 1 + Count(T, Pending[to])'
           /\ \A to \in Channels : Writer[to] # actor =>
                  /\ Unsent(to)' = Unsent(to) /\ \A T : Count(T, Pending[to])' = Count(T, Pending[to])
                  /\ to # ch => /\ Length(to)' = Length(to)
                                /\ \A T : Amount(T, to)' = Amount(T, to)
  <1>1. ThreadTypes
    BY DEF StateTypes
  <1>2. /\ \A to \in Channels : Writer[to] # actor =>
                  Unsent(to)' = Unsent(to) /\ Pending'[to] = Pending[to]
        /\ \A to \in Channels : Writer[to] # actor /\ to # ch => Keeps(to)
        /\ Loses(ch, m)
        /\ \A to \in Channels : Writer[to] = actor =>
               /\ Gains(to, Out(to, handling))
               /\ Shortened(Pending'[to], Out(to, handling))
    BY TakeFrame
  <1>3. /\ m \in Messages
        /\ Length(ch) = Length(ch)' + 1
        /\ \A T : Amount(T, ch) = Amount(T, ch)' + Weight(T, m) /\ Weight(T, m) \in Nat
    BY <1>1, <1>2, Loss
  <1>4. handling \in Seq(Ops)
    BY DutyIsOp, Names
  <1>5. ASSUME NEW to \in Channels, Writer[to] = actor
        PROVE  /\ Out(to, handling) \in Seq(Messages)
               /\ Length(to)' = Length(to) + Size(Out(to, handling))
               /\ Unsent(to)' <= Size(Out(to, handling))
               /\ \A T : /\ Amount(T, to)' = Amount(T, to) + Count(T, Out(to, handling))
                         /\ Size(Out(to, handling)) <= 1 + Count(T, Out(to, handling))
                                => Unsent(to)' <= 1 + Count(T, Pending[to])'
    <2> DEFINE s == Out(to, handling)
               new == Pending'[to]
    <2>1. s \in Seq(Messages) /\ Gains(to, s) /\ Shortened(new, s)
      BY <1>2, <1>4, <1>5, Sending
    <2>2. Unsent(to)' = Size(new) /\ \A T : Count(T, Pending[to])' = Count(T, new)
      BY DEF Unsent
    <2> HIDE DEF s, new
    <2>3. /\ Size(new) <= Size(s)
          /\ \A T : Size(s) <= 1 + Count(T, s) => Size(new) <= 1 + Count(T, new)
      BY <2>1, ShortenedNumbers
    <2>4. /\ Length(to)' = Length(to) + Size(s)
          /\ \A T : Amount(T, to)' = Amount(T, to) + Count(T, s)
      BY <1>1, <2>1, Gain
    <2>5. QED
      BY <2>1, <2>2, <2>3, <2>4 DEF s
  <1>6. ASSUME NEW to \in Channels, Writer[to] # actor
        PROVE  /\ Unsent(to)' = Unsent(to) /\ \A T : Count(T, Pending[to])' = Count(T, Pending[to])
               /\ to # ch => /\ Length(to)' = Length(to)
                             /\ \A T : Amount(T, to)' = Amount(T, to)
    <2>1. to # ch => Keeps(to)
      BY <1>2, <1>6
    <2>2. Pending'[to] = Pending[to] /\ Unsent(to)' = Unsent(to)
      BY <1>2, <1>6
    <2>3. \A T : Count(T, Pending[to])' = Count(T, Pending[to])
      BY <2>2 DEF Count
    <2>4. QED
      BY <2>1, <2>2, <2>3, Kept
  <1>7. QED
    BY <1>3, <1>5, <1>6

\* What Machine sends to the Context and to FlowControl for a message.
MachineSends(ch, m, up, down) ==
    \/ ch = "toMachine" /\ up = <<>> /\ down = <<m>>
    \/ ch = "toMachine" /\ up = <<>> /\ down = <<>> /\ m \notin Events
    \/ ch = "toParent" /\ m = "startup" /\ up = <<>> /\ down \in {<<>>, <<"enable", "queued">>}
    \/ ch = "toParent" /\ m = "answer" /\ up \in {<<>>, <<"answer">>} /\ down = <<>>

\* The same in numbers.
MachineCounts(ch, m, up, down) ==
    \/ /\ ch = "toMachine" /\ Size(up) = 0 /\ Size(down) = 1 /\ Count(Enable, down) = Weight(Enable, m)
       /\ Count(Added, down) = Weight(Added, m) /\ Count(Events, down) = Weight(Events, m)
       /\ Count(Queued, down) = Weight(Queued, m)
    \/ /\ ch = "toMachine" /\ Size(up) = 0 /\ Size(down) = 0 /\ Count(Enable, down) = 0
       /\ Count(Added, down) = 0 /\ Count(Events, down) = 0 /\ Count(Queued, down) = 0
       /\ Weight(Added, m) = 0 /\ Weight(Events, m) = 0
    \/ /\ ch = "toParent" /\ Size(up) = 0 /\ Weight(Startup, m) = 1
       /\ \/ Size(down) = 0 /\ Count(Enable, down) = 0 /\ Count(Queued, down) = 0
          \/ Size(down) = 2 /\ Count(Enable, down) = 1 /\ Count(Queued, down) = 1
       /\ Count(Added, down) = 0 /\ Count(Events, down) = 0
    \/ /\ ch = "toParent" /\ Size(up) \in {0, 1} /\ Size(down) = 0 /\ Weight(Startup, m) = 0
       /\ Count(Enable, down) = 0 /\ Count(Queued, down) = 0
       /\ Count(Added, down) = 0 /\ Count(Events, down) = 0

LEMMA EnableAndQuery ==
    LET s == <<"enable", "queued">> IN
    /\ s \in Seq(Messages) /\ Size(s) = 2 /\ Count(Enable, s) = 1 /\ Count(Queued, s) = 1
    /\ Count(Added, s) = 0 /\ Count(Events, s) = 0
  <1> DEFINE s == <<"enable", "queued">>
  <1>1. /\ s \in Seq(Messages) /\ Len(s) = 2 /\ s # <<>> /\ Head(s) = "enable"
        /\ Tail(s) = <<"queued">>
    BY DEF Messages
  <1> HIDE DEF s
  <1>2. ASSUME NEW T
        PROVE  /\ "enable" \in T => Count(T, s) = Weight(T, "queued") + 1
               /\ "enable" \notin T => Count(T, s) = Weight(T, "queued")
    BY <1>1, CountTail DEF Weight
  <1>3. /\ Weight(Enable, "queued") = 0 /\ Weight(Queued, "queued") = 1
        /\ Weight(Added, "queued") = 0 /\ Weight(Events, "queued") = 0
    BY Singles DEF Messages, Events
  <1>4. /\ "enable" \in Enable /\ "enable" \notin Queued /\ "enable" \notin Added
        /\ "enable" \notin Events
    BY DEF Enable, Queued, Added, Events
  <1>5. Count(Enable, s) = 1 /\ Count(Queued, s) = 1 /\ Count(Added, s) = 0 /\ Count(Events, s) = 0
    BY <1>2, <1>3, <1>4
  <1>6. QED
    BY <1>1, <1>5 DEF s, Size

LEMMA MachineSendsCounted ==
    ASSUME NEW ch, NEW m \in Messages, NEW up, NEW down, MachineSends(ch, m, up, down)
    PROVE  MachineCounts(ch, m, up, down)
  <1>1. /\ Size(<<>>) = 0 /\ \A x : Size(<<x>>) = 1
        /\ \A T : Count(T, <<>>) = 0 /\ Count(T, <<m>>) = Weight(T, m)
    BY Amounts DEF Weight
  <1>2. /\ Weight(Startup, "startup") = 1 /\ Weight(Startup, "answer") = 0
        /\ m \notin Events => Weight(Added, m) = 0 /\ Weight(Events, m) = 0
    BY Singles DEF Messages, Events
  <1>3. CASE ch = "toMachine" /\ up = <<>> /\ down = <<m>>
    BY <1>1, <1>3 DEF MachineCounts
  <1>4. CASE ch = "toMachine" /\ up = <<>> /\ down = <<>> /\ m \notin Events
    BY <1>1, <1>2, <1>4 DEF MachineCounts
  <1>5. CASE ch = "toParent" /\ m = "startup" /\ up = <<>> /\ down \in {<<>>, <<"enable", "queued">>}
    <2>1. CASE down = <<>>
      BY <1>1, <1>2, <1>5, <2>1 DEF MachineCounts
    <2>2. CASE down = <<"enable", "queued">>
      BY <1>1, <1>2, <1>5, <2>2, EnableAndQuery DEF MachineCounts
    <2>3. QED
      BY <1>5, <2>1, <2>2
  <1>6. CASE ch = "toParent" /\ m = "answer" /\ up \in {<<>>, <<"answer">>} /\ down = <<>>
    <2>1. Size(up) = 0 \/ Size(up) = 1
      BY <1>1, <1>6
    <2>2. QED
      BY <1>1, <1>2, <1>6, <2>1 DEF MachineCounts
  <1>7. QED
    BY <1>3, <1>4, <1>5, <1>6 DEF MachineSends

MachineMoves(ch, m, handling) ==
    /\ handling \in Seq(Duties["machine"])
    /\ Take("machine", ch, m, handling)
    /\ MachineSends(ch, m, Out("toContext", handling), Out("toFlow", handling))
    /\ Elsewhere /\ UNCHANGED <<waiting, unanswered, lines>>

\* The numbers before and after a step of Machine.
MachineStepped(ch, m, up, down) ==
    /\ MachineCounts(ch, m, up, down)
    /\ Coming' = Coming /\ Reported' = Reported /\ Replies' = Replies /\ InSerial' = InSerial
    /\ ch = "toMachine" => Printed' = Printed
    /\ ch = "toParent" => Printed = Printed' + Weight(Startup, m)
    /\ Enabled' = Enabled + Count(Enable, down) /\ InFlow' = InFlow + Count(Queued, down)
    /\ Printed' \in Nat
    /\ Length("toContext")' = Length("toContext") + Size(up)
    /\ Length("toFlow")' = Length("toFlow") + Size(down)
    /\ ch = "toMachine" => /\ Length("toMachine") = Length("toMachine")' + 1
                           /\ Length("toParent")' = Length("toParent")
    /\ ch = "toParent" => /\ Length("toParent") = Length("toParent")' + 1
                          /\ Length("toMachine")' = Length("toMachine")
    /\ Length("toMachine")' \in Nat /\ Length("toParent")' \in Nat
    /\ Length("toContext") <= Hwm /\ Length("toFlow") <= Hwm
    /\ Length("toSerial")' = Length("toSerial") /\ Length("fromSerial")' = Length("fromSerial")
    /\ Length("internal")' = Length("internal")
    /\ Rest("context")' = Rest("context") /\ Rest("flow")' = Rest("flow")
    /\ Rest("serial")' = Rest("serial")
    /\ ch = "toMachine" =>
           /\ Rest("machine") = 0
           /\ \/ Rest("machine")' = 1
              \/ Rest("machine")' = 0 /\ Length("toParent") = Unsent("toParent")
    /\ ch = "toParent" =>
           /\ Rest("machine")' = 0
           /\ \/ Rest("machine") = 1
              \/ Rest("machine") = 0 /\ Length("toMachine") = Unsent("toMachine")
    /\ ch = "toMachine" \/ ch = "toParent"
    /\ plugs' = plugs /\ waiting' = waiting /\ unanswered' = unanswered
    /\ Credit' = Credit /\ Limit' = Limit /\ Size(lines)' = Size(lines)

LEMMA MachineNumbers ==
    ASSUME StateTypes, NEW ch, NEW m, NEW handling, MachineMoves(ch, m, handling)
    PROVE  /\ MachineStepped(ch, m, Out("toContext", handling), Out("toFlow", handling))
           /\ FewUnsent => FewUnsent'
           /\ m \in Carried[ch]
  <1> DEFINE up == Out("toContext", handling)
             down == Out("toFlow", handling)
  <1>0. /\ handling \in Seq(Duties["machine"])
        /\ Take("machine", ch, m, handling)
        /\ MachineSends(ch, m, up, down)
        /\ Elsewhere /\ UNCHANGED <<waiting, unanswered, lines>>
    BY DEF MachineMoves
  <1>1. ThreadTypes /\ "machine" \in Actor
    BY DEF StateTypes, Actor
  <1>2. Turn("machine", ch) /\ ch \in Channels
    BY <1>0, <1>1, TakesTurn
  <1>3. ch \in {"toMachine", "toParent"}
    BY <1>2, FirstSockets, SocketPairs DEF Turn
  <1>4. /\ Rest("context")' = Rest("context") /\ Rest("flow")' = Rest("flow")
        /\ Rest("serial")' = Rest("serial")
        /\ Boots' = Boots /\ work'["reader"] = work["reader"]
        /\ Length("toContext") <= Hwm /\ Length("toFlow") <= Hwm
        /\ ThreadTypes'
    BY <1>0, <1>1, TakeFrame, Wiring, Names
  <1>5. /\ m \in Messages
        /\ Length(ch) = Length(ch)' + 1
        /\ \A T : Amount(T, ch) = Amount(T, ch)' + Weight(T, m) /\ Weight(T, m) \in Nat
    BY <1>0, <1>1, <1>2, TakenNumbers
  <1>6. /\ up \in Seq(Messages) /\ down \in Seq(Messages)
        /\ Length("toContext")' = Length("toContext") + Size(up)
        /\ Unsent("toContext")' <= Size(up)
        /\ Length("toFlow")' = Length("toFlow") + Size(down)
        /\ \A T : /\ Amount(T, "toContext")' = Amount(T, "toContext") + Count(T, up)
                  /\ Amount(T, "toFlow")' = Amount(T, "toFlow") + Count(T, down)
                  /\ Size(down) <= 1 + Count(T, down)
                         => Unsent("toFlow")' <= 1 + Count(T, Pending["toFlow"])'
    BY <1>0, <1>1, <1>2, TakenNumbers, Wiring, Names
  <1>7. \A to \in Channels \ {"toContext", "toFlow"} :
            /\ Unsent(to)' = Unsent(to) /\ \A T : Count(T, Pending[to])' = Count(T, Pending[to])
            /\ to # ch => Length(to)' = Length(to) /\ \A T : Amount(T, to)' = Amount(T, to)
    BY <1>0, <1>1, <1>2, TakenNumbers, Wiring, Names
  <1>8. MachineCounts(ch, m, up, down)
    BY <1>0, <1>5, MachineSendsCounted
  <1> HIDE DEF up, down
  <1>9. m \in Carried[ch]
    BY <1>0, <1>1, <1>2, TakenMessage
  <1>10. \A to \in Channels : Length(to)' \in Nat /\ \A T : Amount(T, to)' \in Nat
    BY <1>4, NextAmounts
  <1>11. \A T : Count(T, up) \in Nat /\ Count(T, down) \in Nat
    BY <1>6, Amounts
  <1>12. /\ News' = News /\ Unseen' = Unseen /\ Size(lines)' = Size(lines)
         /\ \A T : Count(T, lines)' = Count(T, lines)
    BY <1>0 DEF News, Unseen, Elsewhere, Size, Count
  <1>13. /\ \A T : /\ Amount(T, "router")' = Amount(T, "router")
                   /\ Amount(T, "toSerial")' = Amount(T, "toSerial")
                   /\ Amount(T, "internal")' = Amount(T, "internal")
                   /\ Amount(T, "fromSerial")' = Amount(T, "fromSerial")
         /\ Length("toSerial")' = Length("toSerial") /\ Length("fromSerial")' = Length("fromSerial")
         /\ Length("internal")' = Length("internal")
    BY <1>3, <1>7, Names
  <1>14. /\ ch = "toMachine" => /\ \A T : Amount(T, "toParent")' = Amount(T, "toParent")
                                /\ Length("toParent")' = Length("toParent")
         /\ ch = "toParent" => /\ \A T : Amount(T, "toMachine")' = Amount(T, "toMachine")
                               /\ Length("toMachine")' = Length("toMachine")
    BY <1>3, <1>7, Names
  <1>15. Replies' = Replies /\ InSerial' = InSerial
    BY <1>12, <1>13 DEF Replies, InSerial
  <1>16. Enabled' = Enabled + Count(Enable, down) /\ InFlow' = InFlow + Count(Queued, down)
    BY <1>6 DEF Enabled, InFlow
  <1>17. ASSUME NEW T, T = Added \/ T = Events
         PROVE  Amount(T, "toMachine")' + Amount(T, "toFlow")'
                    = Amount(T, "toMachine") + Amount(T, "toFlow")
    <2>1. /\ Amount(T, "toMachine") \in Nat /\ Amount(T, "toFlow") \in Nat
          /\ Amount(T, "toMachine")' \in Nat /\ Amount(T, "toFlow")' \in Nat
      BY <1>10, Numbers DEF Channels
    <2>2. Amount(T, "toFlow")' = Amount(T, "toFlow") + Count(T, down) /\ Count(T, down) \in Nat
      BY <1>6, <1>11
    <2>3. CASE ch = "toMachine"
      <3>1. Count(T, down) = Weight(T, m)
        BY <1>8, <1>17, <2>3 DEF MachineCounts
      <3>2. Amount(T, "toMachine") = Amount(T, "toMachine")' + Weight(T, m)
        BY <1>5, <2>3
      <3>3. QED
        BY <2>1, <2>2, <3>1, <3>2
    <2>4. CASE ch = "toParent"
      <3>1. Count(T, down) = 0
        BY <1>8, <1>17, <2>4 DEF MachineCounts
      <3>2. Amount(T, "toMachine")' = Amount(T, "toMachine")
        BY <1>14, <2>4
      <3>3. QED
        BY <2>1, <2>2, <3>1, <3>2
    <2>5. QED
      BY <1>3, <2>3, <2>4
  <1>18. \A T : /\ Amount(T, "router") \in Nat /\ Amount(T, "toSerial") \in Nat
                /\ Amount(T, "toMachine") \in Nat /\ Amount(T, "toFlow") \in Nat
                /\ Amount(T, "toMachine")' \in Nat /\ Amount(T, "toFlow")' \in Nat
                /\ Amount(T, "internal") \in Nat /\ Amount(T, "fromSerial") \in Nat
                /\ Amount(T, "toParent") \in Nat /\ Amount(T, "toParent")' \in Nat
                /\ Count(T, lines) \in Nat
    BY <1>10, Numbers DEF Channels
  <1>19. Coming' = Coming
    <2>1. Amount(Added, "toMachine")' + Amount(Added, "toFlow")'
                    = Amount(Added, "toMachine") + Amount(Added, "toFlow")
      BY <1>17
    <2>2. /\ News \in Nat /\ Boots \in Nat /\ News' = News /\ Boots' = Boots
          /\ Amount(Added, "router")' = Amount(Added, "router")
          /\ Amount(Added, "toSerial")' = Amount(Added, "toSerial")
      BY <1>4, <1>12, <1>13, Numbers
    <2>3. QED
      BY <1>18, <2>1, <2>2 DEF Coming
  <1>20. Reported' = Reported
    <2>1. Amount(Events, "toMachine")' + Amount(Events, "toFlow")'
                    = Amount(Events, "toMachine") + Amount(Events, "toFlow")
      BY <1>17
    <2>2. Unseen \in Nat /\ Unseen' = Unseen /\ Amount(Events, "router")' = Amount(Events, "router")
      BY <1>12, <1>13, Numbers
    <2>3. QED
      BY <1>18, <2>1, <2>2 DEF Reported
  <1>21. /\ Printed' \in Nat
         /\ ch = "toMachine" => Printed' = Printed
         /\ ch = "toParent" => Printed = Printed' + Weight(Startup, m)
    <2>1. /\ Count(Startup, lines)' = Count(Startup, lines)
          /\ Amount(Startup, "internal")' = Amount(Startup, "internal")
          /\ Amount(Startup, "fromSerial")' = Amount(Startup, "fromSerial")
      BY <1>12, <1>13
    <2>2. /\ ch = "toMachine" => Amount(Startup, "toParent")' = Amount(Startup, "toParent")
          /\ ch = "toParent" => Amount(Startup, "toParent") = Amount(Startup, "toParent")' + Weight(Startup, m)
      BY <1>5, <1>14
    <2>3. Weight(Startup, m) \in Nat
      BY <1>5
    <2>4. /\ Count(Startup, lines) \in Nat /\ Amount(Startup, "internal") \in Nat
          /\ Amount(Startup, "fromSerial") \in Nat
          /\ Amount(Startup, "toParent") \in Nat /\ Amount(Startup, "toParent")' \in Nat
      BY <1>18
    <2>5. QED
      BY <2>1, <2>2, <2>3, <2>4 DEF Printed
  <1>22. /\ ch = "toMachine" =>
           /\ Rest("machine") = 0
           /\ \/ Rest("machine")' = 1
              \/ Rest("machine")' = 0 /\ Length("toParent") = Unsent("toParent")
         /\ ch = "toParent" =>
           /\ Rest("machine")' = 0
           /\ \/ Rest("machine") = 1
              \/ Rest("machine") = 0 /\ Length("toMachine") = Unsent("toMachine")
    BY <1>1, <1>2, TurnNumbers, SocketPairs, FirstSockets
  <1>23. /\ plugs' = plugs /\ waiting' = waiting /\ unanswered' = unanswered
         /\ Credit' = Credit /\ Limit' = Limit
    BY <1>0, <1>20 DEF Elsewhere, Credit, Limit
  <1>24. MachineStepped(ch, m, up, down)
    <2>1. /\ ch = "toMachine" => Length("toMachine") = Length("toMachine")' + 1
          /\ ch = "toParent" => Length("toParent") = Length("toParent")' + 1
      BY <1>5
    <2>2. Length("toMachine")' \in Nat /\ Length("toParent")' \in Nat
      BY <1>10 DEF Channels
    <2>3. QED
      BY <1>3, <1>4, <1>6, <1>8, <1>12, <1>13, <1>14, <1>15, <1>16, <1>19, <1>20, <1>21, <1>22,
         <1>23, <2>1, <2>2 DEF MachineStepped
  <1>25. FewUnsent => FewUnsent'
    <2>1. Unsent("toContext")' + Rest("machine")' <= 1
      <3>1. Unsent("toContext")' \in Nat /\ Unsent("toContext")' <= Size(up)
        BY <1>4, <1>6, NextAmounts DEF Channels
      <3>2. CASE ch = "toMachine"
        <4>1. Size(up) = 0 /\ (Rest("machine")' = 0 \/ Rest("machine")' = 1)
          BY <1>8, <1>22, <3>2 DEF MachineCounts
        <4>2. QED
          BY <3>1, <4>1
      <3>3. CASE ch = "toParent"
        <4>1. (Size(up) = 0 \/ Size(up) = 1) /\ Rest("machine")' = 0
          BY <1>8, <1>22, <3>3 DEF MachineCounts
        <4>2. QED
          BY <3>1, <4>1
      <3>4. QED
        BY <1>3, <3>2, <3>3
    <2>2. Unsent("toFlow")' <= 1 + Count(Enable, Pending["toFlow"])'
      <3>1. Count(Enable, down) \in Nat
        BY <1>11
      <3>2. Size(down) <= 1 + Count(Enable, down)
        BY <1>8, <3>1 DEF MachineCounts
      <3>3. QED
        BY <1>6, <3>2
    <2>3. /\ Unsent("toMachine")' = Unsent("toMachine") /\ Unsent("toParent")' = Unsent("toParent")
          /\ Unsent("fromSerial")' = Unsent("fromSerial") /\ Unsent("toSerial")' = Unsent("toSerial")
          /\ Count(Queued, Pending["toSerial"])' = Count(Queued, Pending["toSerial"])
      BY <1>7, Names
    <2>4. QED
      BY <1>4, <2>1, <2>2, <2>3 DEF FewUnsent
  <1>26. QED
    BY <1>9, <1>24, <1>25 DEF up, down

LEMMA MachineTakes ==
    ASSUME Inv, NEW ch, NEW m, NEW handling, MachineMoves(ch, m, handling)
    PROVE  Bounds'
  <1> DEFINE up == Out("toContext", handling)
             down == Out("toFlow", handling)
  <1>1. StateTypes /\ Bounds /\ FewUnsent
    BY DEF Inv, Bounds
  <1>2. MachineStepped(ch, m, up, down) /\ FewUnsent' /\ m \in Carried[ch]
    BY <1>1, MachineNumbers
  <1> HIDE DEF up, down
  <1>3. /\ Coming \in Nat /\ Printed \in Nat /\ Enabled \in Nat /\ InFlow \in Nat /\ InSerial \in Nat
        /\ Reported \in Nat /\ Replies \in Nat
        /\ plugs \in Nat /\ waiting \in Nat /\ Hwm \in Nat
        /\ Rest("machine") \in Nat /\ Rest("context") \in Nat /\ Rest("flow") \in Nat
        /\ Rest("machine") <= 1
        /\ Length("toMachine") \in Nat /\ Length("toContext") \in Nat /\ Length("toFlow") \in Nat
        /\ Length("toParent") \in Nat /\ Unsent("toParent") \in Nat /\ Unsent("toMachine") \in Nat
    BY <1>1, Numbers DEF Channels, Actor
  <1>4. /\ Unsent("toMachine") <= 1 /\ Unsent("toParent") + Rest("flow") <= 1
    BY <1>1 DEF FewUnsent
  <1>5. /\ Printed' \in Nat
        /\ Length("toMachine")' \in Nat /\ Length("toParent")' \in Nat
        /\ Length("toContext") <= Hwm /\ Length("toFlow") <= Hwm
        /\ Length("toContext")' = Length("toContext") + Size(up)
        /\ Length("toFlow")' = Length("toFlow") + Size(down)
        /\ Coming' = Coming /\ Rest("context")' = Rest("context") /\ Rest("flow")' = Rest("flow")
        /\ plugs' = plugs
    BY <1>2 DEF MachineStepped
  <1>6. ContextAndMachine'
    <2>1. Length("toMachine") + Length("toContext") + Rest("machine") <= Hwm + 2 + Rest("context")
      BY <1>1 DEF Bounds, ContextAndMachine
    <2>2. CASE ch = "toMachine"
      <3>1. /\ Size(up) = 0 /\ Rest("machine") = 0 /\ (Rest("machine")' = 0 \/ Rest("machine")' = 1)
            /\ Length("toMachine") = Length("toMachine")' + 1
        BY <1>2, <2>2 DEF MachineStepped, MachineCounts
      <3>2. QED
        BY <1>3, <1>5, <2>1, <3>1 DEF ContextAndMachine
    <2>3. CASE ch = "toParent"
      <3>1. /\ Size(up) = 0 \/ Size(up) = 1
            /\ Rest("machine")' = 0 /\ Length("toMachine")' = Length("toMachine")
            /\ \/ Rest("machine") = 1
               \/ Rest("machine") = 0 /\ Length("toMachine") = Unsent("toMachine")
        BY <1>2, <2>3 DEF MachineStepped, MachineCounts
      <3>2. QED
        BY <1>3, <1>4, <1>5, <2>1, <3>1 DEF ContextAndMachine
    <2>4. QED
      BY <1>2, <2>2, <2>3 DEF MachineStepped
  <1>7. Startups'
    <2>1. Coming + Printed + Enabled <= plugs
      BY <1>1 DEF Bounds, Startups
    <2>2. Enabled' = Enabled + Count(Enable, down)
      BY <1>2 DEF MachineStepped
    <2>3. CASE ch = "toMachine"
      <3>1. Printed' = Printed /\ Count(Enable, down) = 0
        <4>1. Printed' = Printed /\ (Count(Enable, down) = Weight(Enable, m) \/ Count(Enable, down) = 0)
          BY <1>2, <2>3 DEF MachineStepped, MachineCounts
        <4>2. m \in Messages /\ m # "enable"
          BY <1>2, <2>3, CarriedMessages, LifecycleAssumption DEF Channels, Events
        <4>3. Weight(Enable, m) = 0
          BY <4>2, Singles
        <4>4. QED
          BY <4>1, <4>3
      <3>2. QED
        BY <1>3, <1>5, <2>1, <2>2, <3>1 DEF Startups
    <2>4. CASE ch = "toParent"
      <3>1. /\ Printed = Printed' + Weight(Startup, m)
            /\ \/ Weight(Startup, m) = 1 /\ (Count(Enable, down) = 0 \/ Count(Enable, down) = 1)
               \/ Weight(Startup, m) = 0 /\ Count(Enable, down) = 0
        BY <1>2, <2>4 DEF MachineStepped, MachineCounts
      <3>2. QED
        BY <1>3, <1>5, <2>1, <2>2, <3>1 DEF Startups
    <2>5. QED
      BY <1>2, <2>3, <2>4 DEF MachineStepped
  <1>8. MachineAndFlow'
    <2>1. Length("toFlow") + Length("toParent") + Rest("flow") + 2 * (Coming + Printed)
              <= Hwm + 2 + 2 * plugs + Rest("machine")
      BY <1>1 DEF Bounds, MachineAndFlow
    <2>2. Coming + Printed + Enabled <= plugs
      BY <1>1 DEF Bounds, Startups
    <2>3. CASE ch = "toMachine"
      <3>1. /\ Size(down) = 0 \/ Size(down) = 1
            /\ Rest("machine") = 0
            /\ \/ Rest("machine")' = 1
               \/ Rest("machine")' = 0 /\ Length("toParent") = Unsent("toParent")
            /\ Length("toParent")' = Length("toParent") /\ Printed' = Printed
        BY <1>2, <2>3 DEF MachineStepped, MachineCounts
      <3>2. QED
        BY <1>3, <1>4, <1>5, <2>1, <2>2, <3>1 DEF MachineAndFlow
    <2>4. CASE ch = "toParent"
      <3>1. /\ Printed = Printed' + Weight(Startup, m)
            /\ \/ Weight(Startup, m) = 1 /\ (Size(down) = 0 \/ Size(down) = 2)
               \/ Weight(Startup, m) = 0 /\ Size(down) = 0
            /\ Length("toParent") = Length("toParent")' + 1 /\ Rest("machine")' = 0
        BY <1>2, <2>4 DEF MachineStepped, MachineCounts
      <3>2. QED
        BY <1>3, <1>5, <2>1, <3>1 DEF MachineAndFlow
    <2>5. QED
      BY <1>2, <2>3, <2>4 DEF MachineStepped
  <1>9. ASSUME "queued" \notin Requests
        PROVE  InFlow' \in Nat /\ Printed' \in Nat /\ InFlow' + Printed' <= InFlow + Printed
    <2>1. InFlow' = InFlow + Count(Queued, down)
      BY <1>2 DEF MachineStepped
    <2>2. CASE ch = "toMachine"
      <3>1. Printed' = Printed /\ (Count(Queued, down) = Weight(Queued, m) \/ Count(Queued, down) = 0)
        BY <1>2, <2>2 DEF MachineStepped, MachineCounts
      <3>2. m \in Messages /\ m # "queued"
        BY <1>2, <1>9, <2>2, CarriedMessages, LifecycleAssumption DEF Channels, Events
      <3>3. Weight(Queued, m) = 0
        BY <3>2, Singles
      <3>4. QED
        BY <1>3, <2>1, <3>1, <3>3
    <2>3. CASE ch = "toParent"
      <3>1. /\ Printed = Printed' + Weight(Startup, m)
            /\ \/ Weight(Startup, m) = 1 /\ (Count(Queued, down) = 0 \/ Count(Queued, down) = 1)
               \/ Weight(Startup, m) = 0 /\ Count(Queued, down) = 0
        BY <1>2, <2>3 DEF MachineStepped, MachineCounts
      <3>2. QED
        BY <1>3, <1>5, <2>1, <3>1
    <2>4. QED
      BY <1>2, <2>2, <2>3 DEF MachineStepped
  <1>10. /\ DeviceAndReader' /\ ByWindow'
    <2>1. /\ Size(lines)' = Size(lines) /\ Length("internal")' = Length("internal")
          /\ unanswered' = unanswered /\ Length("toSerial")' = Length("toSerial")
          /\ Replies' = Replies /\ Credit' = Credit /\ Limit' = Limit
      BY <1>2 DEF MachineStepped
    <2>2. DeviceAndReader /\ ByWindow
      BY <1>1 DEF Bounds
    <2>3. QED
      BY <1>5, <2>1, <2>2 DEF DeviceAndReader, ByWindow, OnlyCounted
  <1>11. ByStatus'
    <2> SUFFICES ASSUME "queued" \notin Requests PROVE OnlyStatus' /\ FlowAndSerial'
      BY DEF ByStatus
    <2>1. OnlyStatus /\ FlowAndSerial
      BY <1>1 DEF Bounds, ByStatus
    <2>2. PICK flow \in Nat, line \in Nat :
              InFlow' = flow /\ Printed' = line /\ flow + line <= InFlow + Printed
      BY <1>9
    <2>3. /\ waiting' = waiting /\ InSerial' = InSerial /\ Rest("serial")' = Rest("serial")
          /\ Length("toSerial")' = Length("toSerial") /\ Length("fromSerial")' = Length("fromSerial")
      BY <1>2 DEF MachineStepped
    <2>4. OnlyStatus'
      <3>1. Coming + line + flow + waiting + InSerial <= plugs
        BY <1>3, <2>1, <2>2 DEF OnlyStatus
      <3>2. QED
        BY <1>5, <2>2, <2>3, <3>1 DEF OnlyStatus
    <2>5. FlowAndSerial'
      <3>1. /\ Length("toSerial") \in Nat /\ Length("fromSerial") \in Nat /\ Rest("serial") \in Nat
        BY <1>1, Numbers DEF Channels, Actor
      <3>2. Length("toSerial") + Length("fromSerial") + Rest("serial")
                + Coming + line + flow + waiting <= Hwm + 2 + plugs + Rest("flow")
        BY <1>3, <2>1, <2>2, <3>1 DEF FlowAndSerial
      <3>3. QED
        BY <1>5, <2>2, <2>3, <3>2 DEF FlowAndSerial
    <2>6. QED
      BY <2>4, <2>5
  <1>12. QED
    BY <1>2, <1>6, <1>7, <1>8, <1>10, <1>11 DEF Bounds

-----------------------------------------------------------------------------
(* FlowControl *)

\* What FlowControl sends for a message of Machine, or for a line, in numbers.
FlowForwards(m, down) ==
    LET n == Count(Queued, down) IN
    /\ Count(Added, down) = Weight(Added, m)
    /\ \/ /\ m = "queued" /\ Size(down) = n
          /\ waiting' = waiting + 1 - n /\ unanswered' = unanswered + n /\ unanswered + n <= Window
       \/ /\ m \in {"queued", "enable"} /\ Size(down) = 0 /\ n = 0
          /\ waiting' = waiting /\ unanswered' = unanswered
       \/ /\ m = "unlock" /\ Size(down) = n + 1
          /\ waiting' = waiting - n /\ unanswered' = unanswered + n /\ unanswered + n <= Window
       \/ /\ m \in Events /\ Size(down) = 1 /\ n = 0 /\ waiting' = 0 /\ unanswered' = 0
FlowAnswers(m, down) ==
    LET n == Count(Queued, down) IN
    /\ Count(Added, down) = 0
    /\ \/ /\ m \in {"queued", "unlock"} /\ Size(down) = n /\ waiting' = waiting - n
          /\ \E left \in Nat : /\ left <= unanswered /\ unanswered <= left + Weight(Queued, m)
                               /\ unanswered' = left + n /\ left + n <= Window
       \/ /\ m \in {"startup", "push"} /\ Size(down) = 0 /\ n = 0
          /\ waiting' = waiting /\ unanswered' = unanswered
FlowCounts(ch, m, up, down) ==
    /\ \/ ch = "toFlow" /\ Size(up) = 0 /\ Count(Startup, up) = 0 /\ FlowForwards(m, down)
       \/ /\ ch = "fromSerial" /\ Count(Startup, up) = Weight(Startup, m)
          /\ Size(up) = 0 \/ Size(up) = 1
          /\ FlowAnswers(m, down)
    /\ waiting' \in Nat /\ unanswered' \in Nat

FlowMoves(ch, m, handling) ==
    /\ handling \in Seq(Duties["flow"])
    /\ Take("flow", ch, m, handling)
    /\ FlowCounts(ch, m, Out("toParent", handling), Out("toSerial", handling))
    /\ Elsewhere /\ UNCHANGED lines

\* The numbers before and after a step of FlowControl.
FlowStepped(ch, m, up, down) ==
    /\ FlowCounts(ch, m, up, down) /\ Size(down) \in Nat /\ Count(Queued, down) \in Nat
    /\ Weight(Events, m) \in Nat /\ Weight(Queued, m) \in Nat
    /\ Coming' = Coming /\ Printed' = Printed
    /\ ch = "toFlow" => /\ Reported = Reported' + Weight(Events, m)
                        /\ InFlow = InFlow' + Weight(Queued, m)
                        /\ Replies' = Replies
    /\ ch = "fromSerial" => /\ Reported' = Reported /\ InFlow' = InFlow
                            /\ Replies = Replies' + Weight(Queued, m)
    /\ Enabled' <= Enabled /\ InSerial' = InSerial + Count(Queued, down)
    /\ Enabled' \in Nat /\ Reported' \in Nat /\ InFlow' \in Nat /\ Replies' \in Nat
    /\ Length("toParent")' = Length("toParent") + Size(up)
    /\ Length("toSerial")' = Length("toSerial") + Size(down)
    /\ ch = "toFlow" => /\ Length("toFlow") = Length("toFlow")' + 1
                        /\ Length("fromSerial")' = Length("fromSerial")
    /\ ch = "fromSerial" => /\ Length("fromSerial") = Length("fromSerial")' + 1
                            /\ Length("toFlow")' = Length("toFlow")
    /\ Length("toFlow")' \in Nat /\ Length("fromSerial")' \in Nat
    /\ Length("toParent") <= Hwm /\ Length("toSerial") <= Hwm
    /\ Length("toMachine")' = Length("toMachine") /\ Length("toContext")' = Length("toContext")
    /\ Length("internal")' = Length("internal")
    /\ Rest("context")' = Rest("context") /\ Rest("machine")' = Rest("machine")
    /\ Rest("serial")' = Rest("serial")
    /\ ch = "toFlow" =>
           /\ Rest("flow") = 0
           /\ \/ Rest("flow")' = 1
              \/ Rest("flow")' = 0 /\ Length("fromSerial") = Unsent("fromSerial")
    /\ ch = "fromSerial" =>
           /\ Rest("flow")' = 0
           /\ \/ Rest("flow") = 1
              \/ Rest("flow") = 0 /\ Length("toFlow") = Unsent("toFlow")
    /\ ch = "toFlow" \/ ch = "fromSerial"
    /\ plugs' = plugs /\ Limit' = Limit /\ Size(lines)' = Size(lines)

LEMMA FlowNumbers ==
    ASSUME StateTypes, NEW ch, NEW m, NEW handling, FlowMoves(ch, m, handling)
    PROVE  /\ FlowStepped(ch, m, Out("toParent", handling), Out("toSerial", handling))
           /\ FewUnsent => FewUnsent'
           /\ m \in Carried[ch] /\ m \in Messages
  <1> DEFINE up == Out("toParent", handling)
             down == Out("toSerial", handling)
  <1>0. /\ handling \in Seq(Duties["flow"])
        /\ Take("flow", ch, m, handling)
        /\ FlowCounts(ch, m, up, down)
        /\ Elsewhere /\ UNCHANGED lines
    BY DEF FlowMoves
  <1>1. ThreadTypes /\ "flow" \in Actor
    BY DEF StateTypes, Actor
  <1>2. Turn("flow", ch) /\ ch \in Channels
    BY <1>0, <1>1, TakesTurn
  <1>3. ch \in {"toFlow", "fromSerial"}
    BY <1>2, FirstSockets, SocketPairs DEF Turn
  <1>4. /\ Rest("context")' = Rest("context") /\ Rest("machine")' = Rest("machine")
        /\ Rest("serial")' = Rest("serial")
        /\ Boots' = Boots /\ work'["reader"] = work["reader"]
        /\ Length("toParent") <= Hwm /\ Length("toSerial") <= Hwm
        /\ ThreadTypes'
    BY <1>0, <1>1, TakeFrame, Wiring, Names
  <1>5. /\ m \in Messages
        /\ Length(ch) = Length(ch)' + 1
        /\ \A T : Amount(T, ch) = Amount(T, ch)' + Weight(T, m) /\ Weight(T, m) \in Nat
    BY <1>0, <1>1, <1>2, TakenNumbers
  <1>6. /\ up \in Seq(Messages) /\ down \in Seq(Messages)
        /\ Length("toParent")' = Length("toParent") + Size(up)
        /\ Unsent("toParent")' <= Size(up)
        /\ Length("toSerial")' = Length("toSerial") + Size(down)
        /\ \A T : /\ Amount(T, "toParent")' = Amount(T, "toParent") + Count(T, up)
                  /\ Amount(T, "toSerial")' = Amount(T, "toSerial") + Count(T, down)
                  /\ Size(down) <= 1 + Count(T, down)
                         => Unsent("toSerial")' <= 1 + Count(T, Pending["toSerial"])'
    BY <1>0, <1>1, <1>2, TakenNumbers, Wiring, Names
  <1>7. \A to \in Channels \ {"toParent", "toSerial"} :
            /\ Unsent(to)' = Unsent(to) /\ \A T : Count(T, Pending[to])' = Count(T, Pending[to])
            /\ to # ch => Length(to)' = Length(to) /\ \A T : Amount(T, to)' = Amount(T, to)
    BY <1>0, <1>1, <1>2, TakenNumbers, Wiring, Names
  <1> HIDE DEF up, down
  <1>9. m \in Carried[ch]
    BY <1>0, <1>1, <1>2, TakenMessage
  <1>10. \A to \in Channels : Length(to)' \in Nat /\ \A T : Amount(T, to)' \in Nat
    BY <1>4, NextAmounts
  <1>11. /\ \A T : Count(T, up) \in Nat /\ Count(T, down) \in Nat
         /\ Size(down) \in Nat
    BY <1>6, Amounts
  <1>12. /\ News' = News /\ Unseen' = Unseen /\ Size(lines)' = Size(lines)
         /\ \A T : Count(T, lines)' = Count(T, lines)
    BY <1>0 DEF News, Unseen, Elsewhere, Size, Count
  <1>13. /\ \A T : /\ Amount(T, "router")' = Amount(T, "router")
                   /\ Amount(T, "toMachine")' = Amount(T, "toMachine")
                   /\ Amount(T, "internal")' = Amount(T, "internal")
         /\ Length("toMachine")' = Length("toMachine") /\ Length("toContext")' = Length("toContext")
         /\ Length("internal")' = Length("internal")
    BY <1>3, <1>7, Names
  <1>14. /\ ch = "toFlow" => /\ \A T : Amount(T, "fromSerial")' = Amount(T, "fromSerial")
                             /\ Length("fromSerial")' = Length("fromSerial")
         /\ ch = "fromSerial" => /\ \A T : Amount(T, "toFlow")' = Amount(T, "toFlow")
                                 /\ Length("toFlow")' = Length("toFlow")
    BY <1>3, <1>7, Names
  <1>15. \A T : /\ Amount(T, "router") \in Nat /\ Amount(T, "toSerial") \in Nat
                /\ Amount(T, "toSerial")' \in Nat
                /\ Amount(T, "toMachine") \in Nat /\ Amount(T, "toFlow") \in Nat
                /\ Amount(T, "toFlow")' \in Nat
                /\ Amount(T, "internal") \in Nat /\ Amount(T, "fromSerial") \in Nat
                /\ Amount(T, "fromSerial")' \in Nat
                /\ Amount(T, "toParent") \in Nat /\ Amount(T, "toParent")' \in Nat
                /\ Count(T, lines) \in Nat
    BY <1>10, Numbers DEF Channels
  <1>16. Coming' = Coming
    <2>1. Amount(Added, "toFlow")' + Amount(Added, "toSerial")'
                    = Amount(Added, "toFlow") + Amount(Added, "toSerial")
      <3>1. Amount(Added, "toSerial")' = Amount(Added, "toSerial") + Count(Added, down)
        BY <1>6
      <3>2. Count(Added, down) \in Nat /\ Weight(Added, m) \in Nat
        BY <1>5, <1>11
      <3>3. CASE ch = "toFlow"
        <4>1. Amount(Added, "toFlow") = Amount(Added, "toFlow")' + Weight(Added, m)
          BY <1>5, <3>3
        <4>2. Count(Added, down) = Weight(Added, m)
          BY <1>0, <3>3 DEF FlowCounts, FlowForwards
        <4>3. QED
          BY <1>15, <3>1, <3>2, <4>1, <4>2
      <3>4. CASE ch = "fromSerial"
        <4>1. Amount(Added, "toFlow")' = Amount(Added, "toFlow")
          BY <1>14, <3>4
        <4>2. Count(Added, down) = 0
          BY <1>0, <3>4 DEF FlowCounts, FlowAnswers
        <4>3. QED
          BY <1>15, <3>1, <4>1, <4>2
      <3>5. QED
        BY <1>3, <3>3, <3>4
    <2>2. /\ News \in Nat /\ Boots \in Nat /\ News' = News /\ Boots' = Boots
          /\ Amount(Added, "router")' = Amount(Added, "router")
          /\ Amount(Added, "toMachine")' = Amount(Added, "toMachine")
      BY <1>4, <1>12, <1>13, Numbers
    <2>3. QED
      BY <1>15, <2>1, <2>2 DEF Coming
  <1>17. Printed' = Printed
    <2>1. Amount(Startup, "fromSerial")' + Amount(Startup, "toParent")'
                    = Amount(Startup, "fromSerial") + Amount(Startup, "toParent")
      <3>1. Amount(Startup, "toParent")' = Amount(Startup, "toParent") + Count(Startup, up)
        BY <1>6
      <3>2. Count(Startup, up) \in Nat /\ Weight(Startup, m) \in Nat
        BY <1>5, <1>11
      <3>3. CASE ch = "toFlow"
        <4>1. Amount(Startup, "fromSerial")' = Amount(Startup, "fromSerial")
          BY <1>14, <3>3
        <4>2. Count(Startup, up) = 0
          BY <1>0, <3>3 DEF FlowCounts
        <4>3. QED
          BY <1>15, <3>1, <4>1, <4>2
      <3>4. CASE ch = "fromSerial"
        <4>1. Amount(Startup, "fromSerial") = Amount(Startup, "fromSerial")' + Weight(Startup, m)
          BY <1>5, <3>4
        <4>2. Count(Startup, up) = Weight(Startup, m)
          BY <1>0, <3>4 DEF FlowCounts
        <4>3. QED
          BY <1>15, <3>1, <3>2, <4>1, <4>2
      <3>5. QED
        BY <1>3, <3>3, <3>4
    <2>2. /\ Count(Startup, lines)' = Count(Startup, lines)
          /\ Amount(Startup, "internal")' = Amount(Startup, "internal")
      BY <1>12, <1>13
    <2>3. QED
      BY <1>15, <2>1, <2>2 DEF Printed
  <1>18. /\ ch = "toFlow" => Reported = Reported' + Weight(Events, m)
         /\ ch = "fromSerial" => Reported' = Reported
         /\ Reported' \in Nat
    <2>1. Weight(Events, m) \in Nat
      BY <1>5
    <2>2. /\ Unseen \in Nat /\ Unseen' = Unseen
          /\ Amount(Events, "router")' = Amount(Events, "router")
          /\ Amount(Events, "toMachine")' = Amount(Events, "toMachine")
      BY <1>12, <1>13, Numbers
    <2>3. /\ ch = "toFlow" => Amount(Events, "toFlow") = Amount(Events, "toFlow")' + Weight(Events, m)
          /\ ch = "fromSerial" => Amount(Events, "toFlow")' = Amount(Events, "toFlow")
      BY <1>5, <1>14
    <2>4. QED
      BY <1>15, <2>1, <2>2, <2>3 DEF Reported
  <1>19. /\ ch = "toFlow" => InFlow = InFlow' + Weight(Queued, m) /\ Enabled = Enabled' + Weight(Enable, m)
         /\ ch = "fromSerial" => InFlow' = InFlow /\ Enabled' = Enabled
         /\ InFlow' \in Nat /\ Enabled' \in Nat
         /\ InSerial' = InSerial + Count(Queued, down)
    BY <1>5, <1>6, <1>14, <1>15 DEF InFlow, Enabled, InSerial
  <1>20. Enabled' <= Enabled
    <2>1. Weight(Enable, m) \in Nat /\ Enabled' \in Nat
      BY <1>5, <1>19
    <2>2. Enabled = Enabled' + Weight(Enable, m) \/ Enabled = Enabled'
      BY <1>3, <1>19
    <2>3. QED
      BY <2>1, <2>2
  <1>21. /\ ch = "toFlow" => Replies' = Replies
         /\ ch = "fromSerial" => Replies = Replies' + Weight(Queued, m)
         /\ Replies' \in Nat
    <2>1. Weight(Queued, m) \in Nat
      BY <1>5
    <2>2. /\ Count(Queued, lines)' = Count(Queued, lines)
          /\ Amount(Queued, "internal")' = Amount(Queued, "internal")
      BY <1>12, <1>13
    <2>3. /\ ch = "toFlow" => Amount(Queued, "fromSerial")' = Amount(Queued, "fromSerial")
          /\ ch = "fromSerial" => Amount(Queued, "fromSerial") = Amount(Queued, "fromSerial")' + Weight(Queued, m)
      BY <1>5, <1>14
    <2>4. QED
      BY <1>15, <2>1, <2>2, <2>3 DEF Replies
  <1>22. /\ ch = "toFlow" =>
           /\ Rest("flow") = 0
           /\ \/ Rest("flow")' = 1
              \/ Rest("flow")' = 0 /\ Length("fromSerial") = Unsent("fromSerial")
         /\ ch = "fromSerial" =>
           /\ Rest("flow")' = 0
           /\ \/ Rest("flow") = 1
              \/ Rest("flow") = 0 /\ Length("toFlow") = Unsent("toFlow")
    BY <1>1, <1>2, TurnNumbers, SocketPairs, FirstSockets
  <1>23. plugs' = plugs /\ Limit' = Limit
    BY <1>0 DEF Elsewhere, Limit
  <1>24. FlowStepped(ch, m, up, down)
    <2>1. /\ ch = "toFlow" => Length("toFlow") = Length("toFlow")' + 1
          /\ ch = "fromSerial" => Length("fromSerial") = Length("fromSerial")' + 1
      BY <1>5
    <2>2. /\ Length("toFlow")' \in Nat /\ Length("fromSerial")' \in Nat
          /\ Weight(Events, m) \in Nat /\ Weight(Queued, m) \in Nat /\ Count(Queued, down) \in Nat
      BY <1>5, <1>10, <1>11 DEF Channels
    <2>3. QED
      BY <1>0, <1>3, <1>4, <1>6, <1>11, <1>12, <1>13, <1>14, <1>16, <1>17, <1>18, <1>19, <1>20, <1>21,
         <1>22, <1>23, <2>1, <2>2 DEF FlowStepped
  <1>25. FewUnsent => FewUnsent'
    <2>1. Unsent("toParent")' + Rest("flow")' <= 1
      <3>1. Unsent("toParent")' \in Nat /\ Unsent("toParent")' <= Size(up)
        BY <1>4, <1>6, NextAmounts DEF Channels
      <3>2. CASE ch = "toFlow"
        <4>1. Size(up) = 0 /\ (Rest("flow")' = 0 \/ Rest("flow")' = 1)
          BY <1>0, <1>22, <3>2 DEF FlowCounts
        <4>2. QED
          BY <3>1, <4>1
      <3>3. CASE ch = "fromSerial"
        <4>1. (Size(up) = 0 \/ Size(up) = 1) /\ Rest("flow")' = 0
          BY <1>0, <1>22, <3>3 DEF FlowCounts
        <4>2. QED
          BY <3>1, <4>1
      <3>4. QED
        BY <1>3, <3>2, <3>3
    <2>2. Unsent("toSerial")' <= 1 + Count(Queued, Pending["toSerial"])'
      <3>1. Count(Queued, down) \in Nat
        BY <1>11
      <3>2. \/ Size(down) = Count(Queued, down) \/ Size(down) = 0 \/ Size(down) = Count(Queued, down) + 1
            \/ Size(down) = 1
        BY <1>0 DEF FlowCounts, FlowForwards, FlowAnswers
      <3>3. Size(down) <= 1 + Count(Queued, down)
        BY <3>1, <3>2
      <3>4. QED
        BY <1>6, <3>3
    <2>3. /\ Unsent("toMachine")' = Unsent("toMachine") /\ Unsent("toContext")' = Unsent("toContext")
          /\ Unsent("fromSerial")' = Unsent("fromSerial") /\ Unsent("toFlow")' = Unsent("toFlow")
          /\ Count(Enable, Pending["toFlow"])' = Count(Enable, Pending["toFlow"])
      BY <1>7, Names
    <2>4. QED
      BY <1>4, <2>1, <2>2, <2>3 DEF FewUnsent
  <1>26. QED
    BY <1>5, <1>9, <1>24, <1>25 DEF up, down

LEMMA CreditFalls ==
    ASSUME NEW w \in Nat, NEW r \in Nat
    PROVE  (w + 1) * (r + 1) = (w + 1) * r + w + 1
  BY Z3

LEMMA FlowTakes ==
    ASSUME Inv, NEW ch, NEW m, NEW handling, FlowMoves(ch, m, handling)
    PROVE  Bounds'
  <1> DEFINE up == Out("toParent", handling)
             down == Out("toSerial", handling)
             n == Count(Queued, down)
             s == Size(down)
  <1>1. StateTypes /\ Bounds /\ FewUnsent
    BY DEF Inv, Bounds
  <1>2. FlowStepped(ch, m, up, down) /\ FewUnsent' /\ m \in Carried[ch] /\ m \in Messages
    BY <1>1, FlowNumbers
  <1> HIDE DEF up, down
  <1>3. /\ Coming \in Nat /\ Printed \in Nat /\ Enabled \in Nat /\ InFlow \in Nat /\ InSerial \in Nat
        /\ Reported \in Nat /\ Replies \in Nat /\ Credit \in Nat /\ Limit \in Nat
        /\ plugs \in Nat /\ waiting \in Nat /\ unanswered \in Nat /\ Hwm \in Nat /\ Window \in Nat
        /\ Rest("machine") \in Nat /\ Rest("flow") \in Nat /\ Rest("serial") \in Nat
        /\ Rest("flow") <= 1
        /\ Length("toSerial") \in Nat /\ Length("fromSerial") \in Nat /\ Length("toFlow") \in Nat
        /\ Length("toParent") \in Nat /\ Unsent("fromSerial") \in Nat /\ Unsent("toFlow") \in Nat
    BY <1>1, Numbers DEF Channels, Actor
  <1>4. Unsent("toFlow") <= 1 + Enabled /\ Unsent("fromSerial") + Rest("serial") <= 1
    <2>1. /\ Unsent("toFlow") <= 1 + Count(Enable, Pending["toFlow"])
          /\ Unsent("fromSerial") + Rest("serial") <= 1
      BY <1>1 DEF FewUnsent
    <2>2. Count(Enable, Pending["toFlow"]) \in Nat /\ Count(Enable, Pending["toFlow"]) <= Enabled
      BY <1>1, Numbers DEF Enabled, Channels
    <2>3. QED
      BY <1>3, <2>1, <2>2
  <1>5. /\ n \in Nat /\ s \in Nat
        /\ Length("toFlow")' \in Nat /\ Length("fromSerial")' \in Nat
        /\ Length("toParent") <= Hwm /\ Length("toSerial") <= Hwm
        /\ Length("toSerial")' = Length("toSerial") + s
        /\ InSerial' = InSerial + n
        /\ Coming' = Coming /\ Printed' = Printed
        /\ Rest("machine")' = Rest("machine") /\ Rest("serial")' = Rest("serial")
        /\ plugs' = plugs /\ Limit' = Limit
    BY <1>2 DEF FlowStepped
  <1>6. ASSUME ch = "toFlow" PROVE MachineAndFlow' /\ ByWindow' /\ ByStatus'
    <2>1. FlowForwards(m, down) /\ Size(up) = 0
      BY <1>2, <1>6 DEF FlowStepped, FlowCounts
    <2>2. \/ /\ m = "queued" /\ s = n
             /\ waiting' = waiting + 1 - n /\ unanswered' = unanswered + n /\ unanswered + n <= Window
          \/ /\ m \in {"queued", "enable"} /\ s = 0 /\ n = 0
             /\ waiting' = waiting /\ unanswered' = unanswered
          \/ /\ m = "unlock" /\ s = n + 1
             /\ waiting' = waiting - n /\ unanswered' = unanswered + n /\ unanswered + n <= Window
          \/ /\ m \in Events /\ s = 1 /\ n = 0 /\ waiting' = 0 /\ unanswered' = 0
      BY <2>1 DEF FlowForwards
    <2> HIDE DEF s, n
    <2>3. /\ waiting' \in Nat /\ unanswered' \in Nat
          /\ InFlow' \in Nat /\ InFlow = InFlow' + Weight(Queued, m) /\ Weight(Queued, m) \in Nat
          /\ Replies' = Replies
          /\ Length("toFlow") = Length("toFlow")' + 1
          /\ Length("fromSerial")' = Length("fromSerial")
          /\ Rest("flow") = 0
          /\ \/ Rest("flow")' = 1
             \/ Rest("flow")' = 0 /\ Length("fromSerial") = Unsent("fromSerial")
      BY <1>2, <1>6 DEF FlowStepped, FlowCounts
    <2>4. Length("toParent")' = Length("toParent")
      <3>1. Length("toParent")' = Length("toParent") + Size(up)
        BY <1>2 DEF FlowStepped
      <3>2. QED
        BY <1>3, <2>1, <3>1
    <2>5. MachineAndFlow'
      <3>1. Length("toFlow") + Length("toParent") + Rest("flow") + 2 * (Coming + Printed)
              <= Hwm + 2 + 2 * plugs + Rest("machine")
        BY <1>1 DEF Bounds, MachineAndFlow
      <3>2. QED
        BY <1>3, <1>5, <2>3, <2>4, <3>1 DEF MachineAndFlow
    <2>6. ByWindow'
      <3> SUFFICES ASSUME "unlock" \notin Requests PROVE OnlyCounted'
        BY DEF ByWindow
      <3>1. OnlyCounted
        BY <1>1 DEF Bounds, ByWindow
      <3>2. m # "unlock"
        BY <1>2, <1>6, CarriedMessages DEF Unlocks, Events
      <3>3. CASE m \notin Events
        <4>1. Credit' = Credit
          <5>1. Weight(Events, m) = 0
            BY <1>2, <3>3, Singles
          <5>2. Reported = Reported' + Weight(Events, m) /\ Reported' \in Nat
            BY <1>2, <1>6 DEF FlowStepped
          <5>3. PICK r \in Nat : Reported' = r /\ Reported = r + 0
            BY <5>1, <5>2
          <5>4. Reported = r
            BY <5>3
          <5>5. QED
            BY <5>3, <5>4 DEF Credit
        <4>2. /\ s = n /\ unanswered' = unanswered + n /\ unanswered + n <= Window
          BY <1>3, <2>2, <3>1, <3>2, <3>3 DEF OnlyCounted
        <4>3. QED
          BY <1>3, <1>5, <2>3, <3>1, <4>1, <4>2 DEF OnlyCounted
      <3>4. CASE m \in Events
        <4>1. Credit = Credit' + Window + 1 /\ Credit' \in Nat
          <5>1. Weight(Events, m) = 1
            BY <3>4, Singles
          <5>2. Reported = Reported' + Weight(Events, m) /\ Reported' \in Nat
            BY <1>2, <1>6 DEF FlowStepped
          <5>3. PICK r \in Nat : Reported' = r /\ Reported = r + 1
            BY <5>1, <5>2
          <5>4. Credit = (Window + 1) * (r + 1) /\ Credit' = (Window + 1) * r
            BY <5>3 DEF Credit
          <5>5. (Window + 1) * (r + 1) = (Window + 1) * r + Window + 1 /\ (Window + 1) * r \in Nat
            BY <1>3, CreditFalls
          <5>6. QED
            BY <5>4, <5>5
        <4>2. s = 1 /\ unanswered' = 0
          BY <2>2, <3>4 DEF Events
        <4>3. QED
          BY <1>3, <1>5, <2>3, <3>1, <4>1, <4>2 DEF OnlyCounted
      <3>5. QED
        BY <3>3, <3>4
    <2>7. ByStatus'
      <3> SUFFICES ASSUME "queued" \notin Requests PROVE OnlyStatus' /\ FlowAndSerial'
        BY DEF ByStatus
      <3>1. OnlyStatus /\ FlowAndSerial
        BY <1>1 DEF Bounds, ByStatus
      <3>2. PICK flow \in Nat, left \in Nat :
                /\ InFlow' = flow /\ waiting' = left
                /\ flow + left + n <= InFlow + waiting
                /\ s <= n + 1
        <4>1. m = "queued" => Weight(Queued, m) = 1
          BY Singles
        <4>2. InFlow' + waiting' + n <= InFlow + waiting /\ s <= n + 1
          <5>1. CASE /\ m = "queued" /\ s = n /\ waiting' = waiting + 1 - n
            BY <1>3, <1>5, <2>3, <4>1, <5>1
          <5>2. CASE s = 0 /\ n = 0 /\ waiting' = waiting
            BY <1>3, <1>5, <2>3, <5>2
          <5>3. CASE s = n + 1 /\ waiting' = waiting - n
            BY <1>3, <1>5, <2>3, <5>3
          <5>4. CASE s = 1 /\ n = 0 /\ waiting' = 0
            BY <1>3, <1>5, <2>3, <5>4
          <5>5. QED
            BY <2>2, <5>1, <5>2, <5>3, <5>4
        <4>3. QED
          BY <2>3, <4>2
      <3>3. OnlyStatus'
        <4>1. Coming + Printed + flow + left + (InSerial + n) <= plugs
          BY <1>3, <1>5, <3>1, <3>2 DEF OnlyStatus
        <4>2. QED
          BY <1>5, <3>2, <4>1 DEF OnlyStatus
      <3>4. FlowAndSerial'
        <4>1. CASE Rest("flow")' = 1
          <5>1. Length("toSerial") + s + Length("fromSerial") + Rest("serial")
                    + Coming + Printed + flow + left <= Hwm + 2 + plugs + 1
            BY <1>3, <1>5, <2>3, <3>1, <3>2 DEF FlowAndSerial
          <5>2. QED
            BY <1>5, <2>3, <3>2, <4>1, <5>1 DEF FlowAndSerial
        <4>2. CASE Rest("flow")' = 0 /\ Length("fromSerial") = Unsent("fromSerial")
          <5>1. Length("toSerial") + s + Length("fromSerial") + Rest("serial")
                    + Coming + Printed + flow + left <= Hwm + 2 + plugs + 0
            BY <1>3, <1>4, <1>5, <3>1, <3>2, <4>2 DEF OnlyStatus
          <5>2. QED
            BY <1>5, <2>3, <3>2, <4>2, <5>1 DEF FlowAndSerial
        <4>3. QED
          BY <2>3, <4>1, <4>2
      <3>5. QED
        BY <3>3, <3>4
    <2>8. QED
      BY <2>5, <2>6, <2>7
  <1>7. ASSUME ch = "fromSerial" PROVE MachineAndFlow' /\ ByWindow' /\ ByStatus'
    <2>1. FlowAnswers(m, down) /\ (Size(up) = 0 \/ Size(up) = 1)
      BY <1>2, <1>7 DEF FlowStepped, FlowCounts
    <2>2. \/ /\ m \in {"queued", "unlock"} /\ s = n /\ waiting' = waiting - n
             /\ \E left \in Nat : /\ left <= unanswered /\ unanswered <= left + Weight(Queued, m)
                                  /\ unanswered' = left + n /\ left + n <= Window
          \/ /\ s = 0 /\ n = 0
             /\ waiting' = waiting /\ unanswered' = unanswered
      BY <2>1 DEF FlowAnswers
    <2>3. /\ waiting' \in Nat /\ unanswered' \in Nat
          /\ Length("fromSerial") = Length("fromSerial")' + 1
          /\ Length("toFlow")' = Length("toFlow")
          /\ InFlow' = InFlow /\ Reported' = Reported
          /\ Replies = Replies' + Weight(Queued, m) /\ Replies' \in Nat /\ Weight(Queued, m) \in Nat
          /\ Rest("flow")' = 0
          /\ \/ Rest("flow") = 1
             \/ Rest("flow") = 0 /\ Length("toFlow") = Unsent("toFlow")
          /\ Length("toParent")' = Length("toParent") + Size(up)
      BY <1>2, <1>7 DEF FlowStepped, FlowCounts
    <2> HIDE DEF s, n
    <2>4. MachineAndFlow'
      <3>1. /\ Length("toFlow") + Length("toParent") + Rest("flow") + 2 * (Coming + Printed)
                   <= Hwm + 2 + 2 * plugs + Rest("machine")
            /\ Coming + Printed + Enabled <= plugs
        BY <1>1 DEF Bounds, MachineAndFlow, Startups
      <3>2. Length("toFlow") + (Length("toParent") + Size(up)) + 0 + 2 * (Coming + Printed)
                <= Hwm + 2 + 2 * plugs + Rest("machine")
        <4>1. CASE Rest("flow") = 1
          BY <1>3, <2>1, <3>1, <4>1
        <4>2. CASE Rest("flow") = 0 /\ Length("toFlow") = Unsent("toFlow")
          BY <1>3, <1>4, <1>5, <2>1, <3>1, <4>2
        <4>3. QED
          BY <2>3, <4>1, <4>2
      <3>3. QED
        BY <1>5, <2>3, <3>2 DEF MachineAndFlow
    <2>5. ByWindow'
      <3> SUFFICES ASSUME "unlock" \notin Requests PROVE OnlyCounted'
        BY DEF ByWindow
      <3>1. OnlyCounted
        BY <1>1 DEF Bounds, ByWindow
      <3>2. Credit' = Credit
        BY <2>3 DEF Credit
      <3>3. /\ s = n
            /\ \E left \in Nat : /\ unanswered <= left + Weight(Queued, m)
                                 /\ unanswered' = left + n /\ left + n <= Window
        <4>1. CASE s = 0 /\ n = 0 /\ waiting' = waiting /\ unanswered' = unanswered
          <5>1. /\ unanswered <= unanswered + Weight(Queued, m)
                /\ unanswered' = unanswered + n /\ unanswered + n <= Window
            BY <1>3, <2>3, <3>1, <4>1 DEF OnlyCounted
          <5>2. QED
            BY <1>3, <4>1, <5>1
        <4>2. QED
          BY <2>2, <4>1
      <3>4. PICK left \in Nat : /\ unanswered <= left + Weight(Queued, m)
                                /\ unanswered' = left + n /\ left + n <= Window
        BY <3>3
      <3>5. PICK replies \in Nat : Replies' = replies /\ Replies = replies + Weight(Queued, m)
        BY <2>3
      <3>6. Length("toSerial") + s + replies + Credit <= left + n + Limit
        BY <1>3, <1>5, <2>3, <3>1, <3>3, <3>4, <3>5 DEF OnlyCounted
      <3>7. QED
        BY <1>5, <3>2, <3>4, <3>5, <3>6 DEF OnlyCounted
    <2>6. ByStatus'
      <3> SUFFICES ASSUME "queued" \notin Requests PROVE OnlyStatus' /\ FlowAndSerial'
        BY DEF ByStatus
      <3>1. OnlyStatus /\ FlowAndSerial
        BY <1>1 DEF Bounds, ByStatus
      <3>2. s = n /\ waiting' = waiting - n
        BY <1>3, <2>2
      <3>3. PICK left \in Nat : waiting' = left /\ waiting = left + n
        BY <1>3, <1>5, <2>3, <3>2
      <3>4. OnlyStatus'
        <4>1. Coming + Printed + InFlow + left + (InSerial + n) <= plugs
          BY <1>3, <1>5, <3>1, <3>3 DEF OnlyStatus
        <4>2. QED
          BY <1>5, <2>3, <3>3, <4>1 DEF OnlyStatus
      <3>5. FlowAndSerial'
        <4>1. PICK lines1 \in Nat : Length("fromSerial")' = lines1 /\ Length("fromSerial") = lines1 + 1
          BY <1>5, <2>3
        <4>2. Length("toSerial") + s + lines1 + Rest("serial") + Coming + Printed + InFlow + left
                  <= Hwm + 2 + plugs + 0
          BY <1>3, <1>5, <3>1, <3>2, <3>3, <4>1 DEF FlowAndSerial
        <4>3. QED
          BY <1>5, <2>3, <3>3, <4>1, <4>2 DEF FlowAndSerial
      <3>6. QED
        BY <3>4, <3>5
    <2>7. QED
      BY <2>4, <2>5, <2>6
  <1>8. Startups'
    <2>1. Coming + Printed + Enabled <= plugs
      BY <1>1 DEF Bounds, Startups
    <2>2. PICK enabled \in Nat : Enabled' = enabled /\ enabled <= Enabled
      BY <1>2 DEF FlowStepped
    <2>3. Coming + Printed + enabled <= plugs
      BY <1>3, <2>1, <2>2
    <2>4. QED
      BY <1>5, <2>2, <2>3 DEF Startups
  <1>9. ContextAndMachine' /\ DeviceAndReader'
    <2>1. /\ Length("toMachine")' = Length("toMachine") /\ Length("toContext")' = Length("toContext")
          /\ Length("internal")' = Length("internal") /\ Size(lines)' = Size(lines)
          /\ Rest("context")' = Rest("context")
      BY <1>2 DEF FlowStepped
    <2>2. ContextAndMachine /\ DeviceAndReader
      BY <1>1 DEF Bounds
    <2>3. QED
      BY <1>5, <2>1, <2>2 DEF ContextAndMachine, DeviceAndReader
  <1>10. MachineAndFlow' /\ ByWindow' /\ ByStatus'
    BY <1>2, <1>6, <1>7 DEF FlowStepped
  <1>11. QED
    BY <1>2, <1>8, <1>9, <1>10 DEF Bounds

-----------------------------------------------------------------------------
(* SerialConnection and the device *)

LEMMA OpSends ==
    ASSUME NEW ch, NEW op \in Ops
    PROVE  To(ch)[op] \in Seq(Messages) /\ Size(To(ch)[op]) <= 1
  <1>1. CASE op \in Sends
    <2>1. op.message \in Messages
      BY <1>1 DEF Sends
    <2>2. To(ch)[op] = <<op.message>> \/ To(ch)[op] = <<>>
      <3>1. To(ch)[op] = IF op.channel = ch THEN <<op.message>> ELSE <<>>
        BY <1>1, OneOp
      <3>2. QED
        BY <3>1
    <2>3. CASE To(ch)[op] = <<op.message>>
      BY <2>1, <2>3, Amounts
    <2>4. CASE To(ch)[op] = <<>>
      BY <2>4, Amounts
    <2>5. QED
      BY <2>2, <2>3, <2>4
  <1>2. CASE op \in Controls
    <2>1. To(ch)[op] = <<>>
      BY <1>2, OneOp
    <2>2. QED
      BY <2>1, Amounts
  <1>3. QED
    BY <1>1, <1>2 DEF Ops

LEMMA ReaderUnsent ==
    ASSUME ThreadTypes, Size(work["reader"]) <= 1
    PROVE  /\ Unsent("internal") <= Size(work["reader"]) /\ Size(work["reader"]) \in Nat
           /\ work["reader"] # <<>> => Tail(work["reader"]) = <<>>
  <1> DEFINE ops == work["reader"]
             p == Pending["internal"]
  <1>1. ops \in Seq(Ops)
    BY DEF ThreadTypes, WorkTypes, Threads, Actor
  <1>2. p = Out("internal", ops)
    BY Wiring DEF Pending, Channels
  <1>3. Unsent("internal") = Size(p) /\ Size(ops) <= 1
    BY DEF Unsent
  <1> HIDE DEF ops, p
  <1>4. Size(ops) \in Nat
    BY <1>1 DEF Size
  <1>5. CASE ops = <<>>
    <2>1. p = <<>> /\ Size(ops) = 0
      BY <1>2, <1>5, Sending, Amounts
    <2>2. Size(p) = 0
      BY <2>1, Amounts
    <2>3. QED
      BY <1>3, <1>5, <2>1, <2>2 DEF ops
  <1>6. CASE ops # <<>>
    <2>1. /\ Head(ops) \in Ops /\ Tail(ops) \in Seq(Ops) /\ Len(Tail(ops)) = Len(ops) - 1
          /\ Len(ops) \in Nat /\ Len(ops) > 0
      BY <1>1, <1>6, TailIsSeq
    <2>2. Len(ops) = 1 /\ Tail(ops) = <<>>
      <3>1. Len(ops) <= 1
        BY <1>3 DEF Size
      <3>2. Len(ops) = 1 /\ Len(Tail(ops)) = 0
        BY <2>1, <3>1
      <3>3. QED
        BY <2>1, <3>2, EmptySeq
    <2>3. p = To("internal")[Head(ops)] \o <<>>
      <3>1. Out("internal", ops) = To("internal")[Head(ops)] \o Out("internal", Tail(ops))
        BY <1>1, <1>6, Sending
      <3>2. Out("internal", <<>>) = <<>>
        BY Sending
      <3>3. QED
        BY <1>2, <2>2, <3>1, <3>2
    <2>4. p = To("internal")[Head(ops)] /\ Size(p) <= 1
      BY <2>1, <2>3, OpSends, Lists
    <2>5. Size(ops) = 1
      BY <2>2 DEF Size
    <2>6. QED
      BY <1>3, <1>4, <2>2, <2>4, <2>5 DEF ops
  <1>7. QED
    BY <1>5, <1>6

LEMMA Printing ==
    ASSUME StateTypes, FewUnsent, NEW line \in Lines, Prints(line)
    PROVE  /\ lines' \in Seq(Lines) /\ lines' \in Seq(Messages)
           /\ \/ lines' = lines
              \/ /\ Size(lines)' = Size(lines) + 1
                 /\ Size(lines) + 1 + Length("internal") <= Backlog
                 /\ \A T : /\ Count(T, lines)' = Count(T, lines) + Weight(T, line)
                           /\ Count(T, lines) \in Nat /\ Weight(T, line) \in Nat
  <1>1. lines \in Seq(Lines) /\ lines \in Seq(Messages) /\ ThreadTypes
    BY DEF StateTypes
  <1>2. line \in Messages
    BY DEF Lines, Messages
  <1>3. CASE lines' = lines
    BY <1>1, <1>3
  <1>4. CASE lines' # lines
    <2>1. /\ lines' = Append(lines, line)
          /\ Len(lines) + Len(work["reader"]) + Len(channel["internal"]) < Backlog
      BY <1>4 DEF Prints
    <2>2. lines' \in Seq(Lines) /\ lines' \in Seq(Messages)
      BY <1>1, <1>2, <2>1
    <2> DEFINE new == lines'
               one == <<line>>
    <2>3. new = lines \o one /\ one \in Seq(Messages) /\ Len(one) = 1
      BY <1>1, <1>2, <2>1, Lists
    <2>4. /\ Size(lines)' = Size(new)
          /\ \A T : Count(T, lines)' = Count(T, new) /\ Weight(T, line) = Count(T, one)
      BY DEF Size, Count, Weight
    <2> HIDE DEF new, one
    <2>5. Size(new) = Size(lines) + 1 /\ Size(lines) \in Nat
      <3>1. Len(lines \o one) = Len(lines) + Len(one) /\ Len(lines) \in Nat
        BY <1>1, <2>3, Lists
      <3>2. Size(new) = Len(lines \o one) /\ Size(lines) = Len(lines)
        BY <2>3 DEF Size
      <3>3. QED
        BY <2>3, <3>1, <3>2
    <2>6. \A T : /\ Count(T, new) = Count(T, lines) + Count(T, one)
                 /\ Count(T, lines) \in Nat /\ Count(T, one) \in Nat
      BY <1>1, <2>3, Counting
    <2>7. Size(lines) + 1 + Length("internal") <= Backlog
      <3>1. Size(lines) + Size(work["reader"]) + Size(channel["internal"]) < Backlog
        BY <2>1 DEF Size
      <3>2. Size(work["reader"]) <= 1
        BY DEF FewUnsent
      <3>3. Unsent("internal") <= Size(work["reader"]) /\ Size(work["reader"]) \in Nat
        BY <1>1, <3>2, ReaderUnsent
      <3>4. /\ Length("internal") = Size(channel["internal"]) + Unsent("internal")
            /\ Size(channel["internal"]) \in Nat /\ Unsent("internal") \in Nat /\ Backlog \in Nat
        BY Numbers DEF Channels
      <3>5. QED
        BY <2>5, <3>1, <3>3, <3>4
    <2>8. QED
      BY <2>2, <2>4, <2>5, <2>6, <2>7
  <1>5. QED
    BY <1>3, <1>4

\* A step of SerialConnection.
SerialSends(ch, m, up) ==
    \/ /\ ch = "toSerial" /\ m \in {"queued", "unlock"} /\ up = <<>>
       /\ Prints(m) /\ Boots' = Weight(Added, m)
    \/ /\ ch = "toSerial" /\ m \in Events /\ up = <<>>
       /\ lines' = lines /\ Boots' = Weight(Added, m)
    \/ ch = "internal" /\ up = <<m>> /\ lines' = lines /\ Boots' = 0
SerialMoves(ch, m, handling) ==
    /\ handling \in Seq(Duties["serial"])
    /\ Take("serial", ch, m, handling)
    /\ SerialSends(ch, m, Out("fromSerial", handling))
    /\ Elsewhere /\ UNCHANGED <<waiting, unanswered>>

\* The numbers before and after it.
SerialStepped(ch, m) ==
    /\ Weight(Queued, m) \in Nat
    /\ Coming' = Coming /\ Printed' = Printed /\ Reported' = Reported /\ InFlow' = InFlow
    /\ Enabled' = Enabled
    /\ ch = "toSerial" => /\ InSerial = InSerial' + Weight(Queued, m)
                          /\ Replies' <= Replies + 1
                          /\ Length("toSerial") = Length("toSerial")' + 1
                          /\ Length("internal")' = Length("internal")
                          /\ Length("fromSerial")' = Length("fromSerial")
                          /\ \/ Size(lines)' = Size(lines)
                             \/ /\ Size(lines)' = Size(lines) + 1
                                /\ Size(lines) + 1 + Length("internal") <= Backlog
    /\ ch = "internal" => /\ InSerial' = InSerial /\ Replies' = Replies
                          /\ Length("internal") = Length("internal")' + 1
                          /\ Length("toSerial")' = Length("toSerial")
                          /\ Length("fromSerial")' = Length("fromSerial") + 1
                          /\ Size(lines)' = Size(lines)
    /\ InSerial' \in Nat /\ Replies' \in Nat
    /\ Length("toSerial")' \in Nat /\ Length("internal")' \in Nat /\ Length("fromSerial") <= Hwm
    /\ Length("toMachine")' = Length("toMachine") /\ Length("toContext")' = Length("toContext")
    /\ Length("toFlow")' = Length("toFlow") /\ Length("toParent")' = Length("toParent")
    /\ Rest("context")' = Rest("context") /\ Rest("machine")' = Rest("machine")
    /\ Rest("flow")' = Rest("flow")
    /\ ch = "toSerial" =>
           /\ Rest("serial") = 0
           /\ \/ Rest("serial")' = 1
              \/ Rest("serial")' = 0 /\ Length("internal") = Unsent("internal")
    /\ ch = "internal" =>
           /\ Rest("serial")' = 0
           /\ \/ Rest("serial") = 1
              \/ Rest("serial") = 0 /\ Length("toSerial") = Unsent("toSerial")
    /\ ch = "toSerial" \/ ch = "internal"
    /\ plugs' = plugs /\ waiting' = waiting /\ unanswered' = unanswered
    /\ Credit' = Credit /\ Limit' = Limit
    /\ lines' \in Seq(Lines) /\ lines' \in Seq(Messages)

LEMMA SerialNumbers ==
    ASSUME StateTypes, FewUnsent, NEW ch, NEW m, NEW handling, SerialMoves(ch, m, handling)
    PROVE  SerialStepped(ch, m) /\ FewUnsent'
  <1> DEFINE up == Out("fromSerial", handling)
  <1>0. /\ handling \in Seq(Duties["serial"])
        /\ Take("serial", ch, m, handling)
        /\ SerialSends(ch, m, up)
        /\ Elsewhere /\ UNCHANGED <<waiting, unanswered>>
    BY DEF SerialMoves
  <1>1. /\ ThreadTypes /\ "serial" \in Actor
        /\ lines \in Seq(Lines) /\ lines \in Seq(Messages)
    BY DEF StateTypes, Actor
  <1>2. Turn("serial", ch) /\ ch \in Channels
    BY <1>0, <1>1, TakesTurn
  <1>3. ch \in {"toSerial", "internal"}
    BY <1>2, FirstSockets, SocketPairs DEF Turn
  <1>4. /\ Rest("context")' = Rest("context") /\ Rest("machine")' = Rest("machine")
        /\ Rest("flow")' = Rest("flow")
        /\ work'["reader"] = work["reader"]
        /\ Length("fromSerial") <= Hwm
        /\ ThreadTypes'
    BY <1>0, <1>1, TakeFrame, Wiring, Names
  <1>5. /\ m \in Messages
        /\ Length(ch) = Length(ch)' + 1
        /\ \A T : Amount(T, ch) = Amount(T, ch)' + Weight(T, m) /\ Weight(T, m) \in Nat
    BY <1>0, <1>1, <1>2, TakenNumbers
  <1>6. /\ up \in Seq(Messages)
        /\ Length("fromSerial")' = Length("fromSerial") + Size(up)
        /\ Unsent("fromSerial")' <= Size(up)
        /\ \A T : Amount(T, "fromSerial")' = Amount(T, "fromSerial") + Count(T, up)
    BY <1>0, <1>1, <1>2, TakenNumbers, Wiring, Names
  <1>7. \A to \in Channels \ {"fromSerial"} :
            /\ Unsent(to)' = Unsent(to) /\ \A T : Count(T, Pending[to])' = Count(T, Pending[to])
            /\ to # ch => Length(to)' = Length(to) /\ \A T : Amount(T, to)' = Amount(T, to)
    BY <1>0, <1>1, <1>2, TakenNumbers, Wiring, Names
  <1>8. Boots = 0
    <2>1. work["serial"] = <<>>
      BY <1>0 DEF Take, Idle
    <2>2. QED
      BY <2>1, Booting DEF Boots
  <1>9. /\ ch = "toSerial" => Size(up) = 0 /\ Boots' = Weight(Added, m) /\ \A T : Count(T, up) = 0
        /\ ch = "internal" => /\ Size(up) = 1 /\ Boots' = 0 /\ \A T : Count(T, up) = Weight(T, m)
                              /\ lines' = lines
    <2>1. /\ Size(<<>>) = 0 /\ \A x : Size(<<x>>) = 1
          /\ \A T : Count(T, <<>>) = 0 /\ Count(T, <<m>>) = Weight(T, m)
      BY Amounts DEF Weight
    <2>2. /\ ch = "toSerial" => up = <<>> /\ Boots' = Weight(Added, m)
          /\ ch = "internal" => up = <<m>> /\ Boots' = 0 /\ lines' = lines
      BY <1>0 DEF SerialSends
    <2>3. QED
      BY <2>1, <2>2
  <1>10. ch = "toSerial" => \/ m \in {"queued", "unlock"} /\ Prints(m)
                            \/ m \in Events /\ lines' = lines
    BY <1>0 DEF SerialSends
  <1> HIDE DEF up
  <1>11. \A to \in Channels : Length(to)' \in Nat /\ Unsent(to)' \in Nat /\ \A T : Amount(T, to)' \in Nat
    BY <1>4, NextAmounts
  <1>12. /\ News' = News /\ Unseen' = Unseen
    BY <1>0 DEF News, Unseen, Elsewhere
  <1>13. /\ lines' \in Seq(Lines) /\ lines' \in Seq(Messages)
         /\ \/ Size(lines)' = Size(lines) /\ \A T : Count(T, lines)' = Count(T, lines)
            \/ /\ Size(lines)' = Size(lines) + 1
               /\ Size(lines) + 1 + Length("internal") <= Backlog
               /\ ch = "toSerial" /\ m \in {"queued", "unlock"}
               /\ \A T : Count(T, lines)' = Count(T, lines) + Weight(T, m)
    <2>1. CASE lines' = lines
      BY <1>1, <2>1 DEF Size, Count
    <2>2. CASE lines' # lines
      <3>1. ch = "toSerial" /\ m \in {"queued", "unlock"} /\ Prints(m)
        BY <1>3, <1>9, <1>10, <2>2
      <3>2. m \in Lines
        BY <3>1 DEF Lines
      <3>3. QED
        BY <2>2, <3>1, <3>2, Printing
    <2>3. QED
      BY <2>1, <2>2
  <1>14. /\ \A T : /\ Amount(T, "router")' = Amount(T, "router")
                   /\ Amount(T, "toMachine")' = Amount(T, "toMachine")
                   /\ Amount(T, "toFlow")' = Amount(T, "toFlow")
                   /\ Amount(T, "toParent")' = Amount(T, "toParent")
         /\ Length("toMachine")' = Length("toMachine") /\ Length("toContext")' = Length("toContext")
         /\ Length("toFlow")' = Length("toFlow") /\ Length("toParent")' = Length("toParent")
    BY <1>3, <1>7, Names
  <1>15. /\ ch = "toSerial" => /\ \A T : Amount(T, "internal")' = Amount(T, "internal")
                               /\ Length("internal")' = Length("internal")
         /\ ch = "internal" => /\ \A T : Amount(T, "toSerial")' = Amount(T, "toSerial")
                               /\ Length("toSerial")' = Length("toSerial")
    BY <1>3, <1>7, Names
  <1>16. \A T : /\ Amount(T, "router") \in Nat /\ Amount(T, "toSerial") \in Nat
                /\ Amount(T, "toSerial")' \in Nat
                /\ Amount(T, "toMachine") \in Nat /\ Amount(T, "toFlow") \in Nat
                /\ Amount(T, "internal") \in Nat /\ Amount(T, "fromSerial") \in Nat
                /\ Amount(T, "internal")' \in Nat /\ Amount(T, "fromSerial")' \in Nat
                /\ Amount(T, "toParent") \in Nat
                /\ Count(T, lines) \in Nat
    BY <1>11, Numbers DEF Channels
  <1>17. Coming' = Coming
    <2>1. Amount(Added, "toSerial")' + Boots' = Amount(Added, "toSerial")
      <3>1. CASE ch = "toSerial"
        <4>1. Amount(Added, "toSerial") = Amount(Added, "toSerial")' + Weight(Added, m)
          BY <1>5, <3>1
        <4>2. QED
          BY <1>9, <3>1, <4>1
      <3>2. CASE ch = "internal"
        <4>1. Amount(Added, "toSerial")' = Amount(Added, "toSerial") /\ Boots' = 0
          BY <1>9, <1>15, <3>2
        <4>2. QED
          BY <1>16, <4>1
      <3>3. QED
        BY <1>3, <3>1, <3>2
    <2>2. /\ News \in Nat /\ News' = News
          /\ Amount(Added, "router")' = Amount(Added, "router")
          /\ Amount(Added, "toMachine")' = Amount(Added, "toMachine")
          /\ Amount(Added, "toFlow")' = Amount(Added, "toFlow")
      BY <1>12, <1>14, Numbers
    <2>3. Boots' \in Nat
      <3>1. Weight(Added, m) \in Nat
        BY <1>5
      <3>2. QED
        BY <1>3, <1>9, <3>1
    <2>4. QED
      BY <1>8, <1>16, <2>1, <2>2, <2>3 DEF Coming
  <1>18. ASSUME NEW T, T = Startup \/ T = Queued
         PROVE  /\ ch = "toSerial" =>
                       /\ Amount(T, "internal")' = Amount(T, "internal")
                       /\ Amount(T, "fromSerial")' = Amount(T, "fromSerial")
                /\ ch = "internal" =>
                       /\ Amount(T, "internal") = Amount(T, "internal")' + Weight(T, m)
                       /\ Amount(T, "fromSerial")' = Amount(T, "fromSerial") + Weight(T, m)
                       /\ Count(T, lines)' = Count(T, lines)
                /\ Weight(T, m) \in Nat
    <2>1. Amount(T, "fromSerial")' = Amount(T, "fromSerial") + Count(T, up) /\ Weight(T, m) \in Nat
      BY <1>5, <1>6
    <2>2. CASE ch = "toSerial"
      <3>1. Count(T, up) = 0 /\ Amount(T, "internal")' = Amount(T, "internal")
        BY <1>9, <1>15, <2>2
      <3>2. Amount(T, "fromSerial") \in Nat
        BY <1>16
      <3>3. QED
        BY <2>1, <2>2, <3>1, <3>2
    <2>3. CASE ch = "internal"
      <3>1. Count(T, up) = Weight(T, m)
        BY <1>9, <2>3
      <3>2. Amount(T, "internal") = Amount(T, "internal")' + Weight(T, m)
        BY <1>5, <2>3
      <3>3. Count(T, lines)' = Count(T, lines)
        BY <1>9, <2>3 DEF Count
      <3>4. QED
        BY <2>1, <2>3, <3>1, <3>2, <3>3
    <2>4. QED
      BY <1>3, <2>2, <2>3
  <1>19. Printed' = Printed
    <2>1. CASE ch = "toSerial"
      <3>1. Count(Startup, lines)' = Count(Startup, lines)
        <4>1. CASE /\ m \in {"queued", "unlock"}
                   /\ \A T : Count(T, lines)' = Count(T, lines) + Weight(T, m)
          <5>1. Weight(Startup, m) = 0
            BY <1>5, <4>1, Singles
          <5>2. Count(Startup, lines)' = Count(Startup, lines) + Weight(Startup, m)
            BY <4>1
          <5>3. Count(Startup, lines) \in Nat
            BY <1>16
          <5>4. QED
            BY <5>1, <5>2, <5>3
        <4>2. QED
          BY <1>13, <4>1
      <3>2. QED
        BY <1>14, <1>18, <2>1, <3>1 DEF Printed
    <2>2. CASE ch = "internal"
      <3>1. /\ Amount(Startup, "internal") = Amount(Startup, "internal")' + Weight(Startup, m)
            /\ Amount(Startup, "fromSerial")' = Amount(Startup, "fromSerial") + Weight(Startup, m)
            /\ Count(Startup, lines)' = Count(Startup, lines) /\ Weight(Startup, m) \in Nat
            /\ Amount(Startup, "toParent")' = Amount(Startup, "toParent")
        BY <1>14, <1>18, <2>2
      <3>2. /\ Amount(Startup, "internal") \in Nat /\ Amount(Startup, "fromSerial") \in Nat
            /\ Amount(Startup, "internal")' \in Nat /\ Amount(Startup, "toParent") \in Nat
            /\ Count(Startup, lines) \in Nat
        BY <1>16
      <3>3. QED
        BY <3>1, <3>2 DEF Printed
    <2>3. QED
      BY <1>3, <2>1, <2>2
  <1>20. /\ ch = "toSerial" => Replies' <= Replies + 1
         /\ ch = "internal" => Replies' = Replies
         /\ Replies' \in Nat
    <2>1. CASE ch = "toSerial"
      <3>1. /\ Amount(Queued, "internal")' = Amount(Queued, "internal")
            /\ Amount(Queued, "fromSerial")' = Amount(Queued, "fromSerial")
        BY <1>18, <2>1
      <3>2. Weight(Queued, m) = 0 \/ Weight(Queued, m) = 1
        BY <1>5, Singles
      <3>3. PICK i \in Nat : Count(Queued, lines)' = Count(Queued, lines) + i /\ i <= 1
        <4>1. CASE Count(Queued, lines)' = Count(Queued, lines)
          <5>1. Count(Queued, lines) \in Nat
            BY <1>16
          <5>2. Count(Queued, lines)' = Count(Queued, lines) + 0
            BY <4>1, <5>1
          <5>3. QED
            BY <5>2
        <4>2. CASE Count(Queued, lines)' = Count(Queued, lines) + Weight(Queued, m)
          BY <3>2, <4>2
        <4>3. QED
          BY <1>13, <4>1, <4>2
      <3>4. Replies' = Replies + i
        <4>1. /\ Count(Queued, lines) \in Nat /\ Amount(Queued, "internal") \in Nat
              /\ Amount(Queued, "fromSerial") \in Nat
          BY <1>16
        <4>2. QED
          BY <3>1, <3>3, <4>1 DEF Replies
      <3>5. Replies \in Nat
        BY Numbers
      <3>6. QED
        BY <2>1, <3>3, <3>4, <3>5
    <2>2. CASE ch = "internal"
      <3>1. /\ Amount(Queued, "internal") = Amount(Queued, "internal")' + Weight(Queued, m)
            /\ Amount(Queued, "fromSerial")' = Amount(Queued, "fromSerial") + Weight(Queued, m)
            /\ Count(Queued, lines)' = Count(Queued, lines) /\ Weight(Queued, m) \in Nat
        BY <1>18, <2>2
      <3>2. /\ Amount(Queued, "internal") \in Nat /\ Amount(Queued, "fromSerial") \in Nat
            /\ Amount(Queued, "internal")' \in Nat /\ Count(Queued, lines) \in Nat
        BY <1>16
      <3>3. Replies' = Replies
        BY <3>1, <3>2 DEF Replies
      <3>4. Replies \in Nat
        BY Numbers
      <3>5. QED
        BY <2>2, <3>3, <3>4
    <2>3. QED
      BY <1>3, <2>1, <2>2
  <1>21. Reported' = Reported /\ InFlow' = InFlow /\ Enabled' = Enabled
    BY <1>12, <1>14 DEF Reported, InFlow, Enabled
  <1>22. /\ ch = "toSerial" => InSerial = InSerial' + Weight(Queued, m)
         /\ ch = "internal" => InSerial' = InSerial
         /\ InSerial' \in Nat /\ Weight(Queued, m) \in Nat
    BY <1>5, <1>15, <1>16 DEF InSerial
  <1>23. /\ ch = "toSerial" =>
           /\ Rest("serial") = 0
           /\ \/ Rest("serial")' = 1
              \/ Rest("serial")' = 0 /\ Length("internal") = Unsent("internal")
         /\ ch = "internal" =>
           /\ Rest("serial")' = 0
           /\ \/ Rest("serial") = 1
              \/ Rest("serial") = 0 /\ Length("toSerial") = Unsent("toSerial")
    BY <1>1, <1>2, TurnNumbers, SocketPairs, FirstSockets
  <1>24. /\ plugs' = plugs /\ waiting' = waiting /\ unanswered' = unanswered
         /\ Credit' = Credit /\ Limit' = Limit
    BY <1>0, <1>21 DEF Elsewhere, Credit, Limit
  <1>25. /\ ch = "toSerial" => Length("fromSerial")' = Length("fromSerial")
         /\ ch = "internal" => Length("fromSerial")' = Length("fromSerial") + 1
    <2>1. Length("fromSerial")' = Length("fromSerial") + Size(up) /\ Length("fromSerial") \in Nat
      BY <1>6, Numbers DEF Channels
    <2>2. QED
      BY <1>9, <2>1
  <1>26. /\ ch = "toSerial" => Length("toSerial") = Length("toSerial")' + 1
         /\ ch = "internal" => Length("internal") = Length("internal")' + 1
         /\ Length("toSerial")' \in Nat /\ Length("internal")' \in Nat
    BY <1>5, <1>11 DEF Channels
  <1>27. /\ \/ Size(lines)' = Size(lines)
            \/ /\ Size(lines)' = Size(lines) + 1
               /\ Size(lines) + 1 + Length("internal") <= Backlog
         /\ ch = "internal" => Size(lines)' = Size(lines)
    BY <1>13
  <1>28. SerialStepped(ch, m)
    BY <1>3, <1>4, <1>13, <1>14, <1>15, <1>17, <1>19, <1>20, <1>21, <1>22, <1>23, <1>24, <1>25,
       <1>26, <1>27 DEF SerialStepped
  <1>29. FewUnsent'
    <2>1. Unsent("fromSerial")' + Rest("serial")' <= 1
      <3>1. Unsent("fromSerial")' \in Nat /\ Unsent("fromSerial")' <= Size(up)
        BY <1>6, <1>11 DEF Channels
      <3>2. CASE ch = "toSerial"
        <4>1. Size(up) = 0 /\ (Rest("serial")' = 0 \/ Rest("serial")' = 1)
          BY <1>9, <1>23, <3>2
        <4>2. QED
          BY <3>1, <4>1
      <3>3. CASE ch = "internal"
        <4>1. Size(up) = 1 /\ Rest("serial")' = 0
          BY <1>9, <1>23, <3>3
        <4>2. QED
          BY <3>1, <4>1
      <3>4. QED
        BY <1>3, <3>2, <3>3
    <2>2. /\ Unsent("toMachine")' = Unsent("toMachine") /\ Unsent("toContext")' = Unsent("toContext")
          /\ Unsent("toFlow")' = Unsent("toFlow") /\ Unsent("toParent")' = Unsent("toParent")
          /\ Unsent("toSerial")' = Unsent("toSerial")
          /\ Count(Enable, Pending["toFlow"])' = Count(Enable, Pending["toFlow"])
          /\ Count(Queued, Pending["toSerial"])' = Count(Queued, Pending["toSerial"])
      BY <1>7, Names
    <2>3. QED
      BY <1>4, <2>1, <2>2 DEF FewUnsent
  <1>30. QED
    BY <1>28, <1>29

LEMMA SerialTakes ==
    ASSUME Inv, NEW ch, NEW m, NEW handling, SerialMoves(ch, m, handling)
    PROVE  Bounds' /\ lines' \in Seq(Lines) /\ lines' \in Seq(Messages)
  <1>1. StateTypes /\ Bounds /\ FewUnsent
    BY DEF Inv, Bounds
  <1>2. SerialStepped(ch, m) /\ FewUnsent'
    BY <1>1, SerialNumbers
  <1>3. /\ Coming \in Nat /\ Printed \in Nat /\ InFlow \in Nat /\ InSerial \in Nat /\ Enabled \in Nat
        /\ Replies \in Nat /\ Credit \in Nat /\ Limit \in Nat
        /\ plugs \in Nat /\ waiting \in Nat /\ unanswered \in Nat /\ Hwm \in Nat /\ Backlog \in Nat
        /\ Rest("flow") \in Nat /\ Rest("serial") \in Nat /\ Rest("serial") <= 1 /\ Size(lines) \in Nat
        /\ Length("toSerial") \in Nat /\ Length("fromSerial") \in Nat /\ Length("internal") \in Nat
        /\ Unsent("toSerial") \in Nat
    BY <1>1, Numbers DEF Channels, Actor
  <1>4. Unsent("toSerial") <= 1 + InSerial
    <2>1. Unsent("toSerial") <= 1 + Count(Queued, Pending["toSerial"])
      BY <1>1 DEF FewUnsent
    <2>2. Count(Queued, Pending["toSerial"]) \in Nat /\ Count(Queued, Pending["toSerial"]) <= InSerial
      BY <1>1, Numbers DEF InSerial, Channels
    <2>3. QED
      BY <1>3, <2>1, <2>2
  <1>5. /\ Coming' = Coming /\ Printed' = Printed /\ InFlow' = InFlow /\ Enabled' = Enabled
        /\ plugs' = plugs /\ waiting' = waiting /\ unanswered' = unanswered
        /\ Credit' = Credit /\ Limit' = Limit
        /\ Length("toMachine")' = Length("toMachine") /\ Length("toContext")' = Length("toContext")
        /\ Length("toFlow")' = Length("toFlow") /\ Length("toParent")' = Length("toParent")
        /\ Rest("context")' = Rest("context") /\ Rest("machine")' = Rest("machine")
        /\ Rest("flow")' = Rest("flow")
    BY <1>2 DEF SerialStepped
  <1>6. Startups' /\ ContextAndMachine' /\ MachineAndFlow'
    <2>1. Startups /\ ContextAndMachine /\ MachineAndFlow
      BY <1>1 DEF Bounds
    <2>2. QED
      BY <1>5, <2>1 DEF Startups, ContextAndMachine, MachineAndFlow
  <1>7. Coming <= plugs
    <2>1. Coming + Printed + Enabled <= plugs
      BY <1>1 DEF Bounds, Startups
    <2>2. QED
      BY <1>3, <2>1
  <1>8. ASSUME ch = "toSerial"
        PROVE  DeviceAndReader' /\ ByWindow' /\ ByStatus'
    <2>1. PICK commands1 \in Nat : Length("toSerial")' = commands1 /\ Length("toSerial") = commands1 + 1
      BY <1>2, <1>8 DEF SerialStepped
    <2>2. PICK serial \in Nat : InSerial' = serial /\ serial <= InSerial
      <3>1. InSerial = InSerial' + Weight(Queued, m) /\ InSerial' \in Nat /\ Weight(Queued, m) \in Nat
        BY <1>2, <1>8 DEF SerialStepped
      <3>2. PICK i \in Nat, j \in Nat : InSerial' = i /\ InSerial = i + j
        BY <3>1
      <3>3. i <= InSerial
        BY <3>2
      <3>4. QED
        BY <3>2, <3>3
    <2>3. PICK replies \in Nat : Replies' = replies /\ replies <= Replies + 1
      BY <1>2, <1>8 DEF SerialStepped
    <2>4. /\ Length("internal")' = Length("internal")
          /\ Length("fromSerial")' = Length("fromSerial") /\ Rest("serial") = 0
          /\ \/ Size(lines)' = Size(lines)
             \/ /\ Size(lines)' = Size(lines) + 1
                /\ Size(lines) + 1 + Length("internal") <= Backlog
          /\ Rest("serial")' = 0 \/ Rest("serial")' = 1
      BY <1>2, <1>8 DEF SerialStepped
    <2>5. DeviceAndReader'
      <3>1. Size(lines) + Length("internal") + Coming <= Backlog + plugs
        BY <1>1 DEF Bounds, DeviceAndReader
      <3>2. CASE Size(lines)' = Size(lines)
        BY <1>5, <2>4, <3>1, <3>2 DEF DeviceAndReader
      <3>3. CASE /\ Size(lines)' = Size(lines) + 1
                 /\ Size(lines) + 1 + Length("internal") <= Backlog
        <4>1. Size(lines) + 1 + Length("internal") + Coming <= Backlog + plugs
          BY <1>3, <1>7, <3>3
        <4>2. QED
          BY <1>5, <2>4, <3>3, <4>1 DEF DeviceAndReader
      <3>4. QED
        BY <2>4, <3>2, <3>3
    <2>6. ByWindow'
      <3> SUFFICES ASSUME "unlock" \notin Requests PROVE OnlyCounted'
        BY DEF ByWindow
      <3>1. OnlyCounted
        BY <1>1 DEF Bounds, ByWindow
      <3>2. commands1 + replies + Credit <= unanswered + Limit
        BY <1>3, <2>1, <2>3, <3>1 DEF OnlyCounted
      <3>3. QED
        BY <1>5, <2>1, <2>3, <3>1, <3>2 DEF OnlyCounted
    <2>7. ByStatus'
      <3> SUFFICES ASSUME "queued" \notin Requests PROVE OnlyStatus' /\ FlowAndSerial'
        BY DEF ByStatus
      <3>1. OnlyStatus /\ FlowAndSerial
        BY <1>1 DEF Bounds, ByStatus
      <3>2. Coming + Printed + InFlow + waiting + serial <= plugs
        BY <1>3, <2>2, <3>1 DEF OnlyStatus
      <3>3. OnlyStatus'
        BY <1>5, <2>2, <3>2 DEF OnlyStatus
      <3>4. /\ commands1 + Length("fromSerial") + 0 + Coming + Printed + InFlow + waiting
                 <= Hwm + 2 + plugs + Rest("flow")
            /\ commands1 + Length("fromSerial") + 1 + Coming + Printed + InFlow + waiting
                 <= Hwm + 2 + plugs + Rest("flow")
        BY <1>3, <2>1, <2>4, <3>1 DEF FlowAndSerial
      <3>5. FlowAndSerial'
        <4>1. CASE Rest("serial")' = 0
          BY <1>5, <2>1, <2>4, <3>4, <4>1 DEF FlowAndSerial
        <4>2. CASE Rest("serial")' = 1
          BY <1>5, <2>1, <2>4, <3>4, <4>2 DEF FlowAndSerial
        <4>3. QED
          BY <2>4, <4>1, <4>2
      <3>6. QED
        BY <3>3, <3>5
    <2>8. QED
      BY <2>5, <2>6, <2>7
  <1>9. ASSUME ch = "internal"
        PROVE  DeviceAndReader' /\ ByWindow' /\ ByStatus'
    <2>1. PICK left \in Nat : Length("internal")' = left /\ Length("internal") = left + 1
      BY <1>2, <1>9 DEF SerialStepped
    <2>2. /\ InSerial' = InSerial /\ Replies' = Replies /\ Length("toSerial")' = Length("toSerial")
          /\ Length("fromSerial")' = Length("fromSerial") + 1 /\ Size(lines)' = Size(lines)
          /\ Length("fromSerial") <= Hwm
          /\ Rest("serial")' = 0
          /\ \/ Rest("serial") = 1
             \/ Rest("serial") = 0 /\ Length("toSerial") = Unsent("toSerial")
      BY <1>2, <1>9 DEF SerialStepped
    <2>3. DeviceAndReader'
      <3>1. Size(lines) + left + Coming <= Backlog + plugs
        <4>1. Size(lines) + Length("internal") + Coming <= Backlog + plugs
          BY <1>1 DEF Bounds, DeviceAndReader
        <4>2. QED
          BY <1>3, <2>1, <4>1
      <3>2. QED
        BY <1>5, <2>1, <2>2, <3>1 DEF DeviceAndReader
    <2>4. ByWindow'
      <3>1. ByWindow
        BY <1>1 DEF Bounds
      <3>2. QED
        BY <1>5, <2>2, <3>1 DEF ByWindow, OnlyCounted
    <2>5. ByStatus'
      <3> SUFFICES ASSUME "queued" \notin Requests PROVE OnlyStatus' /\ FlowAndSerial'
        BY DEF ByStatus
      <3>1. OnlyStatus /\ FlowAndSerial
        BY <1>1 DEF Bounds, ByStatus
      <3>2. Length("toSerial") + (Length("fromSerial") + 1) + 0 + Coming + Printed + InFlow + waiting
                <= Hwm + 2 + plugs + Rest("flow")
        <4>1. CASE Rest("serial") = 1
          BY <1>3, <3>1, <4>1 DEF FlowAndSerial
        <4>2. CASE Rest("serial") = 0 /\ Length("toSerial") = Unsent("toSerial")
          BY <1>3, <1>4, <2>2, <3>1, <4>2 DEF OnlyStatus
        <4>3. QED
          BY <2>2, <4>1, <4>2
      <3>3. FlowAndSerial'
        BY <1>5, <2>2, <3>2 DEF FlowAndSerial
      <3>4. OnlyStatus'
        BY <1>5, <2>2, <3>1 DEF OnlyStatus
      <3>5. QED
        BY <3>3, <3>4
    <2>6. QED
      BY <2>3, <2>4, <2>5
  <1>10. DeviceAndReader' /\ ByWindow' /\ ByStatus'
    BY <1>2, <1>8, <1>9 DEF SerialStepped
  <1>11. lines' \in Seq(Lines) /\ lines' \in Seq(Messages)
    BY <1>2 DEF SerialStepped
  <1>12. QED
    BY <1>2, <1>6, <1>10, <1>11 DEF Bounds

-----------------------------------------------------------------------------
(* The steps of the actors *)

LEMMA Couple ==
    ASSUME NEW S, NEW a \in S, NEW b \in S
    PROVE  <<a>> \o <<b>> = <<a, b>> /\ <<a, b>> \in Seq(S) /\ <<a>> \in Seq(S)
  <1> DEFINE s == <<a>>
             t == <<b>>
             u == <<a, b>>
  <1>1. /\ s \in Seq(S) /\ t \in Seq(S) /\ u \in Seq(S)
        /\ Len(s) = 1 /\ Len(t) = 1 /\ Len(u) = 2
        /\ s[1] = a /\ t[1] = b /\ u[1] = a /\ u[2] = b
    OBVIOUS
  <1> HIDE DEF s, t, u
  <1>2. /\ s \o t \in Seq(S) /\ Len(s \o t) = 2
        /\ \A i \in 1..2 : (s \o t)[i] = IF i <= 1 THEN s[i] ELSE t[i - 1]
    BY <1>1, ConcatProperties
  <1>3. (s \o t)[1] = a /\ (s \o t)[2] = b
    BY <1>1, <1>2
  <1>4. \A i \in 1..Len(u) : (s \o t)[i] = u[i]
    <2>1. 1..Len(u) = {1, 2}
      BY <1>1
    <2>2. QED
      BY <1>1, <1>3, <2>1
  <1>5. s \o t = u
    BY <1>1, <1>2, <1>4, SeqEqual
  <1>6. QED
    BY <1>1, <1>5 DEF s, t, u

LEMMA ActorKeepsTypes ==
    ASSUME Inv, NEW actor \in Actor, NEW ch, NEW m,
           NEW handling \in Seq(Duties[actor]), Take(actor, ch, m, handling),
           Elsewhere, waiting' \in Nat, unanswered' \in Nat,
           lines' \in Seq(Lines), lines' \in Seq(Messages)
    PROVE  StateTypes' /\ Returned'
  <1>1. ThreadTypes /\ Returned /\ StateTypes
    BY DEF Inv, StateTypes
  <1>2. Returned'
    BY <1>1, TakeReturned
  <1>3. ThreadTypes'
    BY <1>1, TakeMoves
  <1>4. QED
    BY <1>1, <1>2, <1>3 DEF StateTypes, Elsewhere

LEMMA ContextSteps ==
    ASSUME Inv, ContextStep
    PROVE  Inv'
  <1>1. /\ StateTypes /\ ThreadTypes
        /\ lines \in Seq(Lines) /\ lines \in Seq(Messages) /\ waiting \in Nat /\ unanswered \in Nat
    BY DEF Inv, StateTypes
  <1>2. /\ ContextForwards \/ ContextDrops \/ ContextStops
        /\ Elsewhere /\ waiting' = waiting /\ unanswered' = unanswered /\ lines' = lines
    BY DEF ContextStep, Elsewhere, flowVars, deviceVars
  <1>3. ASSUME NEW ch, NEW m, NEW handling, ContextMoves(ch, m, handling)
        PROVE  Inv'
    <2>1. Bounds'
      BY <1>3, ContextTakes
    <2>2. handling \in Seq(Duties["context"]) /\ Take("context", ch, m, handling)
      BY <1>3 DEF ContextMoves
    <2>3. "context" \in Actor
      BY Names
    <2>4. StateTypes' /\ Returned'
      BY <1>1, <1>2, <2>2, <2>3, ActorKeepsTypes
    <2>5. QED
      BY <2>1, <2>4 DEF Inv
  <1>4. CASE ContextForwards
    <2>1. PICK m \in {"queued", "unlock", "added", "removed"} :
              Take("context", "router", m, <<Send("toMachine", m)>>)
      BY <1>4 DEF ContextForwards
    <2> DEFINE handling == <<Send("toMachine", m)>>
    <2>2. m \in Carried["toMachine"] /\ m \in Messages
      <3>1. m \in Carried["router"]
        BY <1>1, <2>1, TakenMessage, Names
      <3>2. QED
        BY <2>1, <3>1, CarriedMessages DEF Messages
    <2>3. handling \in Seq(Duties["context"])
      <3>1. "toMachine" \in Channels \ {"router"} /\ Writer["toMachine"] = "context"
        BY Wiring, Names
      <3>2. QED
        BY <2>2, <3>1, SendIsDuty
    <2>4. /\ Out("toMachine", handling) = <<m>>
          /\ \A to \in Channels : to # "toMachine" => Out(to, handling) = <<>>
      BY <2>2, OutOfSend, Names
    <2>5. Take("context", "router", m, handling)
      BY <2>1
    <2> HIDE DEF handling
    <2>6. ContextMoves("router", m, handling)
      BY <1>2, <2>3, <2>4, <2>5 DEF ContextMoves
    <2>7. QED
      BY <1>3, <2>6
  <1>5. CASE ContextDrops
    <2>1. Take("context", "toContext", "answer", <<>>)
      BY <1>5 DEF ContextDrops
    <2>2. ContextMoves("toContext", "answer", <<>>)
      BY <1>2, <2>1, EmptyHandling DEF ContextMoves
    <2>3. QED
      BY <1>3, <2>2
  <1>6. CASE ContextStops
    <2> DEFINE op == Stop("context")
               handling == <<op>>
    <2>1. Take("context", "router", "shutdown", handling)
      BY <1>6 DEF ContextStops
    <2>2. op \in Controls /\ op \in Duties["context"]
      BY Names DEF Stop, Controls, Duties, Controlled
    <2>3. op \in Ops /\ \A to : To(to)[op] = <<>>
      BY <2>2, OneOp
    <2> HIDE DEF op
    <2>4. \A to : Out(to, handling) = <<>>
      BY <2>3, Sending
    <2>5. handling \in Seq(Duties["context"])
      <3> DEFINE S == Duties["context"]
      <3>1. op \in S
        BY <2>2
      <3> HIDE DEF S
      <3>2. <<op>> \in Seq(S)
        BY <3>1
      <3>3. QED
        BY <3>2 DEF S
    <2>6. "shutdown" \notin Events
      BY DEF Events
    <2> HIDE DEF handling
    <2>7. ContextMoves("router", "shutdown", handling)
      BY <1>2, <2>1, <2>4, <2>5, <2>6 DEF ContextMoves
    <2>8. QED
      BY <1>3, <2>7
  <1>7. QED
    BY <1>2, <1>4, <1>5, <1>6

LEMMA MachineSteps ==
    ASSUME Inv, MachineStep
    PROVE  Inv'
  <1>1. /\ StateTypes /\ ThreadTypes
        /\ lines \in Seq(Lines) /\ lines \in Seq(Messages) /\ waiting \in Nat /\ unanswered \in Nat
    BY DEF Inv, StateTypes
  <1>2. /\ MachineHandles
        /\ Elsewhere /\ waiting' = waiting /\ unanswered' = unanswered /\ lines' = lines
    BY DEF MachineStep, Elsewhere, flowVars, deviceVars
  <1>3. ASSUME NEW ch, NEW m, NEW handling, handling \in Seq(Duties["machine"]),
               Take("machine", ch, m, handling),
               MachineSends(ch, m, Out("toContext", handling), Out("toFlow", handling))
        PROVE  Inv'
    <2>1. MachineMoves(ch, m, handling)
      BY <1>2, <1>3 DEF MachineMoves
    <2>2. Bounds'
      BY <2>1, MachineTakes
    <2>3. "machine" \in Actor
      BY Names
    <2>4. StateTypes' /\ Returned'
      BY <1>1, <1>2, <1>3, <2>3, ActorKeepsTypes
    <2>5. QED
      BY <2>2, <2>4 DEF Inv
  <1>4. ASSUME NEW ch, NEW m, Take("machine", ch, m, <<>>), MachineSends(ch, m, <<>>, <<>>)
        PROVE  Inv'
    <2>1. /\ <<>> \in Seq(Duties["machine"])
          /\ Out("toContext", <<>>) = <<>> /\ Out("toFlow", <<>>) = <<>>
      BY EmptyHandling
    <2>2. QED
      BY <1>3, <1>4, <2>1
  <1>5. ASSUME NEW ch, NEW m, NEW to \in {"toContext", "toFlow"}, NEW e \in Carried[to],
               Take("machine", ch, m, <<Send(to, e)>>),
               to = "toContext" => MachineSends(ch, m, <<e>>, <<>>),
               to = "toFlow" => MachineSends(ch, m, <<>>, <<e>>)
        PROVE  Inv'
    <2> DEFINE handling == <<Send(to, e)>>
    <2>1. to \in Channels \ {"router"} /\ Writer[to] = "machine"
      BY Wiring, Names
    <2>2. e \in Messages
      BY <2>1, CarriedMessages
    <2>3. handling \in Seq(Duties["machine"])
      BY <2>1, SendIsDuty
    <2>4. /\ Out(to, handling) = <<e>>
          /\ \A other \in Channels : other # to => Out(other, handling) = <<>>
      BY <2>1, <2>2, OutOfSend
    <2>5. Take("machine", ch, m, handling)
      BY <1>5
    <2> HIDE DEF handling
    <2>6. "toContext" \in Channels /\ "toFlow" \in Channels
      BY Names
    <2>7. MachineSends(ch, m, Out("toContext", handling), Out("toFlow", handling))
      <3>1. CASE to = "toContext"
        <4>1. Out("toContext", handling) = <<e>> /\ Out("toFlow", handling) = <<>>
          BY <2>4, <2>6, <3>1
        <4>2. QED
          BY <1>5, <3>1, <4>1
      <3>2. CASE to = "toFlow"
        <4>1. Out("toContext", handling) = <<>> /\ Out("toFlow", handling) = <<e>>
          BY <2>4, <2>6, <3>2
        <4>2. QED
          BY <1>5, <3>2, <4>1
      <3>3. QED
        BY <3>1, <3>2
    <2>8. QED
      BY <1>3, <2>3, <2>5, <2>7
  <1>6. ASSUME NEW m \in {"queued", "unlock", "added", "removed"},
               Take("machine", "toMachine", m, <<Send("toFlow", m)>>)
        PROVE  Inv'
    <2>1. m \in Carried["toFlow"]
      <3>1. m \in Carried["toMachine"]
        BY <1>1, <1>6, TakenMessage, Names
      <3>2. QED
        BY <1>6, <3>1, CarriedMessages DEF Unlocks, Events
    <2>2. MachineSends("toMachine", m, <<>>, <<m>>)
      BY DEF MachineSends
    <2>3. QED
      BY <1>5, <1>6, <2>1, <2>2
  <1>7. ASSUME NEW m \in {"queued", "unlock"}, Take("machine", "toMachine", m, <<>>)
        PROVE  Inv'
    <2>1. MachineSends("toMachine", m, <<>>, <<>>)
      BY DEF MachineSends, Events
    <2>2. QED
      BY <1>4, <1>7, <2>1
  <1>8. ASSUME NEW handling \in {<<>>, <<Send("toFlow", "enable"), Send("toFlow", "queued")>>},
               Take("machine", "toParent", "startup", handling)
        PROVE  Inv'
    <2>1. CASE handling = <<>>
      <3>1. MachineSends("toParent", "startup", <<>>, <<>>)
        BY DEF MachineSends
      <3>2. QED
        BY <1>4, <1>8, <2>1, <3>1
    <2>2. CASE handling = <<Send("toFlow", "enable"), Send("toFlow", "queued")>>
      <3> DEFINE a == Send("toFlow", "enable")
                 b == Send("toFlow", "queued")
                 S == Duties["machine"]
      <3>1. a \in S /\ b \in S
        BY Names, Wiring, CarriedMessages, SendIsDuty
      <3>2. /\ <<a>> \in Seq(Ops) /\ <<b>> \in Seq(Ops)
            /\ Out("toFlow", <<a>>) = <<"enable">> /\ Out("toFlow", <<b>>) = <<"queued">>
            /\ Out("toContext", <<a>>) = <<>> /\ Out("toContext", <<b>>) = <<>>
        BY Names, OutOfSend DEF Messages
      <3> HIDE DEF a, b, S
      <3>3. <<a>> \o <<b>> = <<a, b>> /\ <<a, b>> \in Seq(S)
        BY <3>1, Couple
      <3>4. /\ Out("toFlow", <<a, b>>) = <<"enable">> \o <<"queued">>
            /\ Out("toContext", <<a, b>>) = <<>> \o <<>>
        <4> DEFINE one == <<a>>
                   two == <<b>>
                   both == <<a, b>>
        <4>1. /\ one \in Seq(Ops) /\ two \in Seq(Ops) /\ one \o two = both
              /\ Out("toFlow", one) = <<"enable">> /\ Out("toFlow", two) = <<"queued">>
              /\ Out("toContext", one) = <<>> /\ Out("toContext", two) = <<>>
          BY <3>2, <3>3
        <4> HIDE DEF one, two, both
        <4>2. \A ch : Out(ch, both) = Out(ch, one) \o Out(ch, two)
          BY <4>1, Sending
        <4>3. /\ Out("toFlow", both) = <<"enable">> \o <<"queued">>
              /\ Out("toContext", both) = <<>> \o <<>>
          BY <4>1, <4>2
        <4>4. QED
          BY <4>3 DEF both
      <3>5. <<"enable">> \o <<"queued">> = <<"enable", "queued">> /\ <<>> \o <<>> = <<>>
        <4>1. "enable" \in Messages /\ "queued" \in Messages
          BY DEF Messages
        <4>2. QED
          BY <4>1, Couple, Lists
      <3>6. handling = <<a, b>>
        BY <2>2 DEF a, b
      <3>7. /\ Out("toFlow", handling) = <<"enable", "queued">> /\ Out("toContext", handling) = <<>>
            /\ handling \in Seq(S)
        BY <3>3, <3>4, <3>5, <3>6
      <3>8. MachineSends("toParent", "startup", Out("toContext", handling), Out("toFlow", handling))
        BY <3>7 DEF MachineSends
      <3>9. QED
        BY <1>3, <1>8, <3>7, <3>8 DEF S
    <2>3. QED
      BY <2>1, <2>2
  <1>9. ASSUME NEW handling \in {<<>>, <<Send("toContext", "answer")>>},
               Take("machine", "toParent", "answer", handling)
        PROVE  Inv'
    <2>1. CASE handling = <<>>
      <3>1. MachineSends("toParent", "answer", <<>>, <<>>)
        BY DEF MachineSends
      <3>2. QED
        BY <1>4, <1>9, <2>1, <3>1
    <2>2. CASE handling = <<Send("toContext", "answer")>>
      <3>1. MachineSends("toParent", "answer", <<"answer">>, <<>>)
        BY DEF MachineSends
      <3>2. "answer" \in Carried["toContext"]
        BY CarriedMessages
      <3>3. QED
        BY <1>5, <1>9, <2>2, <3>1, <3>2
    <2>3. QED
      BY <2>1, <2>2
  <1>10. QED
    BY <1>2, <1>6, <1>7, <1>8, <1>9 DEF MachineHandles

\* What FlowControl sends in a step, in numbers.
FlowOutput(handling, up, startups, down, queued, added) ==
    /\ handling \in Seq(Duties["flow"])
    /\ Size(Out("toParent", handling)) = up /\ Count(Startup, Out("toParent", handling)) = startups
    /\ Size(Out("toSerial", handling)) = down /\ Count(Queued, Out("toSerial", handling)) = queued
    /\ Count(Added, Out("toSerial", handling)) = added

LEMMA FlowSendsNothing == FlowOutput(<<>>, 0, 0, 0, 0, 0)
  BY EmptyHandling, Amounts DEF FlowOutput

LEMMA FlowSendsUp ==
    ASSUME NEW m \in Carried["toParent"]
    PROVE  FlowOutput(<<Send("toParent", m)>>, 1, Weight(Startup, m), 0, 0, 0)
  <1> DEFINE handling == <<Send("toParent", m)>>
  <1>1. m \in Messages
    BY CarriedMessages, Names
  <1>2. Out("toParent", handling) = <<m>> /\ Out("toSerial", handling) = <<>>
    BY <1>1, OutOfSend, Names
  <1>3. handling \in Seq(Duties["flow"])
    BY Wiring, Names, SendIsDuty
  <1> HIDE DEF handling
  <1>4. /\ Size(<<>>) = 0 /\ Size(<<m>>) = 1
        /\ \A T : Count(T, <<>>) = 0 /\ Count(T, <<m>>) = Weight(T, m)
    BY Amounts DEF Weight
  <1>5. FlowOutput(handling, 1, Weight(Startup, m), 0, 0, 0)
    BY <1>2, <1>3, <1>4 DEF FlowOutput
  <1>6. QED
    BY <1>5 DEF handling

LEMMA FlowSendsDown ==
    ASSUME NEW m \in Carried["toSerial"]
    PROVE  FlowOutput(<<Send("toSerial", m)>>, 0, 0, 1, Weight(Queued, m), Weight(Added, m))
  <1> DEFINE handling == <<Send("toSerial", m)>>
  <1>1. m \in Messages
    BY CarriedMessages, Names
  <1>2. Out("toSerial", handling) = <<m>> /\ Out("toParent", handling) = <<>>
    BY <1>1, OutOfSend, Names
  <1>3. handling \in Seq(Duties["flow"])
    BY Wiring, Names, SendIsDuty
  <1> HIDE DEF handling
  <1>4. /\ Size(<<>>) = 0 /\ Size(<<m>>) = 1
        /\ \A T : Count(T, <<>>) = 0 /\ Count(T, <<m>>) = Weight(T, m)
    BY Amounts DEF Weight
  <1>5. FlowOutput(handling, 0, 0, 1, Weight(Queued, m), Weight(Added, m))
    BY <1>2, <1>3, <1>4 DEF FlowOutput
  <1>6. QED
    BY <1>5 DEF handling

LEMMA FlowTransmits ==
    ASSUME NEW n \in Nat
    PROVE  FlowOutput(Transmit(n), 0, 0, n, n, 0)
  <1> DEFINE h == Transmit(n)
             up == Out("toParent", h)
             down == Out("toSerial", h)
  <1>1. /\ h \in Seq(Duties["flow"]) /\ up = <<>> /\ Len(down) = n
        /\ \A T : /\ "queued" \in T => Count(T, down) = n
                  /\ "queued" \notin T => Count(T, down) = 0
    BY TransmitSends, Names
  <1> HIDE DEF h, up, down
  <1>2. "queued" \in Queued /\ "queued" \notin Added
    BY DEF Queued, Added
  <1>3. Count(Queued, down) = n /\ Count(Added, down) = 0
    BY <1>1, <1>2
  <1>4. Size(down) = n /\ Size(up) = 0 /\ Count(Startup, up) = 0
    BY <1>1, Amounts DEF Size
  <1>5. FlowOutput(h, 0, 0, n, n, 0)
    BY <1>1, <1>3, <1>4 DEF FlowOutput, up, down
  <1>6. QED
    BY <1>5 DEF h

LEMMA FlowSendsBoth ==
    ASSUME NEW first, NEW a1 \in Nat, NEW a2 \in Nat, NEW a3 \in Nat, NEW a4 \in Nat, NEW a5 \in Nat,
           NEW then, NEW b1 \in Nat, NEW b2 \in Nat, NEW b3 \in Nat, NEW b4 \in Nat, NEW b5 \in Nat,
           FlowOutput(first, a1, a2, a3, a4, a5), FlowOutput(then, b1, b2, b3, b4, b5)
    PROVE  FlowOutput(first \o then, a1 + b1, a2 + b2, a3 + b3, a4 + b4, a5 + b5)
  <1> DEFINE S == Duties["flow"]
             both == first \o then
  <1>1. first \in Seq(S) /\ then \in Seq(S)
    BY DEF FlowOutput
  <1>2. S \subseteq Ops
    BY DutyIsOp, Names
  <1>3. both \in Seq(S)
    <2> HIDE DEF S
    <2>1. QED
      BY <1>1, ConcatParts
  <1>4. first \in Seq(Ops) /\ then \in Seq(Ops)
    BY <1>1, <1>2
  <1>5. ASSUME NEW ch
        PROVE  /\ Size(Out(ch, both)) = Size(Out(ch, first)) + Size(Out(ch, then))
               /\ \A T : Count(T, Out(ch, both)) = Count(T, Out(ch, first)) + Count(T, Out(ch, then))
    <2> DEFINE s == Out(ch, first)
               t == Out(ch, then)
               u == Out(ch, both)
    <2>1. u = s \o t /\ s \in Seq(Messages) /\ t \in Seq(Messages)
      BY <1>4, Sending
    <2> HIDE DEF s, t, u
    <2>2. Len(s \o t) = Len(s) + Len(t)
      BY <2>1, Lists
    <2>3. \A T : Count(T, s \o t) = Count(T, s) + Count(T, t)
      BY <2>1, Counting
    <2>4. Size(u) = Size(s) + Size(t)
      BY <2>1, <2>2 DEF Size
    <2>5. \A T : Count(T, u) = Count(T, s) + Count(T, t)
      BY <2>1, <2>3
    <2>6. QED
      BY <2>4, <2>5 DEF s, t, u
  <1> HIDE DEF both
  <1>6. /\ Size(Out("toParent", both)) = a1 + b1 /\ Count(Startup, Out("toParent", both)) = a2 + b2
        /\ Size(Out("toSerial", both)) = a3 + b3 /\ Count(Queued, Out("toSerial", both)) = a4 + b4
        /\ Count(Added, Out("toSerial", both)) = a5 + b5
    <2>1. /\ Size(Out("toParent", first)) = a1 /\ Count(Startup, Out("toParent", first)) = a2
          /\ Size(Out("toSerial", first)) = a3 /\ Count(Queued, Out("toSerial", first)) = a4
          /\ Count(Added, Out("toSerial", first)) = a5
      BY DEF FlowOutput
    <2>2. /\ Size(Out("toParent", then)) = b1 /\ Count(Startup, Out("toParent", then)) = b2
          /\ Size(Out("toSerial", then)) = b3 /\ Count(Queued, Out("toSerial", then)) = b4
          /\ Count(Added, Out("toSerial", then)) = b5
      BY DEF FlowOutput
    <2>3. QED
      BY <1>5, <2>1, <2>2
  <1>7. QED
    BY <1>3, <1>6 DEF FlowOutput, both

LEMMA FlowSteps ==
    ASSUME Inv, FlowStep
    PROVE  Inv'
  <1>1. /\ StateTypes /\ ThreadTypes
        /\ lines \in Seq(Lines) /\ lines \in Seq(Messages) /\ waiting \in Nat /\ unanswered \in Nat
        /\ Window \in Nat
    BY Numbers DEF Inv, StateTypes
  <1>2. FlowHandles /\ Elsewhere /\ lines' = lines
    BY DEF FlowStep, Elsewhere, deviceVars
  <1>3. ASSUME NEW ch, NEW m, NEW handling, handling \in Seq(Duties["flow"]),
               Take("flow", ch, m, handling),
               FlowCounts(ch, m, Out("toParent", handling), Out("toSerial", handling))
        PROVE  Inv'
    <2>1. FlowMoves(ch, m, handling)
      BY <1>2, <1>3 DEF FlowMoves
    <2>2. Bounds'
      BY <2>1, FlowTakes
    <2>3. "flow" \in Actor
      BY Names
    <2>4. waiting' \in Nat /\ unanswered' \in Nat
      BY <1>3 DEF FlowCounts
    <2>5. StateTypes' /\ Returned'
      BY <1>1, <1>2, <1>3, <2>3, <2>4, ActorKeepsTypes
    <2>6. QED
      BY <2>2, <2>5 DEF Inv
  <1>4. ASSUME NEW m, NEW handling, NEW s \in Nat, NEW n \in Nat,
               Take("flow", "toFlow", m, handling),
               FlowOutput(handling, 0, 0, s, n, Weight(Added, m)),
               waiting' \in Nat, unanswered' \in Nat,
               \/ /\ m = "queued" /\ s = n
                  /\ waiting' = waiting + 1 - n /\ unanswered' = unanswered + n /\ unanswered + n <= Window
               \/ /\ m \in {"queued", "enable"} /\ s = 0 /\ n = 0
                  /\ waiting' = waiting /\ unanswered' = unanswered
               \/ /\ m = "unlock" /\ s = n + 1
                  /\ waiting' = waiting - n /\ unanswered' = unanswered + n /\ unanswered + n <= Window
               \/ /\ m \in Events /\ s = 1 /\ n = 0 /\ waiting' = 0 /\ unanswered' = 0
        PROVE  Inv'
    <2> DEFINE up == Out("toParent", handling)
               down == Out("toSerial", handling)
    <2>1. /\ handling \in Seq(Duties["flow"])
          /\ Size(up) = 0 /\ Count(Startup, up) = 0 /\ Size(down) = s /\ Count(Queued, down) = n
          /\ Count(Added, down) = Weight(Added, m)
      BY <1>4 DEF FlowOutput
    <2> HIDE DEF up, down
    <2>2. FlowForwards(m, down)
      BY <1>4, <2>1 DEF FlowForwards
    <2>3. FlowCounts("toFlow", m, up, down)
      BY <1>4, <2>1, <2>2 DEF FlowCounts
    <2>4. QED
      BY <1>3, <1>4, <2>1, <2>3 DEF up, down
  <1>5. ASSUME NEW m, NEW handling, NEW s \in Nat, NEW n \in Nat, NEW x \in {0, 1},
               Take("flow", "fromSerial", m, handling),
               FlowOutput(handling, x, Weight(Startup, m), s, n, 0),
               waiting' \in Nat, unanswered' \in Nat,
               \/ /\ m \in {"queued", "unlock"} /\ s = n /\ waiting' = waiting - n
                  /\ \E left \in Nat : /\ left <= unanswered /\ unanswered <= left + Weight(Queued, m)
                                       /\ unanswered' = left + n /\ left + n <= Window
               \/ /\ m \in {"startup", "push"} /\ s = 0 /\ n = 0
                  /\ waiting' = waiting /\ unanswered' = unanswered
        PROVE  Inv'
    <2> DEFINE up == Out("toParent", handling)
               down == Out("toSerial", handling)
    <2>1. /\ handling \in Seq(Duties["flow"])
          /\ Size(up) = x /\ Count(Startup, up) = Weight(Startup, m)
          /\ Size(down) = s /\ Count(Queued, down) = n /\ Count(Added, down) = 0
      BY <1>5 DEF FlowOutput
    <2> HIDE DEF up, down
    <2>2. FlowAnswers(m, down)
      BY <1>5, <2>1 DEF FlowAnswers
    <2>3. FlowCounts("fromSerial", m, up, down)
      BY <1>5, <2>1, <2>2 DEF FlowCounts
    <2>4. QED
      BY <1>3, <1>5, <2>1, <2>3 DEF up, down
  <1>6. /\ Weight(Added, "queued") = 0 /\ Weight(Added, "unlock") = 0 /\ Weight(Added, "enable") = 0
        /\ Weight(Startup, "queued") = 0 /\ Weight(Startup, "unlock") = 0
        /\ Weight(Startup, "answer") = 0 /\ Weight(Startup, "push") = 0
        /\ Weight(Startup, "startup") = 1
        /\ Weight(Queued, "queued") = 1 /\ Weight(Queued, "unlock") = 0
        /\ Weight(Queued, "added") = 0 /\ Weight(Queued, "removed") = 0
    BY Singles DEF Messages
  <1>7. ASSUME FlowQueues PROVE Inv'
    <2>1. PICK n \in Sendable(waiting + 1, unanswered) :
              /\ Take("flow", "toFlow", "queued", Transmit(n))
              /\ waiting' = waiting + 1 - n
              /\ unanswered' = unanswered + n
      BY <1>7 DEF FlowQueues
    <2>2. n \in Nat /\ n <= waiting + 1 /\ unanswered + n <= Window
      BY <1>1 DEF Sendable
    <2>3. waiting' \in Nat /\ unanswered' \in Nat
      BY <1>1, <2>1, <2>2
    <2>4. FlowOutput(Transmit(n), 0, 0, n, n, 0)
      BY <2>2, FlowTransmits
    <2>5. QED
      BY <1>4, <1>6, <2>1, <2>2, <2>3, <2>4
  <1>8. ASSUME FlowUnlocks PROVE Inv'
    <2>1. PICK n \in Sendable(waiting, unanswered) :
              /\ Take("flow", "toFlow", "unlock", <<Send("toSerial", "unlock")>> \o Transmit(n))
              /\ waiting' = waiting - n
              /\ unanswered' = unanswered + n
      BY <1>8 DEF FlowUnlocks
    <2>2. n \in Nat /\ n <= waiting /\ unanswered + n <= Window
      BY <1>1 DEF Sendable
    <2>3. waiting' \in Nat /\ unanswered' \in Nat
      BY <1>1, <2>1, <2>2
    <2>4. "unlock" \in Carried["toSerial"]
      <3>1. "unlock" \in Carried["toFlow"]
        BY <1>1, <2>1, TakenMessage, Names
      <3>2. QED
        BY <3>1, CarriedMessages DEF Events
    <2> DEFINE a == <<Send("toSerial", "unlock")>>
               b == Transmit(n)
    <2>5. FlowOutput(a, 0, 0, 1, 0, 0)
      BY <1>6, <2>4, FlowSendsDown
    <2>6. FlowOutput(b, 0, 0, n, n, 0)
      BY <2>2, FlowTransmits
    <2>7. Take("flow", "toFlow", "unlock", a \o b)
      BY <2>1
    <2> HIDE DEF a, b
    <2>8. FlowOutput(a \o b, 0 + 0, 0 + 0, 1 + n, 0 + n, 0 + 0)
      BY <2>2, <2>5, <2>6, FlowSendsBoth
    <2>9. FlowOutput(a \o b, 0, 0, n + 1, n, Weight(Added, "unlock"))
      BY <1>6, <2>2, <2>8
    <2>10. n + 1 \in Nat
      BY <2>2
    <2>11. QED
      BY <1>4, <2>1, <2>2, <2>3, <2>7, <2>9, <2>10
  <1>9. ASSUME FlowReconnects PROVE Inv'
    <2>1. PICK m \in {"added", "removed"} :
              Take("flow", "toFlow", m, <<Send("toSerial", m)>>)
      BY <1>9 DEF FlowReconnects
    <2>2. waiting' = 0 /\ unanswered' = 0
      BY <1>9 DEF FlowReconnects
    <2>3. m \in Carried["toSerial"] /\ m \in Events
      BY CarriedMessages DEF Events
    <2>4. FlowOutput(<<Send("toSerial", m)>>, 0, 0, 1, 0, Weight(Added, m))
      <3>1. Weight(Queued, m) = 0
        BY <1>6
      <3>2. FlowOutput(<<Send("toSerial", m)>>, 0, 0, 1, Weight(Queued, m), Weight(Added, m))
        BY <2>3, FlowSendsDown
      <3>3. QED
        BY <3>1, <3>2
    <2>5. QED
      BY <1>4, <2>1, <2>2, <2>3, <2>4
  <1>10. ASSUME NEW m \in {"enable", "queued"}, Take("flow", "toFlow", m, <<>>), UNCHANGED flowVars
         PROVE  Inv'
    <2>1. waiting' = waiting /\ unanswered' = unanswered
      BY <1>10 DEF flowVars
    <2>2. Weight(Added, m) = 0
      BY <1>6
    <2>3. FlowOutput(<<>>, 0, 0, 0, 0, Weight(Added, m))
      BY <2>2, FlowSendsNothing
    <2>4. QED
      BY <1>1, <1>4, <1>10, <2>1, <2>3
  <1>11. ASSUME FlowReceives PROVE Inv'
    <2> DEFINE Left(m) == IF m = "queued" /\ unanswered > 0 THEN unanswered - 1 ELSE unanswered
    <2>1. PICK m \in {"queued", "unlock"} :
              \E n \in Sendable(waiting, Left(m)) :
                  /\ Take("flow", "fromSerial", m, <<Send("toParent", "answer")>> \o Transmit(n))
                  /\ waiting' = waiting - n
                  /\ unanswered' = Left(m) + n
      BY <1>11 DEF FlowReceives
    <2>2. PICK n \in Sendable(waiting, Left(m)) :
                  /\ Take("flow", "fromSerial", m, <<Send("toParent", "answer")>> \o Transmit(n))
                  /\ waiting' = waiting - n
                  /\ unanswered' = Left(m) + n
      BY <2>1
    <2>3. PICK left \in Nat : /\ left = Left(m) /\ left <= unanswered
                              /\ unanswered <= left + Weight(Queued, m)
      BY <1>1, <1>6
    <2>4. n \in Nat /\ n <= waiting /\ left + n <= Window
      BY <1>1, <2>3 DEF Sendable
    <2>5. waiting' = waiting - n /\ unanswered' = left + n
      BY <2>2, <2>3
    <2> HIDE DEF Left
    <2>6. waiting' \in Nat /\ unanswered' \in Nat
      BY <1>1, <2>4, <2>5
    <2> DEFINE a == <<Send("toParent", "answer")>>
               b == Transmit(n)
    <2>7. FlowOutput(a, 1, 0, 0, 0, 0)
      <3>1. "answer" \in Carried["toParent"]
        BY CarriedMessages
      <3>2. QED
        BY <1>6, <3>1, FlowSendsUp
    <2>8. FlowOutput(b, 0, 0, n, n, 0)
      BY <2>4, FlowTransmits
    <2>9. Take("flow", "fromSerial", m, a \o b)
      BY <2>2
    <2> HIDE DEF a, b
    <2>10. FlowOutput(a \o b, 1 + 0, 0 + 0, 0 + n, 0 + n, 0 + 0)
      BY <2>4, <2>7, <2>8, FlowSendsBoth
    <2>11. FlowOutput(a \o b, 1, Weight(Startup, m), n, n, 0)
      <3>1. Weight(Startup, m) = 0
        BY <1>6
      <3>2. QED
        BY <2>4, <2>10, <3>1
    <2>12. QED
      BY <1>5, <2>3, <2>4, <2>5, <2>6, <2>9, <2>11
  <1>12. ASSUME Take("flow", "fromSerial", "startup", <<Send("toParent", "startup")>>), UNCHANGED flowVars
         PROVE  Inv'
    <2>1. waiting' = waiting /\ unanswered' = unanswered
      BY <1>12 DEF flowVars
    <2>2. "startup" \in Carried["toParent"]
      BY CarriedMessages
    <2>3. FlowOutput(<<Send("toParent", "startup")>>, 1, Weight(Startup, "startup"), 0, 0, 0)
      BY <2>2, FlowSendsUp
    <2>4. QED
      BY <1>1, <1>5, <1>12, <2>1, <2>3
  <1>13. ASSUME NEW handling \in {<<>>, <<Send("toParent", "answer")>>},
                Take("flow", "fromSerial", "push", handling), UNCHANGED flowVars
         PROVE  Inv'
    <2>1. waiting' = waiting /\ unanswered' = unanswered
      BY <1>13 DEF flowVars
    <2>2. "answer" \in Carried["toParent"]
      BY CarriedMessages
    <2>3. PICK x \in {0, 1} : FlowOutput(handling, x, Weight(Startup, "push"), 0, 0, 0)
      <3>1. CASE handling = <<>>
        BY <1>6, <3>1, FlowSendsNothing
      <3>2. CASE handling = <<Send("toParent", "answer")>>
        <4>1. FlowOutput(handling, 1, Weight(Startup, "answer"), 0, 0, 0)
          BY <2>2, <3>2, FlowSendsUp
        <4>2. QED
          BY <1>6, <4>1
      <3>3. QED
        BY <3>1, <3>2
    <2>4. QED
      BY <1>1, <1>5, <1>13, <2>1, <2>3
  <1>14. CASE FlowRelays
    BY <1>12, <1>13, <1>14 DEF FlowRelays
  <1>15. CASE FlowEnables \/ FlowRefuses
    BY <1>10, <1>15 DEF FlowEnables, FlowRefuses
  <1>16. QED
    BY <1>2, <1>7, <1>8, <1>9, <1>11, <1>14, <1>15 DEF FlowHandles

\* What SerialConnection has to do when the device comes or goes.
Restarting(S, a, b, c) ==
    /\ S \subseteq Ops /\ a \in S /\ b \in S /\ c \in S
    /\ a \in Controls /\ b \in Controls /\ c \in Controls
    /\ a.do # "start" /\ b.do # "start" /\ c.do = "start"
Restarted(S, a, d, e) ==
    /\ d \in Seq(S) /\ d # <<>> /\ Head(d) = a /\ Boot(d) = 0
    /\ e \in Seq(S) /\ e # <<>> /\ Head(e) = a /\ Boot(e) = 1
    /\ \A ch : Out(ch, d) = <<>> /\ Out(ch, e) = <<>>

LEMMA ThreeControls ==
    ASSUME NEW S, NEW a, NEW b, NEW c, Restarting(S, a, b, c)
    PROVE  Restarted(S, a, <<a, b>>, <<a, b>> \o <<c>>)
  <1> DEFINE x == <<a>>
             y == <<b>>
             z == <<c>>
             w == <<b, c>>
             d == <<a, b>>
             e == d \o z
  <1>0. /\ S \subseteq Ops /\ a \in S /\ b \in S /\ c \in S
        /\ a \in Controls /\ b \in Controls /\ c \in Controls
        /\ a.do # "start" /\ b.do # "start" /\ c.do = "start"
    BY DEF Restarting
  <1>1. /\ x \in Seq(S) /\ y \in Seq(S) /\ z \in Seq(S) /\ w \in Seq(S) /\ d \in Seq(S)
        /\ d # <<>> /\ Head(d) = a /\ Tail(d) = y
        /\ y # <<>> /\ Head(y) = b /\ Tail(y) = <<>>
        /\ z # <<>> /\ Head(z) = c /\ Tail(z) = <<>>
        /\ w # <<>> /\ Head(w) = b /\ Tail(w) = z
    <2>1. x \in Seq(S) /\ y \in Seq(S) /\ z \in Seq(S)
      BY <1>0
    <2>2. /\ y # <<>> /\ Head(y) = b /\ Tail(y) = <<>>
          /\ z # <<>> /\ Head(z) = c /\ Tail(z) = <<>>
      OBVIOUS
    <2>3. w \in Seq(S) /\ w # <<>> /\ Head(w) = b /\ Tail(w) = z
      BY <1>0
    <2>4. d \in Seq(S) /\ d # <<>> /\ Head(d) = a /\ Tail(d) = y
      BY <1>0
    <2>5. QED
      BY <2>1, <2>2, <2>3, <2>4
  <1>2. x \o y = d /\ y \o z = w
    BY <1>0, Couple
  <1>3. e = d \o z
    OBVIOUS
  <1>4. \A ch : /\ To(ch)[a] = <<>> /\ To(ch)[b] = <<>> /\ To(ch)[c] = <<>>
    BY <1>0, OneOp
  <1>5. \A ch : Out(ch, x) = To(ch)[a] /\ Out(ch, y) = To(ch)[b] /\ Out(ch, z) = To(ch)[c]
    BY <1>0, Sending
  <1> HIDE DEF x, y, z, w, d, e
  <1>6. e \in Seq(S)
    BY <1>1, <1>3, ConcatParts
  <1>7. e # <<>> /\ Head(e) = a /\ Tail(e) = w
    <2>1. d \o z # <<>> /\ Head(d \o z) = Head(d) /\ Tail(d \o z) = Tail(d) \o z
      BY <1>1, HeadTailOfConcat
    <2>2. QED
      BY <1>1, <1>2, <1>3, <2>1
  <1>8. /\ d \in Seq(Ops) /\ e \in Seq(Ops) /\ w \in Seq(Ops)
        /\ x \in Seq(Ops) /\ y \in Seq(Ops) /\ z \in Seq(Ops)
    BY <1>0, <1>1, <1>6
  <1>9. Boot(d) = 0
    <2>1. Boot(d) = Boot(y)
      BY <1>0, <1>1, <1>8, Booting
    <2>2. Boot(y) = Boot(<<>>)
      BY <1>0, <1>1, <1>8, Booting
    <2>3. QED
      BY <2>1, <2>2, Booting
  <1>10. Boot(e) = 1
    <2>1. Boot(e) = Boot(w)
      BY <1>0, <1>7, <1>8, Booting
    <2>2. Boot(w) = Boot(z)
      BY <1>0, <1>1, <1>8, Booting
    <2>3. Boot(z) = Boot(<<>>) + 1 /\ Boot(<<>>) = 0
      BY <1>0, <1>1, <1>8, Booting
    <2>4. QED
      BY <2>1, <2>2, <2>3
  <1>11. ASSUME NEW ch PROVE Out(ch, d) = <<>> /\ Out(ch, e) = <<>>
    <2>1. Out(ch, x) = <<>> /\ Out(ch, y) = <<>> /\ Out(ch, z) = <<>>
      BY <1>4, <1>5
    <2>2. \A s, t \in Seq(Ops) : Out(ch, s \o t) = Out(ch, s) \o Out(ch, t)
      BY Sending
    <2>3. Out(ch, x \o y) = Out(ch, x) \o Out(ch, y) /\ Out(ch, d \o z) = Out(ch, d) \o Out(ch, z)
      BY <1>8, <2>2
    <2>4. Out(ch, d) = Out(ch, x) \o Out(ch, y) /\ Out(ch, e) = Out(ch, d) \o Out(ch, z)
      BY <1>2, <1>3, <2>3
    <2>5. <<>> \o <<>> = <<>>
      OBVIOUS
    <2>6. QED
      BY <2>1, <2>4, <2>5
  <1>12. QED
    BY <1>1, <1>6, <1>7, <1>9, <1>10, <1>11 DEF Restarted, d, e, z

LEMMA SerialControls ==
    /\ Disconnect \in Seq(Duties["serial"]) /\ Connect \in Seq(Duties["serial"])
    /\ Disconnect # <<>> /\ Head(Disconnect).do # "start" /\ Boot(Disconnect) = 0
    /\ Connect # <<>> /\ Head(Connect).do # "start" /\ Boot(Connect) = 1
    /\ \A ch : Out(ch, Disconnect) = <<>> /\ Out(ch, Connect) = <<>>
  <1> DEFINE S == Duties["serial"]
             a == Stop("reader")
             b == Join("reader")
             c == Start("reader")
             d == Disconnect
             e == Connect
  <1>1. d = <<a, b>> /\ e = <<a, b>> \o <<c>>
    BY DEF Disconnect, Connect, ShutDown
  <1>2. /\ a \in Controls /\ b \in Controls /\ c \in Controls
        /\ a.do # "start" /\ b.do # "start" /\ c.do = "start"
    BY Names DEF Controls, Stop, Join, Start
  <1>3. a \in S /\ b \in S /\ c \in S
    BY Names DEF Duties, Controlled
  <1>4. S \subseteq Ops
    BY DutyIsOp, Names
  <1> HIDE DEF S, a, b, c, d, e
  <1>5. Restarting(S, a, b, c)
    BY <1>2, <1>3, <1>4 DEF Restarting
  <1>6. Restarted(S, a, <<a, b>>, <<a, b>> \o <<c>>)
    BY <1>5, ThreeControls
  <1>7. Restarted(S, a, d, e)
    BY <1>1, <1>6
  <1>8. QED
    BY <1>2, <1>7 DEF Restarted, d, e, S

LEMMA BootsNext ==
    ASSUME ThreadTypes, NEW ch, NEW m, NEW handling \in Seq(Duties["serial"]),
           Take("serial", ch, m, handling),
           handling # <<>> => Head(handling).do # "start"
    PROVE  Boots' = Boot(handling)
  <1>1. "serial" \in Actor /\ "serial" \in Threads
    BY Names
  <1>2. work'["serial"] = handling \/ (handling # <<>> /\ work'["serial"] = Tail(handling))
    BY <1>1, TakeMoves
  <1>3. handling \in Seq(Ops)
    BY <1>1, DutyIsOp
  <1>4. handling # <<>> => Boot(handling) = Boot(Tail(handling))
    BY <1>3, Booting
  <1>5. Boots' = Boot(work'["serial"])
    BY DEF Boots
  <1>6. QED
    BY <1>2, <1>4, <1>5

LEMMA SerialSteps ==
    ASSUME Inv, SerialStep
    PROVE  Inv'
  <1>1. StateTypes /\ ThreadTypes /\ waiting \in Nat /\ unanswered \in Nat
    BY DEF Inv, StateTypes
  <1>2. SerialHandles /\ Elsewhere /\ waiting' = waiting /\ unanswered' = unanswered
    BY DEF SerialStep, Elsewhere, flowVars
  <1>3. ASSUME NEW ch, NEW m, NEW handling, handling \in Seq(Duties["serial"]),
               Take("serial", ch, m, handling), SerialSends(ch, m, Out("fromSerial", handling))
        PROVE  Inv'
    <2>1. SerialMoves(ch, m, handling)
      BY <1>2, <1>3 DEF SerialMoves
    <2>2. Bounds' /\ lines' \in Seq(Lines) /\ lines' \in Seq(Messages)
      BY <2>1, SerialTakes
    <2>3. "serial" \in Actor
      BY Names
    <2>4. StateTypes' /\ Returned'
      BY <1>1, <1>2, <1>3, <2>2, <2>3, ActorKeepsTypes
    <2>5. QED
      BY <2>2, <2>4 DEF Inv
  <1>4. /\ Weight(Added, "queued") = 0 /\ Weight(Added, "unlock") = 0
        /\ Weight(Added, "removed") = 0 /\ Weight(Added, "added") = 1
    BY Singles DEF Messages
  <1>5. ASSUME NEW request \in {"queued", "unlock"},
               Take("serial", "toSerial", request, <<>>), Prints(request)
        PROVE  Inv'
    <2>1. <<>> \in Seq(Duties["serial"]) /\ Out("fromSerial", <<>>) = <<>>
      BY EmptyHandling
    <2>2. Boots' = 0
      BY <1>1, <1>5, <2>1, BootsNext, Booting
    <2>3. Weight(Added, request) = 0
      BY <1>4
    <2>4. SerialSends("toSerial", request, <<>>)
      BY <1>5, <2>2, <2>3 DEF SerialSends
    <2>5. QED
      BY <1>3, <1>5, <2>1, <2>4
  <1>6. ASSUME NEW m \in {"added", "removed"}, NEW handling \in {Connect, Disconnect},
               handling = Connect <=> m = "added",
               Take("serial", "toSerial", m, handling), lines' = lines
        PROVE  Inv'
    <2>1. /\ handling \in Seq(Duties["serial"]) /\ Out("fromSerial", handling) = <<>>
          /\ Head(handling).do # "start"
      BY SerialControls
    <2>2. Boots' = Boot(handling)
      BY <1>1, <1>6, <2>1, BootsNext
    <2>3. Boot(handling) = Weight(Added, m)
      BY <1>4, <1>6, SerialControls
    <2>4. m \in Events
      BY DEF Events
    <2>5. SerialSends("toSerial", m, <<>>)
      BY <1>6, <2>2, <2>3, <2>4 DEF SerialSends
    <2>6. QED
      BY <1>3, <1>6, <2>1, <2>5
  <1>7. ASSUME NEW line \in {"queued", "unlock", "startup", "push"},
               Take("serial", "internal", line, <<Send("fromSerial", line)>>), lines' = lines
        PROVE  Inv'
    <2> DEFINE op == Send("fromSerial", line)
               handling == <<op>>
    <2>1. line \in Carried["fromSerial"] /\ line \in Messages
      BY CarriedMessages DEF Lines, Messages
    <2>2. handling \in Seq(Duties["serial"])
      BY <2>1, SendIsDuty, Wiring, Names
    <2>3. handling \in Seq(Ops) /\ Out("fromSerial", handling) = <<line>>
      BY <2>1, OutOfSend, Names
    <2>4. op.do # "start"
      BY DEF Send
    <2>5. Take("serial", "internal", line, handling)
      BY <1>7
    <2>6. handling # <<>> /\ Head(handling) = op /\ Tail(handling) = <<>>
      OBVIOUS
    <2> HIDE DEF op, handling
    <2>7. Boots' = Boot(handling)
      BY <1>1, <2>2, <2>4, <2>5, <2>6, BootsNext
    <2>8. Boot(handling) = Boot(<<>>) /\ Boot(<<>>) = 0
      BY <2>3, <2>4, <2>6, Booting
    <2>9. SerialSends("internal", line, Out("fromSerial", handling))
      BY <1>7, <2>3, <2>7, <2>8 DEF SerialSends
    <2>10. QED
      BY <1>3, <2>2, <2>5, <2>9
  <1>8. CASE SerialTransmits
    BY <1>5, <1>8 DEF SerialTransmits
  <1>9. CASE SerialConnects
    <2>1. Connect # Disconnect
      BY SerialControls
    <2>2. QED
      BY <1>6, <1>9, <2>1 DEF SerialConnects
  <1>10. CASE SerialRelays
    BY <1>7, <1>10 DEF SerialRelays
  <1>11. QED
    BY <1>2, <1>8, <1>9, <1>10 DEF SerialHandles

-----------------------------------------------------------------------------
(* The other steps *)

\* A step that moves nothing between the actors.
Settles ==
    /\ \A ch \in Channels \ {"router", "internal"} : Length(ch)' = Length(ch)
    /\ \A actor \in Actor : Rest(actor)' = Rest(actor)
    /\ Coming' \in Nat /\ Printed' \in Nat /\ Replies' \in Nat
    /\ Coming' + Printed' <= Coming + Printed
    /\ Replies' <= Replies /\ Reported' = Reported
    /\ Enabled' = Enabled /\ InFlow' = InFlow /\ InSerial' = InSerial
    /\ waiting' = waiting /\ unanswered' = unanswered /\ plugs' = plugs

LEMMA SettledNumbers ==
    ASSUME StateTypes, Startups, ContextAndMachine, MachineAndFlow, ByWindow, ByStatus, Settles
    PROVE  Startups' /\ ContextAndMachine' /\ MachineAndFlow' /\ ByWindow' /\ ByStatus'
  <1>1. /\ Length("toMachine")' = Length("toMachine") /\ Length("toContext")' = Length("toContext")
        /\ Length("toFlow")' = Length("toFlow") /\ Length("toParent")' = Length("toParent")
        /\ Length("toSerial")' = Length("toSerial") /\ Length("fromSerial")' = Length("fromSerial")
        /\ Rest("context")' = Rest("context") /\ Rest("machine")' = Rest("machine")
        /\ Rest("flow")' = Rest("flow") /\ Rest("serial")' = Rest("serial")
    BY Names DEF Settles
  <1>2. Credit' = Credit /\ Limit' = Limit
    BY DEF Settles, Credit, Limit
  <1>3. PICK c \in Nat, p \in Nat, r \in Nat :
            /\ Coming' = c /\ Printed' = p /\ Replies' = r
            /\ c + p <= Coming + Printed /\ r <= Replies
    BY DEF Settles
  <1>4. /\ Length("toMachine") \in Nat /\ Length("toContext") \in Nat
        /\ Length("toFlow") \in Nat /\ Length("toParent") \in Nat
        /\ Length("toSerial") \in Nat /\ Length("fromSerial") \in Nat
        /\ Rest("context") \in Nat /\ Rest("machine") \in Nat
        /\ Rest("flow") \in Nat /\ Rest("serial") \in Nat
        /\ Coming \in Nat /\ Printed \in Nat /\ Reported \in Nat /\ Replies \in Nat
        /\ Enabled \in Nat /\ InFlow \in Nat /\ InSerial \in Nat
        /\ Credit \in Nat /\ Limit \in Nat /\ Hwm \in Nat /\ Window \in Nat
        /\ plugs \in Nat /\ waiting \in Nat /\ unanswered \in Nat
    BY Numbers, Names
  <1>5. /\ Enabled' = Enabled /\ InFlow' = InFlow /\ InSerial' = InSerial
        /\ waiting' = waiting /\ unanswered' = unanswered /\ plugs' = plugs
    BY DEF Settles
  <1>6. Startups'
    <2>1. c + p + Enabled <= plugs
      BY <1>3, <1>4 DEF Startups
    <2>2. QED
      BY <1>3, <1>5, <2>1 DEF Startups
  <1>7. ContextAndMachine'
    BY <1>1 DEF ContextAndMachine
  <1>8. MachineAndFlow'
    <2>1. Length("toFlow") + Length("toParent") + Rest("flow") + 2 * (c + p)
              <= Hwm + 2 + 2 * plugs + Rest("machine")
      BY <1>3, <1>4 DEF MachineAndFlow
    <2>2. QED
      BY <1>1, <1>3, <1>5, <2>1 DEF MachineAndFlow
  <1>9. ByWindow'
    <2>1. ASSUME "unlock" \notin Requests PROVE OnlyCounted'
      <3>1. unanswered <= Window /\ Length("toSerial") + Replies + Credit <= unanswered + Limit
        BY <2>1 DEF ByWindow, OnlyCounted
      <3>2. Length("toSerial") + r + Credit <= unanswered + Limit
        BY <1>3, <1>4, <3>1
      <3>3. QED
        BY <1>1, <1>2, <1>3, <1>5, <3>1, <3>2 DEF OnlyCounted
    <2>2. QED
      BY <2>1 DEF ByWindow
  <1>10. ByStatus'
    <2>1. ASSUME "queued" \notin Requests PROVE OnlyStatus' /\ FlowAndSerial'
      <3>1. /\ Coming + Printed + InFlow + waiting + InSerial <= plugs
            /\ Length("toSerial") + Length("fromSerial") + Rest("serial") + Coming + Printed
                   + InFlow + waiting <= Hwm + 2 + plugs + Rest("flow")
        BY <2>1 DEF ByStatus, OnlyStatus, FlowAndSerial
      <3>2. c + p + InFlow + waiting + InSerial <= plugs
        BY <1>3, <1>4, <3>1
      <3>3. Length("toSerial") + Length("fromSerial") + Rest("serial") + c + p
                   + InFlow + waiting <= Hwm + 2 + plugs + Rest("flow")
        BY <1>3, <1>4, <3>1
      <3>4. OnlyStatus'
        BY <1>3, <1>5, <3>2 DEF OnlyStatus
      <3>5. FlowAndSerial'
        BY <1>1, <1>3, <1>5, <3>3 DEF FlowAndSerial
      <3>6. QED
        BY <3>4, <3>5
    <2>2. QED
      BY <2>1 DEF ByStatus
  <1>11. QED
    BY <1>6, <1>7, <1>8, <1>9, <1>10

LEMMA UnsentShortened ==
    ASSUME ThreadTypes, FewUnsent, \A actor \in Actor : Rest(actor)' = Rest(actor),
           \A ch \in Channels \ {"internal"} : Shortened(Pending'[ch], Pending[ch]),
           Size(work["reader"])' \in Nat, Size(work["reader"])' <= 1
    PROVE  FewUnsent'
  <1>1. ASSUME NEW ch \in Channels \ {"internal"}
        PROVE  /\ Unsent(ch)' <= Unsent(ch) /\ Unsent(ch)' \in Nat /\ Unsent(ch) \in Nat
               /\ \A T : /\ Count(T, Pending[ch])' \in Nat
                         /\ Unsent(ch) <= 1 + Count(T, Pending[ch])
                                => Unsent(ch)' <= 1 + Count(T, Pending[ch])'
    <2> DEFINE old == Pending[ch]
               new == Pending'[ch]
    <2>1. old \in Seq(Messages) /\ Shortened(new, old)
      BY SentTypes
    <2>2. Unsent(ch) = Size(old) /\ Unsent(ch)' = Size(new)
          /\ \A T : Count(T, Pending[ch])' = Count(T, new)
      BY DEF Unsent, Size, Count
    <2> HIDE DEF old, new
    <2>3. /\ Size(new) <= Size(old) /\ Size(new) \in Nat /\ Size(old) \in Nat
          /\ \A T : /\ Count(T, new) \in Nat /\ Count(T, old) \in Nat
                    /\ Size(old) <= 1 + Count(T, old) => Size(new) <= 1 + Count(T, new)
      BY <2>1, ShortenedNumbers
    <2>4. QED
      BY <2>2, <2>3 DEF old
  <1>2. /\ "toContext" \in Channels \ {"internal"} /\ "toMachine" \in Channels \ {"internal"}
        /\ "toParent" \in Channels \ {"internal"} /\ "fromSerial" \in Channels \ {"internal"}
        /\ "toSerial" \in Channels \ {"internal"} /\ "toFlow" \in Channels \ {"internal"}
    BY Names
  <1>3. /\ Rest("machine")' = Rest("machine") /\ Rest("flow")' = Rest("flow")
        /\ Rest("serial")' = Rest("serial")
    BY Names
  <1>4. Rest("machine") \in Nat /\ Rest("flow") \in Nat /\ Rest("serial") \in Nat
    <2>1. todo["machine"] \in Seq(Channels) /\ todo["flow"] \in Seq(Channels) /\ todo["serial"] \in Seq(Channels)
      BY Names DEF ThreadTypes
    <2>2. QED
      BY <2>1, LenProperties DEF Rest, Size
  <1>5. PICK a \in Nat, b \in Nat, c \in Nat, d \in Nat :
            /\ Unsent("toContext")' = a /\ a <= Unsent("toContext") /\ Unsent("toContext") \in Nat
            /\ Unsent("toMachine")' = b /\ b <= Unsent("toMachine") /\ Unsent("toMachine") \in Nat
            /\ Unsent("toParent")' = c /\ c <= Unsent("toParent") /\ Unsent("toParent") \in Nat
            /\ Unsent("fromSerial")' = d /\ d <= Unsent("fromSerial") /\ Unsent("fromSerial") \in Nat
    BY <1>1, <1>2
  <1>6. /\ Unsent("toContext") + Rest("machine") <= 1 /\ Unsent("toMachine") <= 1
        /\ Unsent("toParent") + Rest("flow") <= 1 /\ Unsent("fromSerial") + Rest("serial") <= 1
        /\ Unsent("toSerial") <= 1 + Count(Queued, Pending["toSerial"])
        /\ Unsent("toFlow") <= 1 + Count(Enable, Pending["toFlow"])
    BY DEF FewUnsent
  <1>7. /\ a + Rest("machine") <= 1 /\ b <= 1 /\ c + Rest("flow") <= 1 /\ d + Rest("serial") <= 1
    BY <1>4, <1>5, <1>6
  <1>8. /\ (Unsent("toContext") + Rest("machine") <= 1)' /\ (Unsent("toMachine") <= 1)'
        /\ (Unsent("toParent") + Rest("flow") <= 1)' /\ (Unsent("fromSerial") + Rest("serial") <= 1)'
    BY <1>3, <1>5, <1>7
  <1>9. /\ Unsent("toSerial")' <= 1 + Count(Queued, Pending["toSerial"])'
        /\ Unsent("toFlow")' <= 1 + Count(Enable, Pending["toFlow"])'
    BY <1>1, <1>2, <1>6
  <1>10. QED
    BY <1>8, <1>9 DEF FewUnsent

\* A step that moves nothing between the actors and begins no send to one.
Calm ==
    /\ todo' = todo
    /\ \A ch \in Channels \ {"router", "internal"} : Keeps(ch)
    /\ \A ch \in Channels \ {"internal"} : Shortened(Pending'[ch], Pending[ch])
    /\ Size(work["reader"])' \in Nat /\ Size(work["reader"])' <= 1
    /\ waiting' = waiting /\ unanswered' = unanswered /\ plugs' = plugs
    /\ Coming' \in Nat /\ Printed' \in Nat /\ Replies' \in Nat
    /\ Coming' + Printed' <= Coming + Printed
    /\ Replies' <= Replies /\ Reported' = Reported

LEMMA CalmBounds ==
    ASSUME Inv, Calm, DeviceAndReader'
    PROVE  Bounds'
  <1>1. /\ StateTypes /\ ThreadTypes /\ FewUnsent /\ Startups /\ ContextAndMachine
        /\ MachineAndFlow /\ ByWindow /\ ByStatus
    BY DEF Inv, Bounds, StateTypes
  <1>2. \A actor \in Actor : Rest(actor)' = Rest(actor)
    BY DEF Calm, Rest
  <1>3. \A ch \in Channels \ {"router", "internal"} :
            Length(ch)' = Length(ch) /\ \A T : Amount(T, ch)' = Amount(T, ch)
    BY Kept DEF Calm
  <1>4. Enabled' = Enabled /\ InFlow' = InFlow /\ InSerial' = InSerial
    BY <1>3, Names DEF Enabled, InFlow, InSerial
  <1>5. Settles
    BY <1>2, <1>3, <1>4 DEF Settles, Calm
  <1>6. FewUnsent'
    BY <1>1, <1>2, UnsentShortened DEF Calm
  <1>7. QED
    BY <1>1, <1>5, <1>6, SettledNumbers DEF Bounds

\* The destructors close sockets after they have joined the thread.
LEMMA JoinedMore ==
    ASSUME NEW s, NEW done, NEW more, done \subseteq more, Joined(s, done)
    PROVE  Joined(s, more)
  BY DEF Joined

LEMMA JoinedRest ==
    ASSUME NEW s \in Seq(Ops), s # <<>>, NEW done, Joined(s, done),
           Head(s).do = "join" => Head(s).thread \in done
    PROVE  Joined(Tail(s), done) /\ (Head(s).do = "close" => Head(s).thread \in done)
  <1> DEFINE t == Tail(s)
  <1>1. /\ Len(t) = Len(s) - 1 /\ Len(s) \in Nat /\ Len(s) > 0 /\ Head(s) = s[1]
        /\ \A i \in 1..(Len(s) - 1) : t[i] = s[i + 1]
    BY TailIsSeq
  <1>2. \A i \in 1..Len(s) : s[i].do = "close" =>
            \/ s[i].thread \in done
            \/ \E j \in 1..(i - 1) : s[j] = Join(s[i].thread)
    BY DEF Joined
  <1> HIDE DEF t
  <1>3. ASSUME NEW i \in 1..Len(t), t[i].do = "close"
        PROVE  t[i].thread \in done \/ \E j \in 1..(i - 1) : t[j] = Join(t[i].thread)
    <2> DEFINE op == t[i]
    <2>1. i + 1 \in 1..Len(s) /\ op = s[i + 1] /\ i \in Nat /\ i <= Len(s) - 1
      BY <1>1
    <2>2. op.do = "close"
      BY <1>3
    <2> HIDE DEF op
    <2>3. op.thread \in done \/ \E j \in 1..i : s[j] = Join(op.thread)
      <3>1. (i + 1) - 1 = i
        BY <2>1
      <3>2. QED
        BY <1>2, <2>1, <2>2, <3>1
    <2>4. ASSUME NEW j \in 1..i, s[j] = Join(op.thread)
          PROVE  op.thread \in done \/ \E k \in 1..(i - 1) : t[k] = Join(op.thread)
      <3>1. CASE j = 1
        <4>1. Head(s).do = "join" /\ Head(s).thread = op.thread
          BY <1>1, <2>4, <3>1 DEF Join
        <4>2. QED
          BY <4>1
      <3>2. CASE j # 1
        <4>1. j - 1 \in 1..(i - 1) /\ j - 1 \in 1..(Len(s) - 1) /\ (j - 1) + 1 = j
          BY <2>1, <1>1, <3>2
        <4>2. t[j - 1] = s[j]
          BY <1>1, <4>1
        <4>3. QED
          BY <2>4, <4>1, <4>2
      <3>3. QED
        BY <3>1, <3>2
    <2>5. QED
      BY <2>3, <2>4 DEF op
  <1>4. Joined(t, done)
    BY <1>3 DEF Joined
  <1>5. Head(s).do = "close" => Head(s).thread \in done
    <2>1. 1 \in 1..Len(s) /\ ~ \E j \in 1..(1 - 1) : TRUE
      BY <1>1
    <2>2. QED
      BY <1>1, <1>2, <2>1
  <1>6. QED
    BY <1>4, <1>5 DEF t

LEMMA WorkReturned ==
    ASSUME ThreadTypes, Returned, NEW thread \in Threads, Do(thread)
    PROVE  Returned'
  <1> DEFINE ops == work[thread]
             op  == Head(ops)
  <1>1. /\ ops # <<>> /\ work'[thread] = Tail(ops)
        /\ \A other \in Threads : other # thread => work'[other] = work[other]
    BY DoMoves
  <1>2. ops \in Seq(Ops) /\ ops \in Seq(Duties[thread])
    BY DEF ThreadTypes, WorkTypes
  <1>3. op \in Duties[thread] /\ op \in Ops
    BY <1>1, <1>2, TailIsSeq
  <1>4. /\ op.do = "join" => op.thread \in ended
        /\ ended' = IF op.do = "start" THEN ended \ {op.thread} ELSE ended
        /\ closed' = IF op.do = "close" THEN closed \cup {op.thread} ELSE closed
    BY DEF Do, Blocked, Ready
  <1>5. /\ closed \subseteq ended /\ Joined(work["api"], ended)
        /\ \A t \in ended : work[t] = <<>>
        /\ ended \subseteq Threads \ {"api"} /\ closed \subseteq Actor
    BY DEF Returned, ThreadTypes
  <1> HIDE DEF op
  <1>6. op.do = "start" => thread = "serial" /\ op.thread = "reader"
    <2>1. ASSUME op.do = "start" PROVE thread = "serial" /\ op.thread = "reader"
      <3>1. \/ thread = "context" /\ op = Stop("context")
            \/ thread = "serial" /\ op \in {Stop("reader"), Join("reader"), Start("reader")}
            \/ thread = "api" /\ op.do # "start"
        BY <1>3, <2>1, DutyToControl
      <3>2. QED
        BY <2>1, <3>1 DEF Stop, Join, Start
    <2>2. QED
      BY <2>1
  <1>7. op.do = "close" => thread = "api"
    <2>1. ASSUME op.do = "close" PROVE thread = "api"
      <3>1. \/ thread = "context" /\ op = Stop("context")
            \/ thread = "serial" /\ op \in {Stop("reader"), Join("reader"), Start("reader")}
            \/ thread = "api"
        BY <1>3, <2>1, DutyToControl
      <3>2. QED
        BY <2>1, <3>1 DEF Stop, Join, Start
    <2>2. QED
      BY <2>1
  <1>8. ASSUME thread = "api"
        PROVE  Joined(Tail(ops), ended) /\ (op.do = "close" => op.thread \in ended)
    <2>1. Joined(ops, ended)
      BY <1>5, <1>8
    <2>2. QED
      BY <1>1, <1>2, <1>4, <2>1, JoinedRest DEF op
  <1>9. closed' \subseteq ended'
    <2>1. CASE op.do = "start"
      BY <1>4, <1>5, <1>6, <2>1, Names
    <2>2. CASE op.do # "start"
      BY <1>4, <1>5, <1>7, <1>8, <2>2
    <2>3. QED
      BY <2>1, <2>2
  <1>10. \A t \in ended' : work'[t] = <<>>
    <2>1. thread \notin ended
      BY <1>1, <1>5
    <2>2. QED
      BY <1>1, <1>4, <1>5, <2>1
  <1>11. Joined(work'["api"], ended')
    <2>1. CASE thread = "api"
      <3>1. op.do # "start"
        BY <1>6, <2>1
      <3>2. work'["api"] = Tail(ops) /\ ended' = ended
        BY <1>1, <1>4, <2>1, <3>1
      <3>3. QED
        BY <1>8, <2>1, <3>2
    <2>2. CASE thread # "api"
      <3>1. work'["api"] = work["api"]
        BY <1>1, <2>2, Names
      <3>2. CASE op.do # "start"
        BY <1>4, <1>5, <3>1, <3>2
      <3>3. CASE op.do = "start"
        <4> DEFINE s == work["api"]
                   fewer == ended \ {"reader"}
        <4>1. ended' = fewer
          BY <1>4, <1>6, <3>3
        <4>2. s \in Seq(Duties["api"])
          BY Names DEF ThreadTypes, WorkTypes
        <4>3. \A i \in 1..Len(s) : s[i].do = "close" => s[i].thread # "reader"
          <5>1. ASSUME NEW i \in 1..Len(s), s[i].do = "close" PROVE s[i].thread # "reader"
            <6>1. s[i] \in Duties["api"]
              BY <4>2, ElementOfSeq
            <6>2. s[i].thread \in Actor
              BY <5>1, <6>1, DutyToControl, Names DEF Stop, Join, Start
            <6>3. QED
              BY <6>2, Names
          <5>2. QED
            BY <5>1
        <4>4. Joined(s, ended)
          BY <1>5
        <4> HIDE DEF s
        <4>5. Joined(s, fewer)
          BY <4>3, <4>4 DEF Joined
        <4>6. QED
          BY <3>1, <4>1, <4>5 DEF s
      <3>4. QED
        BY <3>2, <3>3
    <2>3. QED
      BY <2>1, <2>2
  <1>12. QED
    BY <1>9, <1>10, <1>11 DEF Returned

\* What the next step of a thread's work does to the numbers.
LEMMA WorkBoots ==
    ASSUME ThreadTypes, NEW thread \in Threads, Do(thread)
    PROVE  /\ Boots \in Nat /\ Boots' \in Nat
           /\ Head(work[thread]).do = "start" => thread = "serial" /\ Boots = Boots' + 1
           /\ Head(work[thread]).do # "start" => Boots' = Boots
  <1> DEFINE ops == work[thread]
  <1>1. /\ ops # <<>> /\ work'[thread] = Tail(ops)
        /\ \A other \in Threads : other # thread => work'[other] = work[other]
        /\ ThreadTypes'
    BY DoMoves
  <1>2. /\ ops \in Seq(Ops) /\ ops \in Seq(Duties[thread]) /\ Tail(ops) \in Seq(Ops)
        /\ work["serial"] \in Seq(Ops) /\ work'["serial"] \in Seq(Ops)
    BY <1>1, Names, TailIsSeq DEF ThreadTypes, WorkTypes
  <1>3. Head(ops) \in Duties[thread]
    BY <1>1, <1>2, TailIsSeq
  <1>4. Head(ops).do = "start" => thread = "serial"
    <2>1. ASSUME Head(ops).do = "start" PROVE thread = "serial"
      <3>1. \/ thread = "context" /\ Head(ops) = Stop("context")
            \/ thread = "serial"
        BY <1>3, <2>1, DutyToControl
      <3>2. QED
        BY <2>1, <3>1 DEF Stop
    <2>2. QED
      BY <2>1
  <1>5. Boots = Boot(work["serial"]) /\ Boots' = Boot(work'["serial"])
    BY DEF Boots
  <1> HIDE DEF ops
  <1>6. /\ Head(ops).do = "start" => Boot(ops) = Boot(Tail(ops)) + 1
        /\ Head(ops).do # "start" => Boot(ops) = Boot(Tail(ops))
    BY <1>1, <1>2, Booting
  <1>7. Boots \in Nat /\ Boots' \in Nat
    BY <1>2, <1>5, Booting
  <1>8. CASE thread = "serial"
    <2>1. Boots = Boot(ops) /\ Boots' = Boot(Tail(ops))
      BY <1>1, <1>5, <1>8 DEF ops
    <2>2. QED
      BY <1>6, <1>7, <1>8, <2>1 DEF ops
  <1>9. CASE thread # "serial"
    <2>1. Boots' = Boots
      BY <1>1, <1>5, <1>9, Names
    <2>2. QED
      BY <1>4, <1>7, <1>9, <2>1 DEF ops
  <1>10. QED
    BY <1>8, <1>9

\* The lines that are lost with the port, and the one that a new port begins with.
LEMMA FreshLines ==
    ASSUME NEW new \in {<<>>, <<"startup">>}
    PROVE  /\ new \in Seq(Lines) /\ new \in Seq(Messages)
           /\ Size(new) \in Nat /\ Size(new) <= 1
           /\ Count(Startup, new) \in Nat /\ Count(Startup, new) <= 1
           /\ Count(Queued, new) = 0
  <1>1. new \in Seq(Lines) /\ new \in Seq(Messages)
    <2>1. "startup" \in Lines /\ "startup" \in Messages
      BY DEF Lines, Messages
    <2>2. /\ <<>> \in Seq(Lines) /\ <<"startup">> \in Seq(Lines)
          /\ <<>> \in Seq(Messages) /\ <<"startup">> \in Seq(Messages)
      BY <2>1
    <2>3. QED
      BY <2>2
  <1>2. CASE new = <<>>
    BY <1>1, <1>2, Amounts
  <1>3. CASE new = <<"startup">>
    <2>1. Size(new) = 1
      BY <1>3, Amounts
    <2>2. Count(Startup, new) = Weight(Startup, "startup") /\ Count(Queued, new) = Weight(Queued, "startup")
      BY <1>3 DEF Weight
    <2>3. Weight(Startup, "startup") = 1 /\ Weight(Queued, "startup") = 0
      BY Singles DEF Messages
    <2>4. QED
      BY <1>1, <2>1, <2>2, <2>3
  <1>4. QED
    BY <1>2, <1>3

\* The numbers before and after: either nothing has changed, or the port is opened.
LEMMA WorkNumbers ==
    ASSUME StateTypes, NEW thread \in Threads, Works(thread), Elsewhere
    PROVE  /\ lines' \in Seq(Lines) /\ lines' \in Seq(Messages)
           /\ \A ch \in Channels : Keeps(ch)
           /\ Reported' = Reported
           /\ \/ /\ Coming' = Coming /\ Printed' = Printed /\ Replies' = Replies
                 /\ Size(lines)' = Size(lines)
              \/ \E c, p, r, s \in Nat :
                    /\ Coming' = c /\ Printed' = p /\ Replies' = r /\ Size(lines)' = s
                    /\ Coming = c + 1 /\ p <= Printed + 1 /\ r <= Replies /\ s <= 1
  <1>1. ThreadTypes /\ Do(thread) /\ lines \in Seq(Lines) /\ lines \in Seq(Messages)
    BY DEF StateTypes, Works
  <1>2. \A ch \in Channels : Keeps(ch)
    BY <1>1, DoMoves DEF Keeps
  <1>3. \A ch \in Channels : Length(ch)' = Length(ch) /\ \A T : Amount(T, ch)' = Amount(T, ch)
    BY <1>2, Kept
  <1>4. \A ch \in Channels : \A T : Amount(T, ch) \in Nat
    BY Numbers
  <1>5. News' = News /\ Unseen' = Unseen
    BY DEF Elsewhere, News, Unseen
  <1>6. Reported' = Reported
    BY <1>3, <1>5, Names DEF Reported
  <1>7. /\ Boots \in Nat /\ Boots' \in Nat
        /\ Head(work[thread]).do = "start" => thread = "serial" /\ Boots = Boots' + 1
        /\ Head(work[thread]).do # "start" => Boots' = Boots
    BY <1>1, WorkBoots
  <1>8. CASE Head(work[thread]).do # "start"
    <2>1. lines' = lines
      BY <1>8 DEF Works
    <2>2. Boots' = Boots
      BY <1>7, <1>8
    <2>3. Coming' = Coming
      BY <1>3, <1>5, <2>2, Names DEF Coming
    <2>4. Printed' = Printed /\ Replies' = Replies
      <3>1. Count(Startup, lines)' = Count(Startup, lines) /\ Count(Queued, lines)' = Count(Queued, lines)
        BY <2>1 DEF Count
      <3>2. QED
        BY <1>3, <3>1, Names DEF Printed, Replies
    <2>5. Size(lines)' = Size(lines)
      BY <2>1 DEF Size
    <2>6. QED
      BY <1>1, <1>2, <1>6, <2>1, <2>3, <2>4, <2>5
  <1>9. CASE Head(work[thread]).do = "start"
    <2>1. lines' \in {<<>>, <<"startup">>}
      BY <1>9 DEF Works
    <2>2. /\ lines' \in Seq(Lines) /\ lines' \in Seq(Messages)
          /\ Size(lines') \in Nat /\ Size(lines') <= 1
          /\ Count(Startup, lines') \in Nat /\ Count(Startup, lines') <= 1
          /\ Count(Queued, lines') = 0
      BY <2>1, FreshLines
    <2>3. PICK b \in Nat : Boots' = b /\ Boots = b + 1
      BY <1>7, <1>9
    <2> DEFINE x == News + Amount(Added, "router") + Amount(Added, "toMachine")
                         + Amount(Added, "toFlow") + Amount(Added, "toSerial")
               a == Amount(Startup, "internal")
               d == Amount(Startup, "fromSerial")
               e == Amount(Startup, "toParent")
               f == Amount(Queued, "internal")
               g == Amount(Queued, "fromSerial")
    <2>4. x \in Nat /\ a \in Nat /\ d \in Nat /\ e \in Nat /\ f \in Nat /\ g \in Nat
      <3>1. /\ Amount(Added, "router") \in Nat /\ Amount(Added, "toMachine") \in Nat
            /\ Amount(Added, "toFlow") \in Nat /\ Amount(Added, "toSerial") \in Nat /\ News \in Nat
        BY <1>4, Numbers, Names
      <3>2. x \in Nat
        BY <3>1
      <3>3. QED
        BY <1>4, <3>2, Names
    <2>5. x' = x /\ a' = a /\ d' = d /\ e' = e /\ f' = f /\ g' = g
      BY <1>3, <1>5, Names
    <2>6. Coming = x + Boots /\ Coming' = x' + Boots'
      BY DEF Coming
    <2>7. PICK n \in Nat : Count(Startup, lines)' = n /\ n <= 1
      <3>1. Count(Startup, lines)' = Count(Startup, lines')
        BY DEF Count
      <3>2. QED
        BY <2>2, <3>1
    <2>8. Count(Startup, lines) \in Nat /\ Count(Queued, lines) \in Nat
      BY Numbers
    <2>9. Printed = Count(Startup, lines) + a + d + e /\ Printed' = n + a' + d' + e'
      BY <2>7 DEF Printed
    <2>10. Replies = Count(Queued, lines) + f + g /\ Replies' = 0 + f' + g'
      <3>1. Count(Queued, lines)' = Count(Queued, lines')
        BY DEF Count
      <3>2. QED
        BY <2>2, <3>1 DEF Replies
    <2>11. PICK s \in Nat : Size(lines)' = s /\ s <= 1
      <3>1. Size(lines)' = Size(lines')
        BY DEF Size
      <3>2. QED
        BY <2>2, <3>1
    <2> HIDE DEF x, a, d, e, f, g
    <2>12. /\ Coming' = x + b /\ Coming = (x + b) + 1 /\ x + b \in Nat
      <3>1. Coming' = x + b
        BY <2>3, <2>5, <2>6
      <3>2. Coming = x + (b + 1)
        BY <2>3, <2>6
      <3>3. QED
        BY <2>4, <3>1, <3>2
    <2>13. /\ Printed' = n + a + d + e /\ n + a + d + e <= Printed + 1 /\ n + a + d + e \in Nat
      <3>1. Printed' = n + a + d + e
        BY <2>5, <2>9
      <3>2. n + a + d + e <= (Count(Startup, lines) + a + d + e) + 1 /\ n + a + d + e \in Nat
        BY <2>4, <2>7, <2>8
      <3>3. QED
        BY <2>9, <3>1, <3>2
    <2>14. /\ Replies' = f + g /\ f + g <= Replies /\ f + g \in Nat
      <3>1. Replies' = 0 + f + g
        BY <2>5, <2>10
      <3>2. 0 + f + g = f + g /\ f + g <= Count(Queued, lines) + f + g /\ f + g \in Nat
        BY <2>4, <2>8
      <3>3. QED
        BY <2>10, <3>1, <3>2
    <2>15. QED
      BY <1>2, <1>6, <2>2, <2>11, <2>12, <2>13, <2>14
  <1>10. QED
    BY <1>8, <1>9

LEMMA WorkSteps ==
    ASSUME Inv, NEW thread \in Threads, Works(thread), Elsewhere,
           waiting' = waiting, unanswered' = unanswered
    PROVE  Inv'
  <1>1. /\ StateTypes /\ ThreadTypes /\ FewUnsent /\ DeviceAndReader /\ Returned
        /\ Do(thread)
    BY DEF Inv, StateTypes, Bounds, Works
  <1>2. /\ ThreadTypes' /\ todo' = todo
        /\ \A ch \in Channels : Shortened(Pending'[ch], Pending[ch])
        /\ work[thread] # <<>> /\ work'[thread] = Tail(work[thread])
        /\ \A other \in Threads : other # thread => work'[other] = work[other]
    BY <1>1, DoMoves
  <1>3. /\ lines' \in Seq(Lines) /\ lines' \in Seq(Messages)
        /\ \A ch \in Channels : Keeps(ch)
        /\ Reported' = Reported
        /\ \/ /\ Coming' = Coming /\ Printed' = Printed /\ Replies' = Replies
              /\ Size(lines)' = Size(lines)
           \/ \E c, p, r, s \in Nat :
                 /\ Coming' = c /\ Printed' = p /\ Replies' = r /\ Size(lines)' = s
                 /\ Coming = c + 1 /\ p <= Printed + 1 /\ r <= Replies /\ s <= 1
    BY <1>1, WorkNumbers
  <1>4. /\ Coming \in Nat /\ Printed \in Nat /\ Replies \in Nat /\ Size(lines) \in Nat
        /\ Length("internal") \in Nat /\ Backlog \in Nat /\ plugs \in Nat
    BY <1>1, Numbers, Names
  <1>5. PICK c \in Nat, p \in Nat, r \in Nat, s \in Nat :
            /\ Coming' = c /\ Printed' = p /\ Replies' = r /\ Size(lines)' = s
            /\ c + p <= Coming + Printed /\ r <= Replies /\ s + c <= Size(lines) + Coming
    <2>1. CASE /\ Coming' = Coming /\ Printed' = Printed /\ Replies' = Replies
               /\ Size(lines)' = Size(lines)
      <3>1. /\ Coming + Printed <= Coming + Printed /\ Replies <= Replies
            /\ Size(lines) + Coming <= Size(lines) + Coming
        BY <1>4
      <3>2. QED
        BY <1>4, <2>1, <3>1
    <2>2. CASE \E c, p, r, s \in Nat :
                 /\ Coming' = c /\ Printed' = p /\ Replies' = r /\ Size(lines)' = s
                 /\ Coming = c + 1 /\ p <= Printed + 1 /\ r <= Replies /\ s <= 1
      <3>1. PICK c \in Nat, p \in Nat, r \in Nat, s \in Nat :
                 /\ Coming' = c /\ Printed' = p /\ Replies' = r /\ Size(lines)' = s
                 /\ Coming = c + 1 /\ p <= Printed + 1 /\ r <= Replies /\ s <= 1
        BY <2>2
      <3>2. c + p <= Coming + Printed /\ s + c <= Size(lines) + Coming
        BY <1>4, <3>1
      <3>3. QED
        BY <3>1, <3>2
    <2>3. QED
      BY <1>3, <2>1, <2>2
  <1>6. Size(work["reader"])' \in Nat /\ Size(work["reader"])' <= 1
    <2>1. work["reader"] \in Seq(Ops) /\ work'["reader"] \in Seq(Ops)
      BY <1>1, <1>2, Names DEF ThreadTypes, WorkTypes
    <2> DEFINE old == work["reader"]
               new == work'["reader"]
    <2>2. Size(old) <= 1 /\ Size(work["reader"])' = Size(new)
      BY <1>1 DEF FewUnsent, Size
    <2>3. new = old \/ (old # <<>> /\ new = Tail(old))
      BY <1>2, Names
    <2>4. old \in Seq(Ops) /\ new \in Seq(Ops)
      BY <2>1
    <2> HIDE DEF old, new
    <2>5. Size(new) \in Nat /\ Size(new) <= Size(old) /\ Size(old) \in Nat
      <3>1. Len(old) \in Nat /\ Len(new) \in Nat
        BY <2>4, LenProperties
      <3>2. old # <<>> /\ new = Tail(old) => Len(new) = Len(old) - 1
        BY <2>4, TailIsSeq
      <3>3. Len(new) <= Len(old)
        BY <2>3, <3>1, <3>2
      <3>4. QED
        BY <3>1, <3>3 DEF Size
    <2>6. Size(new) <= 1
      BY <2>2, <2>5
    <2>7. QED
      BY <2>2, <2>5, <2>6
  <1>7. Calm
    <2>1. plugs' = plugs
      BY DEF Elsewhere
    <2>2. /\ Coming' \in Nat /\ Printed' \in Nat /\ Replies' \in Nat
          /\ Coming' + Printed' <= Coming + Printed /\ Replies' <= Replies
      BY <1>5
    <2>3. QED
      BY <1>2, <1>3, <1>6, <2>1, <2>2 DEF Calm
  <1>8. DeviceAndReader'
    <2>1. Length("internal")' = Length("internal")
      BY <1>3, Kept, Names
    <2>2. s + Length("internal") + c <= Backlog + plugs
      BY <1>1, <1>4, <1>5 DEF DeviceAndReader
    <2>3. plugs' = plugs
      BY DEF Elsewhere
    <2>4. QED
      BY <1>5, <2>1, <2>2, <2>3 DEF DeviceAndReader
  <1>9. Bounds'
    BY <1>7, <1>8, CalmBounds
  <1>10. Returned'
    BY <1>1, WorkReturned
  <1>11. StateTypes'
    BY <1>1, <1>2, <1>3 DEF StateTypes, Elsewhere
  <1>12. QED
    BY <1>9, <1>10, <1>11 DEF Inv

\* What counts is what the actors, the reader and the device do.
Resting ==
    /\ UNCHANGED <<channel, todo, lines, plugged, known, plugs, waiting, unanswered>>
    /\ \A thread \in Threads \ {"api"} : work'[thread] = work[thread]

LEMMA StillSent ==
    ASSUME \A thread \in Threads \ {"api"} : work'[thread] = work[thread]
    PROVE  Pending' = Pending /\ Boots' = Boots /\ work'["reader"] = work["reader"]
  <1>1. \A ch \in Channels : Writer[ch] \in Threads \ {"api"}
    BY Wiring, Names
  <1>2. \A ch \in Channels : work'[Writer[ch]] = work[Writer[ch]]
    BY <1>1
  <1>3. \A ch \in Channels : Out(ch, work'[Writer[ch]]) = Out(ch, work[Writer[ch]])
    BY <1>2
  <1>4. Pending' = [ch \in Channels |-> Out(ch, work'[Writer[ch]])]
    BY DEF Pending
  <1>5. Pending' = Pending
    BY <1>3, <1>4 DEF Pending
  <1>6. work'["serial"] = work["serial"] /\ work'["reader"] = work["reader"]
    BY Names
  <1>7. QED
    BY <1>5, <1>6 DEF Boots

LEMMA RestingBounds ==
    ASSUME Bounds, Resting
    PROVE  Bounds'
  <1>1. Pending' = Pending /\ Boots' = Boots /\ work'["reader"] = work["reader"]
    BY StillSent DEF Resting
  <1>2. Sent' = Sent
    BY <1>1 DEF Sent, Resting
  <1>3. News' = News /\ Unseen' = Unseen /\ lines' = lines /\ plugs' = plugs
        /\ waiting' = waiting /\ unanswered' = unanswered /\ todo' = todo
    BY DEF Resting, News, Unseen
  <1>4. /\ \A ch : Length(ch)' = Length(ch) /\ Unsent(ch)' = Unsent(ch)
        /\ \A T, ch : Amount(T, ch)' = Amount(T, ch) /\ Count(T, Pending[ch])' = Count(T, Pending[ch])
        /\ \A T : Count(T, lines)' = Count(T, lines)
        /\ \A actor : Rest(actor)' = Rest(actor)
        /\ Size(lines)' = Size(lines) /\ Size(work["reader"])' = Size(work["reader"])
    BY <1>1, <1>2, <1>3 DEF Length, Unsent, Amount, Rest, Size, Count
  <1>5. /\ Coming' = Coming /\ Printed' = Printed /\ Reported' = Reported /\ Replies' = Replies
        /\ Enabled' = Enabled /\ InFlow' = InFlow /\ InSerial' = InSerial
    BY <1>1, <1>3, <1>4 DEF Coming, Printed, Reported, Replies, Enabled, InFlow, InSerial
  <1>6. Credit' = Credit /\ Limit' = Limit
    BY <1>3, <1>5 DEF Credit, Limit
  <1>7. FewUnsent' /\ Startups' /\ ContextAndMachine' /\ MachineAndFlow' /\ DeviceAndReader'
    BY <1>3, <1>4, <1>5 DEF Bounds, FewUnsent, Startups, ContextAndMachine, MachineAndFlow, DeviceAndReader
  <1>8. ByWindow' /\ ByStatus'
    BY <1>3, <1>4, <1>5, <1>6 DEF Bounds, ByWindow, ByStatus, OnlyCounted, OnlyStatus, FlowAndSerial
  <1>9. QED
    BY <1>7, <1>8 DEF Bounds

LEMMA ReturnSteps ==
    ASSUME Inv, NEW thread \in Threads, Return(thread),
           UNCHANGED <<lines, plugged, known, plugs, waiting, unanswered>>
    PROVE  Inv'
  <1>1. /\ StateTypes /\ ThreadTypes /\ Bounds /\ Returned
    BY DEF Inv, StateTypes
  <1>2. /\ channel' = channel /\ todo' = todo /\ work' = work /\ running' = running /\ closed' = closed
        /\ ended' = ended \cup {thread} /\ work[thread] = <<>> /\ thread # "api"
    BY DEF Return, Idle
  <1>3. Bounds'
    BY <1>1, <1>2, RestingBounds DEF Resting
  <1>4. ThreadTypes'
    BY <1>1, <1>2 DEF ThreadTypes, ChannelTypes, WorkTypes
  <1>5. StateTypes'
    BY <1>1, <1>4 DEF StateTypes
  <1>6. Returned'
    <2>1. Joined(work["api"], ended')
      BY <1>1, <1>2, JoinedMore DEF Returned
    <2>2. QED
      BY <1>1, <1>2, <2>1 DEF Returned
  <1>7. QED
    BY <1>3, <1>5, <1>6 DEF Inv

LEMMA UnchangedSteps ==
    ASSUME Inv, UNCHANGED <<actorVars, lines, plugged, known, plugs, waiting, unanswered>>
    PROVE  Inv'
  <1>1. /\ StateTypes /\ ThreadTypes /\ Bounds /\ Returned
    BY DEF Inv, StateTypes
  <1>2. /\ channel' = channel /\ todo' = todo /\ work' = work /\ running' = running /\ closed' = closed
        /\ ended' = ended
    BY DEF actorVars
  <1>3. Bounds'
    BY <1>1, <1>2, RestingBounds DEF Resting
  <1>4. ThreadTypes'
    BY <1>1, <1>2 DEF ThreadTypes, ChannelTypes, WorkTypes
  <1>5. StateTypes'
    BY <1>1, <1>4 DEF StateTypes
  <1>6. Returned'
    BY <1>1, <1>2 DEF Returned, Joined
  <1>7. QED
    BY <1>3, <1>5, <1>6 DEF Inv

-----------------------------------------------------------------------------
(* What the destructors do *)

\* A list of operations of close_context that closes sockets of the threads `needs'
\* or of those it has joined, and joins the threads `gives'.
Destroys(s, needs, gives) ==
    /\ s \in Seq(Duties["api"])
    /\ Joined(s, needs)
    /\ \A thread \in gives : \E i \in 1..Len(s) : s[i] = Join(thread)

LEMMA ThenDestroys ==
    ASSUME NEW s, NEW t, NEW needs, NEW gives, NEW more, NEW joins,
           Destroys(s, needs, gives), Destroys(t, more, joins), more \subseteq needs \cup gives
    PROVE  Destroys(s \o t, needs, gives \cup joins)
  <1> DEFINE S == Duties["api"]
             u == s \o t
  <1>1. /\ s \in Seq(S) /\ t \in Seq(S)
        /\ \A i \in 1..Len(s) : s[i].do = "close" =>
               s[i].thread \in needs \/ \E j \in 1..(i - 1) : s[j] = Join(s[i].thread)
        /\ \A i \in 1..Len(t) : t[i].do = "close" =>
               t[i].thread \in more \/ \E j \in 1..(i - 1) : t[j] = Join(t[i].thread)
        /\ \A thread \in gives : \E i \in 1..Len(s) : s[i] = Join(thread)
        /\ \A thread \in joins : \E i \in 1..Len(t) : t[i] = Join(thread)
    BY DEF Destroys, Joined
  <1> HIDE DEF S
  <1>2. /\ u \in Seq(S) /\ Len(u) = Len(s) + Len(t) /\ Len(s) \in Nat /\ Len(t) \in Nat
        /\ \A i \in 1..(Len(s) + Len(t)) : u[i] = IF i <= Len(s) THEN s[i] ELSE t[i - Len(s)]
    BY <1>1, ConcatProperties, LenProperties
  <1> HIDE DEF u
  <1>3. PICK k \in Nat, l \in Nat : k = Len(s) /\ l = Len(t)
    BY <1>2
  <1>4. /\ \A i \in 1..k : i \in 1..(k + l) /\ u[i] = s[i]
        /\ \A i \in 1..l : k + i \in 1..(k + l) /\ u[k + i] = t[i]
        /\ \A i \in 1..(k + l) : i \in 1..k \/ (i - k \in 1..l /\ u[i] = t[i - k])
    <2>1. \A i \in 1..(k + l) : u[i] = IF i <= k THEN s[i] ELSE t[i - k]
      BY <1>2, <1>3
    <2>2. \A i \in 1..k : i \in 1..(k + l) /\ i <= k
      OBVIOUS
    <2>3. \A i \in 1..l : k + i \in 1..(k + l) /\ ~(k + i <= k) /\ (k + i) - k = i
      OBVIOUS
    <2>4. \A i \in 1..(k + l) : i \in 1..k \/ (i - k \in 1..l /\ ~(i <= k))
      OBVIOUS
    <2>5. QED
      BY <2>1, <2>2, <2>3, <2>4
  <1>5. ASSUME NEW thread \in gives \cup joins
        PROVE  \E i \in 1..(k + l) : u[i] = Join(thread)
    <2>1. CASE thread \in gives
      <3>1. PICK i \in 1..k : s[i] = Join(thread)
        BY <1>1, <1>3, <2>1
      <3>2. QED
        BY <1>4, <3>1
    <2>2. CASE thread \in joins
      <3>1. PICK i \in 1..l : t[i] = Join(thread)
        BY <1>1, <1>3, <2>2
      <3>2. k + i \in 1..(k + l) /\ u[k + i] = t[i]
        BY <1>4
      <3>3. QED
        BY <3>1, <3>2
    <2>3. QED
      BY <2>1, <2>2
  <1>6. ASSUME NEW i \in 1..(k + l), u[i].do = "close"
        PROVE  u[i].thread \in needs \/ \E j \in 1..(i - 1) : u[j] = Join(u[i].thread)
    <2>1. CASE i \in 1..k
      <3>1. u[i] = s[i]
        BY <1>4, <2>1
      <3>2. s[i].thread \in needs \/ \E j \in 1..(i - 1) : s[j] = Join(s[i].thread)
        BY <1>1, <1>3, <1>6, <2>1, <3>1
      <3>3. \A j \in 1..(i - 1) : j \in 1..k
        BY <2>1
      <3>4. QED
        BY <1>4, <3>1, <3>2, <3>3
    <2>2. CASE i - k \in 1..l /\ u[i] = t[i - k]
      <3>1. PICK n \in 1..l : n = i - k /\ u[i] = t[n]
        BY <2>2
      <3>2. t[n].thread \in more \/ \E j \in 1..(n - 1) : t[j] = Join(t[n].thread)
        BY <1>1, <1>3, <1>6, <3>1
      <3>3. ASSUME t[n].thread \in gives
            PROVE  \E j \in 1..(i - 1) : u[j] = Join(t[n].thread)
        <4>1. PICK j \in 1..k : s[j] = Join(t[n].thread)
          BY <1>1, <1>3, <3>3
        <4>2. j \in 1..(i - 1)
          BY <3>1
        <4>3. QED
          BY <1>4, <4>1, <4>2
      <3>4. ASSUME NEW j \in 1..(n - 1), t[j] = Join(t[n].thread)
            PROVE  \E m \in 1..(i - 1) : u[m] = Join(t[n].thread)
        <4>1. j \in 1..l /\ k + j \in 1..(i - 1)
          BY <3>1
        <4>2. u[k + j] = t[j]
          BY <1>4, <4>1
        <4>3. QED
          BY <3>4, <4>1, <4>2
      <3>5. QED
        BY <3>1, <3>2, <3>3, <3>4
    <2>3. QED
      BY <1>4, <2>1, <2>2
  <1>7. QED
    BY <1>1, <1>2, <1>3, <1>5, <1>6 DEF Destroys, Joined, S, u

LEMMA ShutDownDestroys ==
    ASSUME NEW thread \in Threads, thread # "api"
    PROVE  Destroys(ShutDown(thread), {}, {thread})
  <1> DEFINE S == Duties["api"]
             a == Stop(thread)
             b == Join(thread)
             s == <<a, b>>
  <1>1. a \in Destructions /\ b \in Destructions
    BY Names DEF Destructions, Controls, Stop, Join
  <1>2. a \in S /\ b \in S
    BY <1>1, Names DEF Duties, Controlled
  <1>3. a.do # "close" /\ b.do # "close"
    BY DEF Stop, Join
  <1> HIDE DEF S, a, b
  <1>4. s \in Seq(S) /\ Len(s) = 2 /\ s[1] = a /\ s[2] = b
    BY <1>2
  <1>5. 1..Len(s) = {1, 2}
    BY <1>4
  <1> HIDE DEF s
  <1>6. \A i \in 1..Len(s) : s[i].do # "close"
    BY <1>3, <1>4, <1>5
  <1>7. \E i \in 1..Len(s) : s[i] = b
    BY <1>4, <1>5
  <1>8. ShutDown(thread) = s
    BY DEF ShutDown, s, a, b
  <1>9. Destroys(s, {}, {thread})
    BY <1>4, <1>6, <1>7 DEF Destroys, Joined, b, S
  <1>10. QED
    BY <1>8, <1>9

LEMMA CloseDestroys ==
    ASSUME NEW actor \in Actor
    PROVE  Destroys(<<Close(actor)>>, {actor}, {})
  <1> DEFINE S == Duties["api"]
             a == Close(actor)
             s == <<a>>
  <1>1. actor \in Threads /\ actor # "api"
    BY Names
  <1>2. a \in Destructions
    BY <1>1 DEF Destructions, Controls, Close
  <1>3. a \in S
    BY <1>2, Names DEF Duties, Controlled
  <1>4. a.thread = actor
    BY DEF Close
  <1> HIDE DEF S, a
  <1>5. s \in Seq(S) /\ Len(s) = 1 /\ s[1] = a
    BY <1>3
  <1>6. 1..Len(s) = {1}
    BY <1>5
  <1> HIDE DEF s
  <1>7. \A i \in 1..Len(s) : s[i].thread \in {actor}
    BY <1>4, <1>5, <1>6
  <1>8. Destroys(s, {actor}, {})
    BY <1>5, <1>7 DEF Destroys, Joined, S
  <1>9. QED
    BY <1>8 DEF s, a

LEMMA ContextDestroys == Destroys(DestroyContext, {}, {"context", "machine", "hotplug"})
  <1> DEFINE c == ShutDown("context")
             m == ShutDown("machine")
             s == ShutDown("serial")
             r == Disconnect
             f == ShutDown("flow")
             h == ShutDown("hotplug")
             x == <<Close("serial")>>
             y == <<Close("flow")>>
             z == <<Close("machine")>>
             w == <<Close("context")>>
             m2 == m \o s
             m3 == m2 \o r
             m4 == m3 \o x
             m5 == m4 \o f
             m6 == m5 \o y
             m7 == m6 \o z
             c2 == c \o m7
             c3 == c2 \o h
             c4 == c3 \o w
  <1>1. DestroyMachine = m7 /\ DestroyContext = c4
    BY DEF DestroyMachine, DestroyContext
  <1>2. /\ Destroys(c, {}, {"context"}) /\ Destroys(m, {}, {"machine"})
        /\ Destroys(s, {}, {"serial"}) /\ Destroys(f, {}, {"flow"})
        /\ Destroys(h, {}, {"hotplug"}) /\ Destroys(r, {}, {"reader"})
    BY ShutDownDestroys, Names DEF Disconnect
  <1>3. /\ Destroys(x, {"serial"}, {}) /\ Destroys(y, {"flow"}, {})
        /\ Destroys(z, {"machine"}, {}) /\ Destroys(w, {"context"}, {})
    BY CloseDestroys, Names
  <1> HIDE DEF c, m, s, r, f, h, x, y, z, w
  <1>4. Destroys(m2, {}, {"machine"} \cup {"serial"})
    BY <1>2, ThenDestroys
  <1> HIDE DEF m2
  <1>5. Destroys(m3, {}, ({"machine"} \cup {"serial"}) \cup {"reader"})
    BY <1>2, <1>4, ThenDestroys
  <1> HIDE DEF m3
  <1> DEFINE g == ({"machine"} \cup {"serial"}) \cup {"reader"}
  <1>6. Destroys(m4, {}, g \cup {})
    BY <1>3, <1>5, ThenDestroys
  <1> HIDE DEF m4
  <1>7. Destroys(m5, {}, (g \cup {}) \cup {"flow"})
    BY <1>2, <1>6, ThenDestroys
  <1> HIDE DEF m5
  <1>8. Destroys(m6, {}, ((g \cup {}) \cup {"flow"}) \cup {})
    BY <1>3, <1>7, ThenDestroys
  <1> HIDE DEF m6
  <1>9. Destroys(m7, {}, (((g \cup {}) \cup {"flow"}) \cup {}) \cup {})
    BY <1>3, <1>8, ThenDestroys
  <1> HIDE DEF m7
  <1> DEFINE k == (((g \cup {}) \cup {"flow"}) \cup {}) \cup {}
  <1>10. "machine" \in k
    OBVIOUS
  <1> HIDE DEF k
  <1>11. Destroys(c2, {}, {"context"} \cup k)
    BY <1>2, <1>9, ThenDestroys DEF k
  <1> HIDE DEF c2
  <1>12. Destroys(c3, {}, ({"context"} \cup k) \cup {"hotplug"})
    BY <1>2, <1>11, ThenDestroys
  <1> HIDE DEF c3
  <1>13. Destroys(c4, {}, (({"context"} \cup k) \cup {"hotplug"}) \cup {})
    BY <1>3, <1>12, ThenDestroys
  <1>14. {"context", "machine", "hotplug"} \subseteq (({"context"} \cup k) \cup {"hotplug"}) \cup {}
    BY <1>10
  <1> HIDE DEF c4
  <1>15. Destroys(c4, {}, {"context", "machine", "hotplug"})
    BY <1>13, <1>14 DEF Destroys
  <1>16. QED
    BY <1>1, <1>15

LEMMA CloseSteps ==
    ASSUME Inv, CloseContext, UNCHANGED <<lines, plugged, known, plugs, waiting, unanswered>>
    PROVE  Inv'
  <1>1. /\ StateTypes /\ ThreadTypes /\ Bounds /\ Returned
    BY DEF Inv, StateTypes
  <1>2. /\ channel' = channel /\ todo' = todo /\ running' = running /\ closed' = closed
        /\ ended' = ended
        /\ work' = [work EXCEPT !["api"] = DestroyContext]
    BY DEF CloseContext
  <1>3. Destroys(DestroyContext, {}, {"context", "machine", "hotplug"})
    BY ContextDestroys
  <1> DEFINE s == DestroyContext
  <1>4. s \in Seq(Duties["api"]) /\ Joined(s, {})
    BY <1>3 DEF Destroys
  <1>5. s \in Seq(Ops)
    BY <1>4, DutyIsOp, Names
  <1> HIDE DEF s
  <1>6. work \in [Threads -> Seq(Ops)] /\ "api" \in Threads
    BY <1>1, Names DEF ThreadTypes, WorkTypes
  <1>7. /\ work'["api"] = s
        /\ \A thread \in Threads \ {"api"} : work'[thread] = work[thread]
        /\ work' \in [Threads -> Seq(Ops)]
    <2>1. work' = [work EXCEPT !["api"] = s]
      BY <1>2 DEF s
    <2>2. QED
      BY <1>5, <1>6, <2>1
  <1>8. Bounds'
    BY <1>1, <1>2, <1>7, RestingBounds DEF Resting
  <1>9. WorkTypes'
    <2>1. \A thread \in Threads : work[thread] \in Seq(Duties[thread])
      BY <1>1 DEF ThreadTypes, WorkTypes
    <2>2. \A thread \in Threads : work'[thread] \in Seq(Duties[thread])
      BY <1>4, <1>7, <2>1 DEF s
    <2>3. QED
      BY <1>7, <2>2 DEF WorkTypes
  <1>10. ThreadTypes'
    BY <1>1, <1>2, <1>9 DEF ThreadTypes, ChannelTypes
  <1>11. StateTypes'
    BY <1>1, <1>10 DEF StateTypes
  <1>12. Returned'
    <2>1. Joined(s, ended)
      BY <1>4, JoinedMore DEF s
    <2>2. "api" \notin ended /\ ended \subseteq Threads
      BY <1>1 DEF ThreadTypes
    <2>3. QED
      BY <1>1, <1>2, <1>7, <2>1, <2>2 DEF Returned
  <1>13. QED
    BY <1>8, <1>11, <1>12 DEF Inv

\* A message to the ROUTER of the Context, from Hotplug or from a client.
Routed(m) ==
    /\ m \in Carried["router"]
    /\ channel' = [channel EXCEPT !["router"] = Append(@, m)]
    /\ UNCHANGED <<todo, work, running, ended, closed>>
    /\ UNCHANGED <<lines, plugged, plugs, waiting, unanswered>>

LEMMA RoutedMoves ==
    ASSUME StateTypes, NEW m, Routed(m)
    PROVE  /\ ThreadTypes' /\ m \in Messages
           /\ \A ch \in Channels : Pending'[ch] = Pending[ch]
           /\ \A ch \in Channels \ {"router"} : Keeps(ch)
           /\ Gains("router", <<m>>)
           /\ Boots' = Boots /\ work'["reader"] = work["reader"] /\ todo' = todo
  <1>1. /\ ThreadTypes /\ ChannelTypes(channel) /\ m \in Carried["router"]
        /\ channel' = [channel EXCEPT !["router"] = Append(@, m)]
        /\ todo' = todo /\ work' = work /\ running' = running /\ ended' = ended /\ closed' = closed
    BY DEF StateTypes, ThreadTypes, Routed
  <1>2. m \in Messages
    BY <1>1, CarriedMessages, Names
  <1>3. /\ channel \in [Channels -> Seq(Messages)]
        /\ \A ch \in Channels : channel[ch] \in Seq(Carried[ch])
        /\ \A ch \in Channels \ {"router"} : Len(channel[ch]) <= Hwm
    BY <1>1 DEF ChannelTypes
  <1> DEFINE list == channel["router"]
             new == Append(list, m)
             S == Carried["router"]
  <1>4. list \in Seq(S) /\ list \in Seq(Messages)
    BY <1>3, Names
  <1>5. new \in Seq(S)
    <2> HIDE DEF list, S
    <2>1. m \in S
      BY <1>1 DEF S
    <2>2. QED
      BY <1>4, <2>1, AppendIsSeq
  <1>6. new \in Seq(Messages) /\ new = list \o <<m>>
    <2> HIDE DEF list
    <2>1. Append(list, m) \in Seq(Messages)
      BY <1>2, <1>4, AppendIsSeq
    <2>2. Append(list, m) = list \o <<m>>
      BY <1>2, <1>4, Lists
    <2>3. QED
      BY <2>1, <2>2
  <1>7. channel' = [channel EXCEPT !["router"] = new]
    BY <1>1
  <1> HIDE DEF new, S
  <1>8. /\ channel'["router"] = new
        /\ \A ch \in Channels : ch # "router" => channel'[ch] = channel[ch]
        /\ channel' \in [Channels -> Seq(Messages)]
    BY <1>3, <1>6, <1>7, Names
  <1>9. ThreadTypes'
    <2>1. ChannelTypes(channel')
      BY <1>3, <1>5, <1>8 DEF ChannelTypes, S
    <2>2. WorkTypes'
      BY <1>1 DEF ThreadTypes, WorkTypes
    <2>3. QED
      BY <1>1, <2>1, <2>2 DEF ThreadTypes
  <1>10. Pending' = Pending /\ Boots' = Boots /\ work'["reader"] = work["reader"]
    BY <1>1, StillSent
  <1>11. \A ch \in Channels : /\ Sent[ch] = channel[ch] \o Pending[ch]
                              /\ Sent'[ch] = channel'[ch] \o Pending'[ch]
    BY DEF Sent
  <1>12. \A ch \in Channels \ {"router"} : Keeps(ch)
    BY <1>8, <1>10, <1>11 DEF Keeps
  <1>13. Gains("router", <<m>>)
    <2>1. Pending["router"] = <<>> /\ Sent["router"] = channel["router"]
      BY <1>1, SentTypes, Names
    <2>2. Sent'["router"] = new \o <<>>
      BY <1>8, <1>10, <1>11, <2>1, Names
    <2>3. new \o <<>> = new
      BY <1>6, Lists
    <2>4. QED
      BY <1>6, <2>1, <2>2, <2>3 DEF Gains, list
  <1>14. QED
    BY <1>1, <1>2, <1>9, <1>10, <1>12, <1>13

\* It moves what Hotplug had to report, or it is a request.
LEMMA RoutedSteps ==
    ASSUME Inv, NEW m, Routed(m), known' \in BOOLEAN,
           News = News' + Weight(Added, m) /\ Unseen = Unseen' + Weight(Events, m)
    PROVE  Inv'
  <1>1. /\ StateTypes /\ ThreadTypes /\ Bounds /\ Returned /\ FewUnsent /\ DeviceAndReader
    BY DEF Inv, StateTypes, Bounds
  <1>2. /\ ThreadTypes' /\ m \in Messages
        /\ \A ch \in Channels : Pending'[ch] = Pending[ch]
        /\ \A ch \in Channels \ {"router"} : Keeps(ch)
        /\ Gains("router", <<m>>)
        /\ Boots' = Boots /\ work'["reader"] = work["reader"] /\ todo' = todo
    BY <1>1, RoutedMoves
  <1>3. /\ lines' = lines /\ plugged' = plugged /\ plugs' = plugs
        /\ waiting' = waiting /\ unanswered' = unanswered
        /\ work' = work /\ ended' = ended /\ closed' = closed
    BY DEF Routed
  <1>4. \A ch \in Channels \ {"router"} :
            Length(ch)' = Length(ch) /\ \A T : Amount(T, ch)' = Amount(T, ch)
    BY <1>2, Kept
  <1>5. \A T : /\ Amount(T, "router")' = Amount(T, "router") + Weight(T, m)
               /\ Amount(T, "router") \in Nat /\ Weight(T, m) \in Nat
    BY <1>1, <1>2, GainOne, Names
  <1>6. PICK n \in Nat, u \in Nat : News' = n /\ Unseen' = u
    <2>1. News' \in Nat /\ Unseen' \in Nat
      BY DEF News, Unseen
    <2>2. QED
      BY <2>1
  <1>7. Coming' = Coming
    <2> DEFINE a == Amount(Added, "router")
               w == Weight(Added, m)
               b == Amount(Added, "toMachine")
               c == Amount(Added, "toFlow")
               d == Amount(Added, "toSerial")
    <2>1. /\ a \in Nat /\ b \in Nat /\ c \in Nat /\ d \in Nat /\ w \in Nat /\ Boots \in Nat
      BY <1>1, <1>5, Numbers, Names
    <2>2. /\ Amount(Added, "router")' = a + w /\ Amount(Added, "toMachine")' = b
          /\ Amount(Added, "toFlow")' = c /\ Amount(Added, "toSerial")' = d
      BY <1>4, <1>5, Names
    <2>3. Coming' = n + (a + w) + b + c + d + Boots
      BY <1>2, <1>6, <2>2 DEF Coming
    <2>4. Coming = (n + w) + a + b + c + d + Boots
      BY <1>6 DEF Coming
    <2> HIDE DEF a, b, c, d, w
    <2>5. n + (a + w) + b + c + d + Boots = (n + w) + a + b + c + d + Boots
      BY <2>1
    <2>6. QED
      BY <2>3, <2>4, <2>5
  <1>8. Reported' = Reported
    <2> DEFINE a == Amount(Events, "router")
               w == Weight(Events, m)
               b == Amount(Events, "toMachine")
               c == Amount(Events, "toFlow")
    <2>1. /\ a \in Nat /\ b \in Nat /\ c \in Nat /\ w \in Nat
      BY <1>1, <1>5, Numbers, Names
    <2>2. /\ Amount(Events, "router")' = a + w /\ Amount(Events, "toMachine")' = b
          /\ Amount(Events, "toFlow")' = c
      BY <1>4, <1>5, Names
    <2>3. Reported' = u + (a + w) + b + c
      BY <1>6, <2>2 DEF Reported
    <2>4. Reported = (u + w) + a + b + c
      BY <1>6 DEF Reported
    <2> HIDE DEF a, b, c, w
    <2>5. u + (a + w) + b + c = (u + w) + a + b + c
      BY <2>1
    <2>6. QED
      BY <2>3, <2>4, <2>5
  <1>9. Printed' = Printed /\ Replies' = Replies /\ Size(lines)' = Size(lines)
    <2>1. \A T : Count(T, lines)' = Count(T, lines)
      BY <1>3 DEF Count
    <2>2. QED
      BY <1>3, <1>4, <2>1, Names DEF Printed, Replies, Size
  <1>10. Coming \in Nat /\ Printed \in Nat /\ Replies \in Nat
    BY <1>1, Numbers
  <1>11. Size(work["reader"])' \in Nat /\ Size(work["reader"])' <= 1
    <2>1. Size(work["reader"])' = Size(work["reader"])
      BY <1>2 DEF Size
    <2>2. work["reader"] \in Seq(Ops)
      BY <1>1, Names DEF ThreadTypes, WorkTypes
    <2>3. Size(work["reader"]) \in Nat /\ Size(work["reader"]) <= 1
      BY <1>1, <2>2, LenProperties DEF FewUnsent, Size
    <2>4. QED
      BY <2>1, <2>3
  <1>12. Calm
    <2>1. /\ Coming' \in Nat /\ Printed' \in Nat /\ Replies' \in Nat
          /\ Coming' + Printed' <= Coming + Printed /\ Replies' <= Replies
      <3>1. Coming + Printed <= Coming + Printed /\ Replies <= Replies
        BY <1>10
      <3>2. QED
        BY <1>7, <1>9, <1>10, <3>1
    <2>2. \A ch \in Channels : Shortened(Pending'[ch], Pending[ch])
      BY <1>2 DEF Shortened
    <2>3. QED
      BY <1>2, <1>3, <1>8, <1>11, <2>1, <2>2 DEF Calm
  <1>13. DeviceAndReader'
    <2>1. Length("internal")' = Length("internal")
      BY <1>4, Names
    <2>2. QED
      BY <1>1, <1>3, <1>7, <1>9, <2>1 DEF DeviceAndReader
  <1>14. Bounds'
    BY <1>12, <1>13, CalmBounds
  <1>15. StateTypes'
    BY <1>1, <1>2, <1>3 DEF StateTypes
  <1>16. Returned'
    BY <1>1, <1>3 DEF Returned, Joined
  <1>17. QED
    BY <1>14, <1>15, <1>16 DEF Inv

LEMMA HotplugSteps ==
    ASSUME Inv, HotplugStep
    PROVE  Inv'
  <1>1. plugged \in BOOLEAN /\ known \in BOOLEAN
    BY DEF Inv, StateTypes
  <1>2. /\ plugged # known /\ known' = plugged
        /\ channel' = [channel EXCEPT !["router"] = Append(@, IF plugged THEN "added" ELSE "removed")]
        /\ todo' = todo /\ work' = work /\ running' = running /\ ended' = ended /\ closed' = closed
        /\ lines' = lines /\ plugged' = plugged /\ plugs' = plugs
        /\ waiting' = waiting /\ unanswered' = unanswered
    BY DEF HotplugStep, Scan, flowVars, deviceVars
  <1> DEFINE m == IF plugged THEN "added" ELSE "removed"
  <1>3. m \in Carried["router"] /\ m \in Events /\ m \in Messages
    BY CarriedMessages DEF Events, Messages
  <1>4. Routed(m)
    BY <1>2, <1>3 DEF Routed
  <1>5. Unseen = 1 /\ Unseen' = 0 /\ Weight(Events, m) = 1
    <2>1. Unseen = 1 /\ Unseen' = 0
      BY <1>2 DEF Unseen
    <2>2. Weight(Events, m) = 1
      BY <1>3, Singles
    <2>3. QED
      BY <2>1, <2>2
  <1>6. News = Weight(Added, m) /\ News' = 0 /\ News \in Nat
    <2>1. News' = 0
      BY <1>2 DEF News
    <2>2. Weight(Added, "added") = 1 /\ Weight(Added, "removed") = 0
      BY Singles DEF Messages
    <2>3. CASE plugged
      <3>1. News = 1 /\ m = "added"
        BY <1>1, <1>2, <2>3 DEF News
      <3>2. QED
        BY <2>1, <2>2, <3>1
    <2>4. CASE ~plugged
      <3>1. News = 0 /\ m = "removed"
        BY <2>4 DEF News
      <3>2. QED
        BY <2>1, <2>2, <3>1
    <2>5. QED
      BY <2>3, <2>4
  <1>7. News = News' + Weight(Added, m) /\ Unseen = Unseen' + Weight(Events, m)
    BY <1>5, <1>6
  <1>8. known' \in BOOLEAN
    BY <1>1, <1>2
  <1> HIDE DEF m
  <1>9. QED
    BY <1>4, <1>7, <1>8, RoutedSteps

LEMMA ClientSteps ==
    ASSUME Inv, ClientSends, UNCHANGED <<flowVars, deviceVars, known>>
    PROVE  Inv'
  <1>1. plugged \in BOOLEAN /\ known \in BOOLEAN
    BY DEF Inv, StateTypes
  <1>2. PICK m \in Requests : Reaches(m)
    BY DEF ClientSends
  <1>3. /\ channel' = [channel EXCEPT !["router"] = Append(@, m)]
        /\ todo' = todo /\ work' = work /\ running' = running /\ ended' = ended /\ closed' = closed
        /\ lines' = lines /\ plugged' = plugged /\ plugs' = plugs /\ known' = known
        /\ waiting' = waiting /\ unanswered' = unanswered
    BY <1>2 DEF Reaches, flowVars, deviceVars
  <1>4. m \in Carried["router"] /\ m \in {"queued", "unlock", "shutdown"}
    BY CarriedMessages, LifecycleAssumption
  <1>5. Routed(m)
    BY <1>3, <1>4 DEF Routed
  <1>6. Weight(Added, m) = 0 /\ Weight(Events, m) = 0
    BY <1>4, Singles DEF Messages, Events
  <1>7. News' = News /\ Unseen' = Unseen /\ News \in Nat /\ Unseen \in Nat
    BY <1>3 DEF News, Unseen
  <1>8. News = News' + Weight(Added, m) /\ Unseen = Unseen' + Weight(Events, m)
    BY <1>6, <1>7
  <1>9. known' \in BOOLEAN
    BY <1>1, <1>3
  <1>10. QED
    BY <1>5, <1>8, <1>9, RoutedSteps

\* The reader takes a line from the port.
LEMMA ReadMoves ==
    ASSUME Inv, ReadLine, NEW m, m = Head(lines)
    PROVE  /\ ThreadTypes' /\ Returned' /\ todo' = todo
           /\ m \in Messages
           /\ lines' \in Seq(Lines) /\ lines' \in Seq(Messages)
           /\ Size(lines) = Size(lines)' + 1 /\ Size(lines)' \in Nat
           /\ \A T : /\ Count(T, lines) = Count(T, lines)' + Weight(T, m)
                     /\ Count(T, lines)' \in Nat /\ Weight(T, m) \in Nat
           /\ \A ch \in Channels \ {"internal"} : Keeps(ch) /\ Pending'[ch] = Pending[ch]
           /\ Gains("internal", <<m>>)
           /\ Size(work["reader"])' \in Nat /\ Size(work["reader"])' <= 1
           /\ Boots' = Boots
  <1>1. /\ ThreadTypes /\ Returned /\ WorkTypes /\ ChannelTypes(channel)
        /\ lines \in Seq(Lines) /\ lines \in Seq(Messages)
    BY DEF Inv, StateTypes, ThreadTypes
  <1>2. /\ work["reader"] = <<>> /\ "reader" \notin ended /\ lines # <<>> /\ lines' = Tail(lines)
        /\ Begin("reader", channel, <<Send("internal", m)>>)
        /\ todo' = todo /\ running' = running /\ ended' = ended /\ closed' = closed
    BY DEF ReadLine, Idle
  <1>3. m \in Lines /\ Tail(lines) \in Seq(Lines)
    <2> DEFINE S == Lines
    <2>1. lines \in Seq(S)
      BY <1>1
    <2> HIDE DEF S
    <2>2. Head(lines) \in S /\ Tail(lines) \in Seq(S)
      BY <1>2, <2>1, TailIsSeq
    <2>3. QED
      BY <2>2 DEF S
  <1>4. m \in Messages /\ Tail(lines) \in Seq(Messages) /\ Len(lines) = Len(Tail(lines)) + 1
    BY <1>1, <1>2, Lists
  <1>5. /\ Size(lines) = Size(lines)' + 1 /\ Size(lines)' \in Nat
    <2>1. Len(Tail(lines)) \in Nat
      BY <1>4, Lists
    <2>2. Size(lines)' = Len(Tail(lines))
      BY <1>2 DEF Size
    <2>3. QED
      BY <1>4, <2>1, <2>2 DEF Size
  <1>6. ASSUME NEW T
        PROVE  /\ Count(T, lines) = Count(T, lines)' + Weight(T, m)
               /\ Count(T, lines)' \in Nat /\ Weight(T, m) \in Nat
    <2>1. Count(T, lines)' = Count(T, Tail(lines))
      BY <1>2 DEF Count
    <2>2. /\ m \in T => Count(T, lines) = Count(T, Tail(lines)) + 1
          /\ m \notin T => Count(T, lines) = Count(T, Tail(lines))
      BY <1>1, <1>2, CountTail
    <2>3. /\ m \in T => Weight(T, m) = 1
          /\ m \notin T => Weight(T, m) = 0
      BY <1>4, CountOne DEF Weight
    <2>4. Count(T, Tail(lines)) \in Nat
      BY <1>4, Amounts
    <2>5. QED
      BY <2>1, <2>2, <2>3, <2>4
  <1> DEFINE ops == <<Send("internal", m)>>
  <1>7. ops \in Seq(Duties["reader"])
    <2>1. m \in Carried["internal"]
      BY <1>3, CarriedMessages
    <2>2. QED
      BY <2>1, SendIsDuty, Wiring, Names
  <1>8. Out("internal", ops) = <<m>>
    BY <1>4, OutOfSend, Names
  <1>9. ops # <<>> /\ Tail(ops) = <<>> /\ Size(ops) = 1
    BY Amounts
  <1>10. Begin("reader", channel, ops)
    BY <1>2
  <1> HIDE DEF ops
  <1>11. /\ ChannelTypes(channel') /\ WorkTypes'
         /\ work'["reader"] = ops \/ (ops # <<>> /\ work'["reader"] = Tail(ops))
         /\ \A other \in Threads : other # "reader" => work'[other] = work[other]
         /\ \A ch \in Channels :
                /\ Writer[ch] # "reader" => channel'[ch] = channel[ch]
                /\ Writer[ch] = "reader" =>
                       /\ channel'[ch] \o Out(ch, work'["reader"]) = channel[ch] \o Out(ch, ops)
                       /\ Shortened(Out(ch, work'["reader"]), Out(ch, ops))
    <2>1. "reader" \in Threads
      BY Names
    <2>2. QED
      BY <1>1, <1>7, <1>10, <2>1, BeginsWork
  <1>12. ThreadTypes'
    BY <1>1, <1>2, <1>11 DEF ThreadTypes
  <1>13. Returned'
    <2>1. work'["api"] = work["api"]
      BY <1>11, Names
    <2>2. ended \subseteq Threads
      BY <1>1 DEF ThreadTypes
    <2>3. \A thread \in ended : work'[thread] = work[thread]
      BY <1>2, <1>11, <2>2
    <2>4. closed \subseteq ended /\ \A thread \in ended : work[thread] = <<>>
      BY <1>1 DEF Returned
    <2>5. closed' \subseteq ended' /\ \A thread \in ended' : work'[thread] = <<>>
      BY <1>2, <2>3, <2>4
    <2>6. Joined(work'["api"], ended')
      BY <1>1, <1>2, <2>1 DEF Returned
    <2>7. QED
      BY <2>5, <2>6 DEF Returned
  <1>14. \A ch \in Channels : /\ Sent[ch] = channel[ch] \o Pending[ch]
                              /\ Sent'[ch] = channel'[ch] \o Pending'[ch]
                              /\ Pending[ch] = Out(ch, work[Writer[ch]])
                              /\ Pending'[ch] = Out(ch, work'[Writer[ch]])
    BY DEF Sent, Pending
  <1>15. Writer["internal"] = "reader"
         /\ \A ch \in Channels \ {"internal"} : Writer[ch] # "reader" /\ Writer[ch] \in Threads
    BY Wiring, Names
  <1>16. \A ch \in Channels \ {"internal"} : Keeps(ch) /\ Pending'[ch] = Pending[ch]
    <2> SUFFICES ASSUME NEW ch \in Channels \ {"internal"}
                 PROVE  Keeps(ch) /\ Pending'[ch] = Pending[ch]
      OBVIOUS
    <2>1. channel'[ch] = channel[ch] /\ work'[Writer[ch]] = work[Writer[ch]]
      BY <1>11, <1>15
    <2>2. Pending'[ch] = Pending[ch]
      BY <1>14, <2>1
    <2>3. Sent'[ch] = Sent[ch]
      BY <1>14, <2>1, <2>2
    <2>4. QED
      BY <2>2, <2>3 DEF Keeps
  <1>17. Gains("internal", <<m>>)
    <2>1. Sent["internal"] = channel["internal"]
      <3>1. Pending["internal"] = <<>>
        BY <1>1, <1>2, <1>15, SentTypes, Names
      <3>2. QED
        BY <1>1, <3>1, SentTypes, Names
    <2>2. Sent'["internal"] = channel["internal"] \o <<m>>
      <3>1. Sent'["internal"] = channel'["internal"] \o Out("internal", work'["reader"])
        BY <1>14, <1>15, Names
      <3>2. channel'["internal"] \o Out("internal", work'["reader"])
                = channel["internal"] \o Out("internal", ops)
        BY <1>11, <1>15, Names
      <3>3. QED
        BY <1>8, <3>1, <3>2
    <2>3. QED
      BY <2>1, <2>2 DEF Gains
  <1>18. Size(work["reader"])' \in Nat /\ Size(work["reader"])' <= 1
    <2>1. Size(work["reader"])' = Size(work'["reader"])
      BY DEF Size
    <2>2. CASE work'["reader"] = ops
      <3>1. Size(work["reader"])' = 1
        BY <1>9, <2>1, <2>2
      <3>2. QED
        BY <3>1
    <2>3. CASE work'["reader"] = Tail(ops)
      <3>1. Size(work["reader"])' = 0
        BY <1>9, <2>1, <2>3, Amounts
      <3>2. QED
        BY <3>1
    <2>4. QED
      BY <1>11, <2>2, <2>3
  <1>19. Boots' = Boots
    BY <1>11, Names DEF Boots
  <1>20. QED
    BY <1>2, <1>3, <1>4, <1>5, <1>6, <1>12, <1>13, <1>16, <1>17, <1>18, <1>19

LEMMA ReaderSteps ==
    ASSUME Inv, ReaderStep
    PROVE  Inv'
  <1>1. /\ StateTypes /\ ThreadTypes /\ FewUnsent /\ DeviceAndReader
    BY DEF Inv, StateTypes, Bounds
  <1>2. /\ ReadLine /\ plugged' = plugged /\ known' = known /\ plugs' = plugs
        /\ waiting' = waiting /\ unanswered' = unanswered
    BY DEF ReaderStep, flowVars
  <1> DEFINE m == Head(lines)
  <1>3. /\ ThreadTypes' /\ Returned' /\ todo' = todo
        /\ m \in Messages
        /\ lines' \in Seq(Lines) /\ lines' \in Seq(Messages)
        /\ Size(lines) = Size(lines)' + 1 /\ Size(lines)' \in Nat
        /\ \A T : /\ Count(T, lines) = Count(T, lines)' + Weight(T, m)
                  /\ Count(T, lines)' \in Nat /\ Weight(T, m) \in Nat
        /\ \A ch \in Channels \ {"internal"} : Keeps(ch) /\ Pending'[ch] = Pending[ch]
        /\ Gains("internal", <<m>>)
        /\ Size(work["reader"])' \in Nat /\ Size(work["reader"])' <= 1
        /\ Boots' = Boots
    BY <1>2, ReadMoves
  <1> HIDE DEF m
  <1>4. \A ch \in Channels \ {"internal"} :
            Length(ch)' = Length(ch) /\ \A T : Amount(T, ch)' = Amount(T, ch)
    BY <1>3, Kept
  <1>5. /\ Length("internal")' = Length("internal") + 1 /\ Length("internal") \in Nat
        /\ \A T : /\ Amount(T, "internal")' = Amount(T, "internal") + Weight(T, m)
                  /\ Amount(T, "internal") \in Nat
    BY <1>1, <1>3, GainOne, Names
  <1>6. News' = News /\ Unseen' = Unseen
    BY <1>2 DEF News, Unseen
  <1>7. Coming' = Coming /\ Reported' = Reported
    BY <1>3, <1>4, <1>6, Names DEF Coming, Reported
  <1>8. /\ Amount(Startup, "fromSerial") \in Nat /\ Amount(Startup, "toParent") \in Nat
        /\ Amount(Queued, "fromSerial") \in Nat
        /\ Coming \in Nat /\ Printed \in Nat /\ Replies \in Nat /\ Backlog \in Nat /\ plugs \in Nat
    BY <1>1, Numbers, Names
  <1>9. Printed' = Printed
    <2> DEFINE a == Amount(Startup, "internal")
               b == Amount(Startup, "fromSerial")
               c == Amount(Startup, "toParent")
               w == Weight(Startup, m)
    <2>1. PICK n \in Nat : Count(Startup, lines)' = n /\ Count(Startup, lines) = n + w
      BY <1>3
    <2>2. a \in Nat /\ b \in Nat /\ c \in Nat /\ w \in Nat
      BY <1>3, <1>5, <1>8
    <2>3. /\ Amount(Startup, "internal")' = a + w /\ Amount(Startup, "fromSerial")' = b
          /\ Amount(Startup, "toParent")' = c
      BY <1>4, <1>5, Names
    <2>4. Printed' = n + (a + w) + b + c
      BY <2>1, <2>3 DEF Printed
    <2>5. Printed = (n + w) + a + b + c
      BY <2>1 DEF Printed
    <2> HIDE DEF a, b, c, w
    <2>6. n + (a + w) + b + c = (n + w) + a + b + c
      BY <2>2
    <2>7. QED
      BY <2>4, <2>5, <2>6
  <1>10. Replies' = Replies
    <2> DEFINE a == Amount(Queued, "internal")
               b == Amount(Queued, "fromSerial")
               w == Weight(Queued, m)
    <2>1. PICK n \in Nat : Count(Queued, lines)' = n /\ Count(Queued, lines) = n + w
      BY <1>3
    <2>2. a \in Nat /\ b \in Nat /\ w \in Nat
      BY <1>3, <1>5, <1>8
    <2>3. Amount(Queued, "internal")' = a + w /\ Amount(Queued, "fromSerial")' = b
      BY <1>4, <1>5, Names
    <2>4. Replies' = n + (a + w) + b
      BY <2>1, <2>3 DEF Replies
    <2>5. Replies = (n + w) + a + b
      BY <2>1 DEF Replies
    <2> HIDE DEF a, b, w
    <2>6. n + (a + w) + b = (n + w) + a + b
      BY <2>2
    <2>7. QED
      BY <2>4, <2>5, <2>6
  <1>11. Calm
    <2>1. /\ Coming' \in Nat /\ Printed' \in Nat /\ Replies' \in Nat
          /\ Coming' + Printed' <= Coming + Printed /\ Replies' <= Replies
      <3>1. Coming + Printed <= Coming + Printed /\ Replies <= Replies
        BY <1>8
      <3>2. QED
        BY <1>7, <1>8, <1>9, <1>10, <3>1
    <2>2. \A ch \in Channels \ {"internal"} : Shortened(Pending'[ch], Pending[ch])
      BY <1>3 DEF Shortened
    <2>3. QED
      BY <1>2, <1>3, <1>7, <2>1, <2>2 DEF Calm
  <1>12. DeviceAndReader'
    <2>1. PICK s \in Nat : Size(lines)' = s /\ Size(lines) = s + 1
      BY <1>3
    <2>2. s + (Length("internal") + 1) + Coming <= Backlog + plugs
      BY <1>1, <1>5, <1>8, <2>1 DEF DeviceAndReader
    <2>3. QED
      BY <1>2, <1>5, <1>7, <2>1, <2>2 DEF DeviceAndReader
  <1>13. Bounds'
    BY <1>11, <1>12, CalmBounds
  <1>14. StateTypes'
    BY <1>1, <1>2, <1>3 DEF StateTypes
  <1>15. QED
    BY <1>3, <1>13, <1>14 DEF Inv

LEMMA SpeakSteps ==
    ASSUME Inv, DeviceSpeaks, UNCHANGED <<actorVars, known, flowVars>>
    PROVE  Inv'
  <1>1. /\ StateTypes /\ ThreadTypes /\ FewUnsent /\ Startups /\ DeviceAndReader /\ Returned
    BY DEF Inv, StateTypes, Bounds
  <1>2. /\ channel' = channel /\ todo' = todo /\ work' = work /\ running' = running
        /\ ended' = ended /\ closed' = closed
        /\ plugged' = plugged /\ known' = known /\ plugs' = plugs
        /\ waiting' = waiting /\ unanswered' = unanswered
        /\ Prints("push") /\ lines' # lines
    BY DEF DeviceSpeaks, actorVars, flowVars
  <1>3. "push" \in Lines
    BY DEF Lines
  <1>4. /\ lines' \in Seq(Lines) /\ lines' \in Seq(Messages)
        /\ Size(lines)' = Size(lines) + 1
        /\ Size(lines) + 1 + Length("internal") <= Backlog
        /\ \A T : /\ Count(T, lines)' = Count(T, lines) + Weight(T, "push")
                  /\ Count(T, lines) \in Nat /\ Weight(T, "push") \in Nat
    BY <1>1, <1>2, <1>3, Printing
  <1>5. Count(Startup, lines)' = Count(Startup, lines) /\ Count(Queued, lines)' = Count(Queued, lines)
    <2>1. Weight(Startup, "push") = 0 /\ Weight(Queued, "push") = 0
      BY Singles DEF Messages
    <2>2. Count(Startup, lines) + 0 = Count(Startup, lines) /\ Count(Queued, lines) + 0 = Count(Queued, lines)
      BY <1>4
    <2>3. /\ Count(Startup, lines)' = Count(Startup, lines) + 0
          /\ Count(Queued, lines)' = Count(Queued, lines) + 0
      BY <1>4, <2>1
    <2>4. QED
      BY <2>2, <2>3
  <1>6. Pending' = Pending /\ Boots' = Boots /\ work'["reader"] = work["reader"]
    BY <1>2, StillSent
  <1>7. Sent' = Sent
    BY <1>2, <1>6 DEF Sent
  <1>8. \A ch : Keeps(ch) /\ Pending'[ch] = Pending[ch]
    BY <1>6, <1>7 DEF Keeps
  <1>9. \A ch : Length(ch)' = Length(ch) /\ \A T : Amount(T, ch)' = Amount(T, ch)
    BY <1>8, Kept
  <1>10. News' = News /\ Unseen' = Unseen
    BY <1>2 DEF News, Unseen
  <1>11. /\ Coming' = Coming /\ Reported' = Reported /\ Printed' = Printed /\ Replies' = Replies
    BY <1>5, <1>6, <1>9, <1>10 DEF Coming, Reported, Printed, Replies
  <1>12. /\ Coming \in Nat /\ Printed \in Nat /\ Replies \in Nat /\ Backlog \in Nat /\ plugs \in Nat
         /\ Enabled \in Nat /\ Length("internal") \in Nat /\ Size(lines) \in Nat
    BY <1>1, Numbers, Names
  <1>13. Size(work["reader"])' \in Nat /\ Size(work["reader"])' <= 1
    <2>1. Size(work["reader"])' = Size(work["reader"])
      BY <1>6 DEF Size
    <2>2. work["reader"] \in Seq(Ops)
      BY <1>1, Names DEF ThreadTypes, WorkTypes
    <2>3. Size(work["reader"]) \in Nat /\ Size(work["reader"]) <= 1
      BY <1>1, <2>2, LenProperties DEF FewUnsent, Size
    <2>4. QED
      BY <2>1, <2>3
  <1>14. Calm
    <2>1. /\ Coming' \in Nat /\ Printed' \in Nat /\ Replies' \in Nat
          /\ Coming' + Printed' <= Coming + Printed /\ Replies' <= Replies
      <3>1. Coming + Printed <= Coming + Printed /\ Replies <= Replies
        BY <1>12
      <3>2. QED
        BY <1>11, <1>12, <3>1
    <2>2. \A ch \in Channels : Shortened(Pending'[ch], Pending[ch])
      BY <1>8 DEF Shortened
    <2>3. QED
      BY <1>2, <1>8, <1>11, <1>13, <2>1, <2>2 DEF Calm
  <1>15. DeviceAndReader'
    <2>1. (Size(lines) + 1) + Length("internal") + Coming <= Backlog + plugs
      <3>1. Coming + Printed + Enabled <= plugs
        BY <1>1 DEF Startups
      <3>2. Coming <= plugs
        BY <1>12, <3>1
      <3>3. QED
        BY <1>4, <1>12, <3>2
    <2>2. QED
      BY <1>2, <1>4, <1>9, <1>11, <2>1 DEF DeviceAndReader
  <1>16. Bounds'
    BY <1>14, <1>15, CalmBounds
  <1>17. ThreadTypes'
    BY <1>1, <1>2 DEF ThreadTypes, ChannelTypes, WorkTypes
  <1>18. StateTypes'
    BY <1>1, <1>2, <1>4, <1>17 DEF StateTypes
  <1>19. Returned'
    BY <1>1, <1>2 DEF Returned, Joined
  <1>20. QED
    BY <1>16, <1>18, <1>19 DEF Inv

\* Each plugging adds one to what may come and to what is to be reported.
LEMMA PlugSteps ==
    ASSUME Inv, PlugOrUnplug, UNCHANGED <<actorVars, known, flowVars>>
    PROVE  Inv'
  <1>1. /\ StateTypes /\ ThreadTypes /\ FewUnsent /\ Startups /\ ContextAndMachine /\ MachineAndFlow
        /\ DeviceAndReader /\ ByWindow /\ ByStatus /\ Returned
        /\ plugged \in BOOLEAN /\ known \in BOOLEAN /\ plugs \in Nat
    BY DEF Inv, StateTypes, Bounds
  <1>2. /\ channel' = channel /\ todo' = todo /\ work' = work /\ running' = running
        /\ ended' = ended /\ closed' = closed
        /\ plugged' = ~plugged /\ known' = known /\ plugs' = plugs + 1 /\ plugs < MaxPlugs
        /\ waiting' = waiting /\ unanswered' = unanswered
        /\ lines' = <<>>
    BY DEF PlugOrUnplug, actorVars, flowVars
  <1>3. /\ lines' \in Seq(Lines) /\ lines' \in Seq(Messages)
        /\ Size(lines') = 0 /\ \A T : Count(T, lines') = 0
    BY <1>2, Amounts, EmptySeq
  <1>4. Size(lines)' = 0 /\ Count(Startup, lines)' = 0 /\ Count(Queued, lines)' = 0
    BY <1>3 DEF Size, Count
  <1>5. Pending' = Pending /\ Boots' = Boots /\ work'["reader"] = work["reader"]
    BY <1>2, StillSent
  <1>6. Sent' = Sent
    BY <1>2, <1>5 DEF Sent
  <1>7. /\ \A ch : Length(ch)' = Length(ch) /\ Unsent(ch)' = Unsent(ch)
        /\ \A T, ch : Amount(T, ch)' = Amount(T, ch) /\ Count(T, Pending[ch])' = Count(T, Pending[ch])
        /\ \A actor : Rest(actor)' = Rest(actor)
        /\ Size(work["reader"])' = Size(work["reader"])
    BY <1>2, <1>5, <1>6 DEF Length, Unsent, Amount, Rest, Size, Count
  <1>8. Enabled' = Enabled /\ InFlow' = InFlow /\ InSerial' = InSerial
    BY <1>7 DEF Enabled, InFlow, InSerial
  <1>9. /\ \A T : Count(T, lines) \in Nat /\ \A ch \in Channels : Amount(T, ch) \in Nat
        /\ \A ch \in Channels : Length(ch) \in Nat
        /\ \A actor \in Actor : Rest(actor) \in Nat
        /\ Coming \in Nat /\ Printed \in Nat /\ Reported \in Nat /\ Replies \in Nat
        /\ Enabled \in Nat /\ InFlow \in Nat /\ InSerial \in Nat /\ Boots \in Nat
        /\ Credit \in Nat /\ Limit \in Nat /\ Hwm \in Nat /\ Window \in Nat /\ Backlog \in Nat
        /\ MaxPlugs \in Nat
        /\ plugs \in Nat /\ waiting \in Nat /\ unanswered \in Nat /\ Size(lines) \in Nat
        /\ News \in Nat /\ Unseen \in Nat
    BY <1>1, Numbers
  <1>10. PICK c \in Nat : Coming' = c /\ c <= Coming + 1
    <2> DEFINE a == Amount(Added, "router")
               b == Amount(Added, "toMachine")
               d == Amount(Added, "toFlow")
               e == Amount(Added, "toSerial")
    <2>1. a \in Nat /\ b \in Nat /\ d \in Nat /\ e \in Nat
      BY <1>9, Names
    <2>2. PICK n \in Nat : News' = n /\ n <= News + 1
      <3>1. News' \in {0, 1}
        BY DEF News
      <3>2. \A i \in {0, 1} : i \in Nat /\ i <= News + 1
        BY <1>9
      <3>3. QED
        BY <3>1, <3>2
    <2>3. Coming' = n + a + b + d + e + Boots
      BY <1>5, <1>7, <2>2 DEF Coming
    <2>4. Coming = News + a + b + d + e + Boots
      BY DEF Coming
    <2> HIDE DEF a, b, d, e
    <2>5. n + a + b + d + e + Boots <= (News + a + b + d + e + Boots) + 1
          /\ n + a + b + d + e + Boots \in Nat
      BY <1>9, <2>1, <2>2
    <2>6. QED
      BY <2>3, <2>4, <2>5
  <1>11. PICK p \in Nat : Printed' = p /\ p <= Printed
    <2> DEFINE a == Amount(Startup, "internal")
               b == Amount(Startup, "fromSerial")
               d == Amount(Startup, "toParent")
               n == Count(Startup, lines)
    <2>1. a \in Nat /\ b \in Nat /\ d \in Nat /\ n \in Nat
      BY <1>9, Names
    <2>2. Printed' = 0 + a + b + d
      BY <1>4, <1>7 DEF Printed
    <2>3. Printed = n + a + b + d
      BY DEF Printed
    <2> HIDE DEF a, b, d, n
    <2>4. 0 + a + b + d <= n + a + b + d /\ 0 + a + b + d \in Nat
      BY <2>1
    <2>5. QED
      BY <2>2, <2>3, <2>4
  <1>12. PICK r \in Nat : Replies' = r /\ r <= Replies
    <2> DEFINE a == Amount(Queued, "internal")
               b == Amount(Queued, "fromSerial")
               n == Count(Queued, lines)
    <2>1. a \in Nat /\ b \in Nat /\ n \in Nat
      BY <1>9, Names
    <2>2. Replies' = 0 + a + b
      BY <1>4, <1>7 DEF Replies
    <2>3. Replies = n + a + b
      BY DEF Replies
    <2> HIDE DEF a, b, n
    <2>4. 0 + a + b <= n + a + b /\ 0 + a + b \in Nat
      BY <2>1
    <2>5. QED
      BY <2>2, <2>3, <2>4
  <1>13. PICK q \in Nat : Reported' = q /\ (q = Reported + 1 \/ Reported = q + 1)
    <2> DEFINE a == Amount(Events, "router")
               b == Amount(Events, "toMachine")
               d == Amount(Events, "toFlow")
    <2>1. a \in Nat /\ b \in Nat /\ d \in Nat
      BY <1>9, Names
    <2>2. (Unseen = 0 /\ Unseen' = 1) \/ (Unseen = 1 /\ Unseen' = 0)
      BY <1>1, <1>2 DEF Unseen
    <2>3. PICK n \in Nat : Unseen' = n /\ (n = Unseen + 1 \/ Unseen = n + 1)
      BY <2>2
    <2>4. Reported' = n + a + b + d
      BY <1>7, <2>3 DEF Reported
    <2>5. Reported = Unseen + a + b + d
      BY DEF Reported
    <2> HIDE DEF a, b, d
    <2>6. /\ n + a + b + d \in Nat
          /\ \/ n + a + b + d = (Unseen + a + b + d) + 1
             \/ Unseen + a + b + d = (n + a + b + d) + 1
      BY <1>9, <2>1, <2>3
    <2>7. QED
      BY <2>4, <2>5, <2>6
  <1>14. PICK k \in Nat : Credit' = k /\ k <= Credit + Window + 1
    <2> DEFINE k == (Window + 1) * q
    <2>1. Credit' = k
      BY <1>13 DEF Credit
    <2>2. (Window + 1) * (Reported + 1) = (Window + 1) * Reported + Window + 1
      BY <1>9, CreditFalls
    <2>3. (Window + 1) * (q + 1) = (Window + 1) * q + Window + 1
      BY <1>9, <1>13, CreditFalls
    <2>4. CASE q = Reported + 1
      <3>1. k = Credit + Window + 1
        BY <2>2, <2>4 DEF Credit
      <3>2. QED
        BY <1>9, <2>1, <3>1
    <2>5. CASE Reported = q + 1
      <3>1. Credit = k + Window + 1
        BY <2>3, <2>5 DEF Credit
      <3>2. k \in Nat
        <4>1. Window + 1 \in Nat
          BY <1>9
        <4>2. \A x, y \in Nat : x * y \in Nat
          OBVIOUS
        <4>3. QED
          BY <1>13, <4>1, <4>2
      <3> HIDE DEF k
      <3>3. k <= Credit + Window + 1
        BY <1>9, <3>1, <3>2
      <3>4. QED
        BY <2>1, <3>2, <3>3
    <2>6. QED
      BY <1>13, <2>4, <2>5
  <1>15. Limit' = Limit + Window + 1
    <2>1. (Window + 1) * (plugs + 1) = (Window + 1) * plugs + Window + 1
      BY <1>9, CreditFalls
    <2>2. QED
      BY <1>2, <2>1 DEF Limit
  <1>16. FewUnsent'
    BY <1>1, <1>7 DEF FewUnsent
  <1>17. Startups'
    <2>1. c + p + Enabled <= plugs + 1
      BY <1>1, <1>9, <1>10, <1>11 DEF Startups
    <2>2. QED
      BY <1>2, <1>8, <1>10, <1>11, <2>1 DEF Startups
  <1>18. ContextAndMachine'
    BY <1>1, <1>7 DEF ContextAndMachine
  <1>19. MachineAndFlow'
    <2>1. Length("toFlow") + Length("toParent") + Rest("flow") + 2 * (c + p)
              <= Hwm + 2 + 2 * (plugs + 1) + Rest("machine")
      <3>1. /\ Length("toFlow") \in Nat /\ Length("toParent") \in Nat
            /\ Rest("flow") \in Nat /\ Rest("machine") \in Nat
        BY <1>9, Names
      <3>2. Length("toFlow") + Length("toParent") + Rest("flow") + 2 * (Coming + Printed)
                <= Hwm + 2 + 2 * plugs + Rest("machine")
        BY <1>1 DEF MachineAndFlow
      <3>3. QED
        BY <1>9, <1>10, <1>11, <3>1, <3>2
    <2>2. QED
      BY <1>2, <1>7, <1>10, <1>11, <2>1 DEF MachineAndFlow
  <1>20. DeviceAndReader'
    <2>1. 0 + Length("internal") + c <= Backlog + (plugs + 1)
      <3>1. Length("internal") \in Nat
        BY <1>9, Names
      <3>2. Size(lines) + Length("internal") + Coming <= Backlog + plugs
        BY <1>1 DEF DeviceAndReader
      <3>3. QED
        BY <1>9, <1>10, <3>1, <3>2
    <2>2. QED
      BY <1>2, <1>4, <1>7, <1>10, <2>1 DEF DeviceAndReader
  <1>21. ByWindow'
    <2>1. ASSUME "unlock" \notin Requests PROVE OnlyCounted'
      <3>1. unanswered <= Window /\ Length("toSerial") + Replies + Credit <= unanswered + Limit
        BY <1>1, <2>1 DEF ByWindow, OnlyCounted
      <3>2. Length("toSerial") + r + k <= unanswered + (Limit + Window + 1)
        <4>1. Length("toSerial") \in Nat
          BY <1>9, Names
        <4>2. QED
          BY <1>9, <1>12, <1>14, <3>1, <4>1
      <3>3. QED
        BY <1>2, <1>7, <1>12, <1>14, <1>15, <3>1, <3>2 DEF OnlyCounted
    <2>2. QED
      BY <2>1 DEF ByWindow
  <1>22. ByStatus'
    <2>1. ASSUME "queued" \notin Requests PROVE OnlyStatus' /\ FlowAndSerial'
      <3>1. /\ Coming + Printed + InFlow + waiting + InSerial <= plugs
            /\ Length("toSerial") + Length("fromSerial") + Rest("serial") + Coming + Printed
                   + InFlow + waiting <= Hwm + 2 + plugs + Rest("flow")
        BY <1>1, <2>1 DEF ByStatus, OnlyStatus, FlowAndSerial
      <3>2. c + p + InFlow + waiting + InSerial <= plugs + 1
        BY <1>9, <1>10, <1>11, <3>1
      <3>3. Length("toSerial") + Length("fromSerial") + Rest("serial") + c + p
                   + InFlow + waiting <= Hwm + 2 + (plugs + 1) + Rest("flow")
        <4>1. /\ Length("toSerial") \in Nat /\ Length("fromSerial") \in Nat
              /\ Rest("serial") \in Nat /\ Rest("flow") \in Nat
          BY <1>9, Names
        <4>2. QED
          BY <1>9, <1>10, <1>11, <3>1, <4>1
      <3>4. OnlyStatus'
        BY <1>2, <1>8, <1>10, <1>11, <3>2 DEF OnlyStatus
      <3>5. FlowAndSerial'
        BY <1>2, <1>7, <1>8, <1>10, <1>11, <3>3 DEF FlowAndSerial
      <3>6. QED
        BY <3>4, <3>5
    <2>2. QED
      BY <2>1 DEF ByStatus
  <1>23. ThreadTypes'
    BY <1>1, <1>2 DEF ThreadTypes, ChannelTypes, WorkTypes
  <1>24. StateTypes'
    <2>1. plugs' \in Nat /\ plugs' <= MaxPlugs
      BY <1>2, <1>9
    <2>2. waiting' \in Nat /\ unanswered' \in Nat /\ plugged' \in BOOLEAN /\ known' \in BOOLEAN
      BY <1>1, <1>2, <1>9
    <2>3. QED
      BY <1>3, <1>23, <2>1, <2>2 DEF StateTypes
  <1>25. Returned'
    BY <1>1, <1>2 DEF Returned, Joined
  <1>26. QED
    BY <1>16, <1>17, <1>18, <1>19, <1>20, <1>21, <1>22, <1>24, <1>25 DEF Inv, Bounds

LEMMA InitInv == Init => Inv
  <1> SUFFICES ASSUME Init PROVE Inv
    OBVIOUS
  <1>1. /\ channel = [ch \in Channels |-> <<>>] /\ todo = [actor \in Actor |-> <<>>]
        /\ work = [thread \in Threads |-> <<>>]
        /\ plugged \in BOOLEAN /\ known = plugged
        /\ running = Actor \cup {"hotplug"} \cup (IF plugged THEN {"reader"} ELSE {})
        /\ ended = Threads \ (running \cup {"api"}) /\ closed = {}
        /\ waiting = 0 /\ unanswered = 0 /\ lines = <<>> /\ plugs = 0
    BY DEF Init
  <1>2. \A S : <<>> \in Seq(S)
    BY EmptySeq
  <1>3. Hwm \in Nat /\ Window \in Nat /\ Backlog \in Nat /\ MaxPlugs \in Nat
    BY LifecycleAssumption
  <1>4. \A ch \in Channels : channel[ch] = <<>>
    BY <1>1
  <1>5. \A thread \in Threads : work[thread] = <<>>
    BY <1>1
  <1>6. ThreadTypes
    <2>1. ChannelTypes(channel)
      <3>1. Len(<<>>) <= Hwm
        BY <1>3
      <3>2. QED
        BY <1>1, <1>2, <1>4, <3>1 DEF ChannelTypes
    <2>2. WorkTypes
      BY <1>1, <1>2, <1>5 DEF WorkTypes
    <2>3. todo \in [Actor -> Seq(Channels)] /\ \A actor \in Actor : todo[actor] = <<>>
      BY <1>1, <1>2
    <2>4. running \subseteq Threads
      BY <1>1, Names
    <2>5. QED
      BY <1>1, <2>1, <2>2, <2>3, <2>4 DEF ThreadTypes
  <1>7. StateTypes
    <2>1. plugs <= MaxPlugs /\ plugs \in Nat /\ waiting \in Nat /\ unanswered \in Nat
      BY <1>1, <1>3
    <2>2. QED
      BY <1>1, <1>2, <1>6, <2>1 DEF StateTypes
  <1>8. \A ch \in Channels : Pending[ch] = <<>> /\ Sent[ch] = <<>>
    <2> SUFFICES ASSUME NEW ch \in Channels PROVE Pending[ch] = <<>> /\ Sent[ch] = <<>>
      OBVIOUS
    <2>1. work[Writer[ch]] = <<>>
      BY <1>5, Wiring
    <2>2. Pending[ch] = <<>>
      BY <1>6, <2>1, SentTypes
    <2>3. Sent[ch] = channel[ch]
      BY <1>6, <2>2, SentTypes
    <2>4. QED
      BY <1>4, <2>2, <2>3
  <1>9. /\ \A ch \in Channels : Length(ch) = 0 /\ Unsent(ch) = 0
        /\ \A ch \in Channels : \A T : Amount(T, ch) = 0 /\ Count(T, Pending[ch]) = 0
        /\ \A T : Count(T, lines) = 0
        /\ Size(lines) = 0 /\ Size(work["reader"]) = 0
    BY <1>1, <1>5, <1>8, Amounts, Names DEF Length, Unsent, Amount
  <1>10. \A actor \in Actor : Rest(actor) = 0
    BY <1>1, Amounts DEF Rest
  <1>11. News = 0 /\ Unseen = 0 /\ Boots = 0
    <2>1. work["serial"] = <<>>
      BY <1>5, Names
    <2>2. Boots = 0
      BY <2>1, Booting DEF Boots
    <2>3. QED
      BY <1>1, <2>2 DEF News, Unseen
  <1>12. /\ Coming = 0 /\ Printed = 0 /\ Reported = 0 /\ Replies = 0
         /\ Enabled = 0 /\ InFlow = 0 /\ InSerial = 0
    BY <1>9, <1>11, Names DEF Coming, Printed, Reported, Replies, Enabled, InFlow, InSerial
  <1>13. Credit = Limit /\ Credit \in Nat
    <2>1. Credit = Limit
      BY <1>1, <1>12 DEF Credit, Limit
    <2>2. QED
      BY <1>7, <2>1, Numbers
  <1>14. FewUnsent
    BY <1>9, <1>10, Names DEF FewUnsent
  <1>15. Startups /\ ContextAndMachine /\ MachineAndFlow /\ DeviceAndReader
    BY <1>1, <1>3, <1>9, <1>10, <1>12, Names DEF Startups, ContextAndMachine, MachineAndFlow, DeviceAndReader
  <1>16. ByWindow
    <2>1. unanswered <= Window
      BY <1>1, <1>3
    <2>2. 0 + 0 + Credit <= 0 + Limit
      BY <1>13
    <2>3. Length("toSerial") + Replies + Credit <= unanswered + Limit
      BY <1>1, <1>9, <1>12, <2>2, Names
    <2>4. QED
      BY <2>1, <2>3 DEF ByWindow, OnlyCounted
  <1>17. ByStatus
    BY <1>1, <1>3, <1>9, <1>10, <1>12, Names DEF ByStatus, OnlyStatus, FlowAndSerial
  <1>18. Returned
    <2>1. "api" \in Threads /\ ended \subseteq Threads
      BY <1>1, Names
    <2>2. work["api"] = <<>>
      BY <1>5, <2>1
    <2>3. Joined(<<>>, ended)
      BY DEF Joined
    <2>4. QED
      BY <1>1, <1>5, <2>1, <2>2, <2>3 DEF Returned
  <1>19. QED
    BY <1>7, <1>14, <1>15, <1>16, <1>17, <1>18 DEF Inv, Bounds

LEMMA NextInv == Inv /\ [Next]_vars => Inv'
  <1> SUFFICES ASSUME Inv, [Next]_vars PROVE Inv'
    OBVIOUS
  <1>1. ASSUME NEW thread \in Threads, ThreadStep(thread) PROVE Inv'
    <2>1. /\ plugged' = plugged /\ known' = known /\ plugs' = plugs
          /\ waiting' = waiting /\ unanswered' = unanswered
      BY <1>1 DEF ThreadStep, flowVars
    <2>2. CASE Works(thread)
      BY <1>1, <2>1, <2>2, WorkSteps DEF Elsewhere
    <2>3. CASE Return(thread) /\ UNCHANGED lines
      BY <1>1, <2>1, <2>3, ReturnSteps
    <2>4. QED
      BY <1>1, <2>2, <2>3 DEF ThreadStep
  <1>2. CASE Handlers
    BY <1>2, ContextSteps, MachineSteps, FlowSteps, SerialSteps DEF Handlers
  <1>3. CASE ReaderStep
    BY <1>3, ReaderSteps
  <1>4. CASE HotplugStep
    BY <1>4, HotplugSteps
  <1>5. CASE ApiStep
    <2>1. /\ lines' = lines /\ plugged' = plugged /\ known' = known /\ plugs' = plugs
          /\ waiting' = waiting /\ unanswered' = unanswered
      BY <1>5 DEF ApiStep, flowVars, deviceVars
    <2>2. CASE CloseContext
      BY <2>1, <2>2, CloseSteps
    <2>3. CASE ContextIsClosed
      BY <2>1, <2>3, UnchangedSteps DEF ContextIsClosed
    <2>4. QED
      BY <1>5, <2>2, <2>3 DEF ApiStep
  <1>6. CASE Environment
    <2>1. CASE ClientSends /\ UNCHANGED <<phase, quiet, flowVars, deviceVars, known>>
      BY <2>1, ClientSteps
    <2>2. CASE DeviceSpeaks /\ UNCHANGED <<actorVars, phase, quiet, flowVars, known, commands>>
      BY <2>2, SpeakSteps
    <2>3. CASE PlugOrUnplug /\ UNCHANGED <<actorVars, phase, quiet, flowVars, known, commands>>
      BY <2>3, PlugSteps
    <2>4. QED
      BY <1>6, <2>1, <2>2, <2>3 DEF Environment
  <1>7. CASE UNCHANGED vars
    BY <1>7, UnchangedSteps DEF vars, flowVars, deviceVars
  <1>8. QED
    BY <1>1, <1>2, <1>3, <1>4, <1>5, <1>6, <1>7 DEF Next

-----------------------------------------------------------------------------
(* Nobody waits in a circle *)

\* A socket pair holds two messages for each plugging of the device and what the
\* device prints.
RoomForDevice == 2 * MaxPlugs + 2 <= Hwm /\ Backlog + MaxPlugs <= Hwm

\* Clients send requests that the window counts, or only $X, which goes past it.  With
\* both, requests may fill the socket to SerialConnection and the answers to $X the one
\* back, and NoCyclicWait does not hold.
OneKind ==
    \/ "unlock" \notin Requests /\ Window + (Window + 1) * MaxPlugs < Hwm
    \/ "queued" \notin Requests

\* A thread that cannot go on with its work waits for the reader of a full socket
\* pair, or for a thread that it joins.
Clogged(thread, ch) ==
    /\ Writer[ch] = thread /\ ch \in Channels \ {"router"}
    /\ WaitsFor(thread) = Reader[ch]
    /\ Reader[ch] \in ended \/ Length(ch) > Hwm

LEMMA BlockedWaits ==
    ASSUME Inv, NEW thread \in Threads, Blocked(thread)
    PROVE  /\ WaitsFor(thread) # "api" /\ thread \notin ended
           /\ \/ \E ch \in Channels : Clogged(thread, ch)
              \/ thread = "serial" /\ WaitsFor(thread) = "reader"
              \/ thread = "api"
  <1> DEFINE ops == work[thread]
             op  == Head(ops)
  <1>1. StateTypes /\ ThreadTypes /\ Returned
    BY DEF Inv, StateTypes
  <1>2. ops # <<>> /\ ~Ready(op)
    BY DEF Blocked
  <1>3. thread \notin ended
    BY <1>1, <1>2 DEF Returned
  <1>4. ops \in Seq(Duties[thread]) /\ ops \in Seq(Ops)
    BY <1>1 DEF ThreadTypes, WorkTypes
  <1>5. op \in Duties[thread] /\ Tail(ops) \in Seq(Ops)
    BY <1>2, <1>4, TailIsSeq
  <1>6. WaitsFor(thread) = IF op.do = "join" THEN op.thread ELSE Reader[op.channel]
    BY DEF WaitsFor
  <1>7. CASE op.do = "send"
    <2> DEFINE ch == op.channel
    <2>1. /\ op \in Sends /\ op \in Ops /\ ch \in Channels /\ ch # "router"
          /\ Writer[ch] = thread /\ op.message \in Messages
      BY <1>5, <1>7, DutyToSend
    <2>2. ~Takes(channel, ch)
      BY <1>2, <1>7 DEF Ready
    <2>3. WaitsFor(thread) = Reader[ch]
      BY <1>6, <1>7
    <2>4. Reader[ch] \in Actor
      BY <2>1, Readers, Names
    <2>5. Unsent(ch) > 0
      <3>1. Pending[ch] = Out(ch, ops)
        BY <2>1 DEF Pending
      <3>2. Out(ch, ops) = To(ch)[op] \o Out(ch, Tail(ops)) /\ Out(ch, Tail(ops)) \in Seq(Messages)
        BY <1>2, <1>4, <1>5, Sending
      <3>3. To(ch)[op] = <<op.message>>
        BY <2>1, OneOp
      <3> DEFINE m == op.message
                 rest == Out(ch, Tail(ops))
      <3>4. m \in Messages /\ rest \in Seq(Messages) /\ Pending[ch] = <<m>> \o rest
        BY <2>1, <3>1, <3>2, <3>3
      <3> HIDE DEF m, rest, ops, op, ch
      <3>5. <<m>> \in Seq(Messages) /\ Len(<<m>>) = 1
        BY <3>4, Lists
      <3>6. Len(<<m>> \o rest) = Len(<<m>>) + Len(rest) /\ Len(rest) \in Nat
        BY <3>4, <3>5, Lists
      <3>7. Len(<<m>> \o rest) > 0
        BY <3>5, <3>6
      <3>8. QED
        BY <3>4, <3>7 DEF Unsent, Size
    <2>6. Reader[ch] \in ended \/ Length(ch) > Hwm
      <3>1. closed \subseteq ended
        BY <1>1 DEF Returned
      <3>2. Reader[ch] \in closed \/ ~(Size(channel[ch]) < Hwm)
        BY <2>2 DEF Takes, Size
      <3>3. /\ Size(channel[ch]) \in Nat /\ Unsent(ch) \in Nat /\ Hwm \in Nat
            /\ Length(ch) = Size(channel[ch]) + Unsent(ch)
        BY <1>1, <2>1, Numbers
      <3>4. QED
        BY <2>5, <3>1, <3>2, <3>3
    <2>7. Clogged(thread, ch)
      BY <2>1, <2>3, <2>6 DEF Clogged
    <2>8. WaitsFor(thread) # "api"
      BY <2>3, <2>4, Names
    <2>9. QED
      BY <1>3, <2>1, <2>7, <2>8
  <1>8. CASE op.do # "send"
    <2>1. op.do = "join"
      BY <1>2, <1>8 DEF Ready
    <2>2. \/ thread = "context" /\ op = Stop("context")
          \/ thread = "serial" /\ op \in {Stop("reader"), Join("reader"), Start("reader")}
          \/ thread = "api" /\ op.thread # "api"
      BY <1>5, <1>8, DutyToControl
    <2>3. WaitsFor(thread) = op.thread
      BY <1>6, <2>1
    <2> HIDE DEF op
    <2>4. \/ thread = "serial" /\ op.thread = "reader"
          \/ thread = "api" /\ op.thread # "api"
      BY <2>1, <2>2 DEF Stop, Join, Start
    <2>5. QED
      BY <1>3, <2>3, <2>4
  <1>9. QED
    BY <1>7, <1>8

LEMMA MorePluggings ==
    ASSUME NEW w \in Nat, NEW p \in Nat, NEW n \in Nat, p <= n
    PROVE  (w + 1) * p <= (w + 1) * n /\ (w + 1) * p \in Nat /\ (w + 1) * n \in Nat
  BY Z3

\* No two neighbours have filled the socket pairs between them, and the reader has
\* room.
LEMMA Room ==
    ASSUME Inv, RoomForDevice, OneKind
    PROVE  /\ ~(Length("toMachine") > Hwm /\ Length("toContext") > Hwm)
           /\ ~(Length("toFlow") > Hwm /\ Length("toParent") > Hwm)
           /\ ~(Length("toSerial") > Hwm /\ Length("fromSerial") > Hwm)
           /\ ~(Length("internal") > Hwm)
  <1>1. /\ StateTypes /\ ContextAndMachine /\ MachineAndFlow /\ DeviceAndReader /\ ByWindow /\ ByStatus
        /\ plugs \in Nat /\ plugs <= MaxPlugs
    BY DEF Inv, Bounds, StateTypes
  <1>2. /\ Length("toMachine") \in Nat /\ Length("toContext") \in Nat
        /\ Length("toFlow") \in Nat /\ Length("toParent") \in Nat
        /\ Length("toSerial") \in Nat /\ Length("fromSerial") \in Nat /\ Length("internal") \in Nat
        /\ Rest("context") \in Nat /\ Rest("context") <= 1
        /\ Rest("machine") \in Nat /\ Rest("machine") <= 1
        /\ Rest("flow") \in Nat /\ Rest("flow") <= 1 /\ Rest("serial") \in Nat
    BY <1>1, Numbers, Names
  <1>3. /\ Coming \in Nat /\ Printed \in Nat /\ Replies \in Nat /\ InFlow \in Nat
        /\ Credit \in Nat /\ Limit \in Nat /\ Size(lines) \in Nat
        /\ Hwm \in Nat /\ Window \in Nat /\ Backlog \in Nat /\ MaxPlugs \in Nat
        /\ waiting \in Nat /\ unanswered \in Nat
    BY <1>1, Numbers
  <1>4. 2 * MaxPlugs + 2 <= Hwm /\ Backlog + MaxPlugs <= Hwm
    BY DEF RoomForDevice
  <1>5. ~(Length("toMachine") > Hwm /\ Length("toContext") > Hwm)
    BY <1>1, <1>2, <1>3, <1>4 DEF ContextAndMachine
  <1>6. ~(Length("toFlow") > Hwm /\ Length("toParent") > Hwm)
    BY <1>1, <1>2, <1>3, <1>4 DEF MachineAndFlow
  <1>7. ~(Length("internal") > Hwm)
    BY <1>1, <1>2, <1>3, <1>4 DEF DeviceAndReader
  <1>8. ~(Length("toSerial") > Hwm /\ Length("fromSerial") > Hwm)
    <2>1. CASE "unlock" \notin Requests /\ Window + (Window + 1) * MaxPlugs < Hwm
      <3>1. unanswered <= Window /\ Length("toSerial") + Replies + Credit <= unanswered + Limit
        BY <1>1, <2>1 DEF ByWindow, OnlyCounted
      <3>2. PICK most \in Nat : most = (Window + 1) * MaxPlugs /\ Limit <= most
        BY <1>1, <1>3, MorePluggings DEF Limit
      <3>3. Window + most < Hwm
        BY <2>1, <3>2
      <3>4. QED
        BY <1>2, <1>3, <3>1, <3>2, <3>3
    <2>2. CASE "queued" \notin Requests
      <3>1. Length("toSerial") + Length("fromSerial") + Rest("serial") + Coming + Printed
                + InFlow + waiting <= Hwm + 2 + plugs + Rest("flow")
        BY <1>1, <2>2 DEF ByStatus, FlowAndSerial
      <3>2. QED
        BY <1>1, <1>2, <1>3, <1>4, <3>1
    <2>3. QED
      BY <2>1, <2>2 DEF OneKind
  <1>9. QED
    BY <1>5, <1>6, <1>7, <1>8

LEMMA InvNoCyclicWait ==
    ASSUME RoomForDevice, OneKind
    PROVE  Inv => NoCyclicWait
  <1> SUFFICES ASSUME Inv, NEW set \in SUBSET {thread \in Threads : Blocked(thread)},
                      Deadlocked(set)
               PROVE  FALSE
    BY DEF NoCyclicWait
  <1>1. /\ set # {} /\ set \subseteq Threads
        /\ \A thread \in set : Blocked(thread) /\ WaitsFor(thread) \in set
    BY DEF Deadlocked
  <1>2. \A thread \in set :
            /\ WaitsFor(thread) # "api" /\ thread \notin ended
            /\ \/ \E ch \in Channels : Clogged(thread, ch)
               \/ thread = "serial" /\ WaitsFor(thread) = "reader"
               \/ thread = "api"
    BY <1>1, BlockedWaits
  <1>3. ASSUME NEW thread \in set, NEW ch \in Channels, Clogged(thread, ch)
        PROVE  Reader[ch] \in set /\ WaitsFor(thread) = Reader[ch] /\ Length(ch) > Hwm
    <2>1. Reader[ch] \in set /\ WaitsFor(thread) = Reader[ch]
      BY <1>1, <1>3 DEF Clogged
    <2>2. Reader[ch] \notin ended
      BY <1>2, <2>1
    <2>3. QED
      BY <1>3, <2>1, <2>2 DEF Clogged
  <1>4. ASSUME NEW thread, NEW ch \in Channels, Clogged(thread, ch)
        PROVE  /\ thread = Writer[ch] /\ ch # "router"
               /\ thread \in {"context", "machine", "flow", "serial", "reader"}
    BY <1>4, Wiring, Names DEF Clogged
  <1>5. "context" \in set => "machine" \in set /\ Length("toMachine") > Hwm
    <2>1. ASSUME "context" \in set PROVE "machine" \in set /\ Length("toMachine") > Hwm
      <3>1. PICK ch \in Channels : Clogged("context", ch)
        BY <1>2, <2>1
      <3>2. ch = "toMachine"
        BY <1>4, <3>1, Wiring, Names
      <3>3. QED
        BY <1>3, <2>1, <3>1, <3>2, Readers
    <2>2. QED
      BY <2>1
  <1>6. "machine" \in set => \/ "context" \in set /\ Length("toContext") > Hwm
                             \/ "flow" \in set /\ Length("toFlow") > Hwm
    <2>1. ASSUME "machine" \in set
          PROVE  \/ "context" \in set /\ Length("toContext") > Hwm
                 \/ "flow" \in set /\ Length("toFlow") > Hwm
      <3>1. PICK ch \in Channels : Clogged("machine", ch)
        BY <1>2, <2>1
      <3>2. ch \in {"toContext", "toFlow"}
        BY <1>4, <3>1, Wiring, Names
      <3>3. Reader[ch] \in set /\ Length(ch) > Hwm
        BY <1>3, <2>1, <3>1
      <3>4. QED
        BY <3>2, <3>3, Readers
    <2>2. QED
      BY <2>1
  <1>7. "flow" \in set => \/ "machine" \in set /\ Length("toParent") > Hwm
                          \/ "serial" \in set /\ Length("toSerial") > Hwm
    <2>1. ASSUME "flow" \in set
          PROVE  \/ "machine" \in set /\ Length("toParent") > Hwm
                 \/ "serial" \in set /\ Length("toSerial") > Hwm
      <3>1. PICK ch \in Channels : Clogged("flow", ch)
        BY <1>2, <2>1
      <3>2. ch \in {"toParent", "toSerial"}
        BY <1>4, <3>1, Wiring, Names
      <3>3. Reader[ch] \in set /\ Length(ch) > Hwm
        BY <1>3, <2>1, <3>1
      <3>4. QED
        BY <3>2, <3>3, Readers
    <2>2. QED
      BY <2>1
  <1>8. /\ ~(Length("toMachine") > Hwm /\ Length("toContext") > Hwm)
        /\ ~(Length("toFlow") > Hwm /\ Length("toParent") > Hwm)
        /\ ~(Length("toSerial") > Hwm /\ Length("fromSerial") > Hwm)
        /\ ~(Length("internal") > Hwm)
    BY Room
  <1>9. "reader" \notin set
    <2>1. ASSUME "reader" \in set PROVE FALSE
      <3>1. PICK ch \in Channels : Clogged("reader", ch)
        BY <1>2, <2>1
      <3>2. ch = "internal"
        BY <1>4, <3>1, Wiring, Names
      <3>3. QED
        BY <1>3, <1>8, <2>1, <3>1, <3>2
    <2>2. QED
      BY <2>1
  <1>10. "serial" \in set => "flow" \in set /\ Length("fromSerial") > Hwm
    <2>1. ASSUME "serial" \in set PROVE "flow" \in set /\ Length("fromSerial") > Hwm
      <3>1. WaitsFor("serial") # "reader"
        BY <1>1, <1>9, <2>1
      <3>2. PICK ch \in Channels : Clogged("serial", ch)
        BY <1>2, <2>1, <3>1
      <3>3. ch = "fromSerial"
        BY <1>4, <3>2, Wiring, Names
      <3>4. Reader[ch] \in set /\ Length(ch) > Hwm
        BY <1>3, <2>1, <3>2
      <3>5. QED
        BY <3>3, <3>4, Readers
    <2>2. QED
      BY <2>1
  <1>11. "hotplug" \notin set
    <2>1. ASSUME "hotplug" \in set PROVE FALSE
      <3>1. PICK ch \in Channels : Clogged("hotplug", ch)
        BY <1>2, <2>1
      <3>2. QED
        BY <1>4, <3>1
    <2>2. QED
      BY <2>1
  \* The four actors stand in a row: of those in the set, each waits for the next.
  <1>12. "machine" \notin set
    BY <1>5, <1>6, <1>7, <1>8, <1>10
  <1>13. "context" \notin set /\ "flow" \notin set /\ "serial" \notin set
    BY <1>5, <1>7, <1>8, <1>10, <1>12
  <1>14. set \subseteq {"api"}
    BY <1>1, <1>9, <1>11, <1>12, <1>13, Names
  <1>15. QED
    BY <1>1, <1>2, <1>14

\* Whatever clients send, whenever the device is plugged in or out and the context
\* closed: what is in the sockets, what their writers have still to send and what is
\* left of a poll pass keep within Bounds, every socket carries only its messages, and
\* sockets are closed only after the threads that read them have returned.
THEOREM WithinBounds == Spec => []Inv
  <1>1. QED
    BY InitInv, NextInv, PTL DEF Spec

\* No threads wait for each other in a circle: blocking sends in zmq Socket::send and
\* the joins of shutdown_actor and disconnect always lead to a thread that can go on.
THEOREM NoCircularWait ==
    ASSUME RoomForDevice, OneKind
    PROVE  Spec => []NoCyclicWait
  <1>1. Inv => NoCyclicWait
    BY InvNoCyclicWait
  <1>2. QED
    BY <1>1, WithinBounds, PTL

=============================================================================
