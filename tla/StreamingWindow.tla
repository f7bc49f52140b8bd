-------------------------- MODULE StreamingWindow ---------------------------
(***************************************************************************)
(* What FlowControl promises: a device whose receive buffer takes `Limit'  *)
(* bytes is streamed requests without ever being sent more, each in its    *)
(* turn, and answers are given to the requests in the order they were sent.*)
(* There is no queue and no count of bytes here; FlowControl keeps both,   *)
(* and implements this module by them (FlowControl!Streams).               *)
(***************************************************************************)
EXTENDS GrblCommands, Sequences

CONSTANT Limit     \* bytes of planned requests the device may hold

VARIABLES
    waiting,       \* the requests accepted and not sent
    unanswered,    \* the requests sent, and not answered
    last           \* the tag of the latest command

vars == <<waiting, unanswered, last>>

Size(request) == IF request.type \in Planned THEN request.size ELSE 0

\* The planned requests of a sequence take at most Limit bytes together:
\* rest[i] are those from the i-th on.
Fits(requests) ==
    \E rest \in [1..(Len(requests) + 1) -> 0..Limit] :
        /\ rest[Len(requests) + 1] = 0
        /\ \A i \in 1..Len(requests) : rest[i] = Size(requests[i]) + rest[i + 1]

\* No request of the program waits that came earlier.
InTurn(request) ==
    Position(request.type) = "Back" =>
        \A other \in waiting :
            Position(other.type) = "Back" => request.tag <= other.tag

Init == waiting = {} /\ unanswered = <<>> /\ last = 0

\* A command comes and is not kept: it is refused, or empty, or sent past.
Ignore ==
    /\ last' = last + 1
    /\ UNCHANGED <<waiting, unanswered>>

\* A soft reset supersedes what waits.
Accept ==
    /\ last' = last + 1
    /\ \E type \in Commands : \E size \in 1..Limit :
       LET request == [type |-> type, size |-> size, tag |-> last'] IN
       waiting' = IF Position(type) = "Reset" THEN {request}
                                              ELSE waiting \cup {request}
    /\ UNCHANGED unanswered

Transmit ==
    \E request \in waiting :
        /\ InTurn(request)
        /\ request.type \in Greedy => unanswered = <<>>
        /\ waiting' = waiting \ {request}
        /\ unanswered' = IF request.type \in Realtime
                         THEN unanswered
                         ELSE Append(unanswered, request)
        /\ Fits(unanswered')
        /\ UNCHANGED last

Answer ==
    /\ unanswered # <<>>
    /\ unanswered' = Tail(unanswered)
    /\ UNCHANGED <<waiting, last>>

\* A soft reset was sent, or the device came or went.
Forget ==
    /\ waiting' = {} /\ unanswered' = <<>>
    /\ UNCHANGED last

Next == Ignore \/ Accept \/ Transmit \/ Answer \/ Forget

Spec == Init /\ [][Next]_vars
=============================================================================
