# A TLA+ model of libsubtractive

libsubtractive lets clients drive CNC machines that run Grbl. This directory
holds TLA+ modules of the library's actors, TLC configurations that check them
on small instances, and proofs, checked by TLAPS, of what the flow control of a
device promises, of the streaming protocol it implements, of the session with a
device, of the list of devices that clients see and of which threads can wait for
each other. Paths below are relative to
`src/src/libsubtractive/`.

## 1. The system

| component | state | operations | talks to |
|---|---|---|---|
| C API (`context.cpp:20-52`) | the singleton | init, close | creates `Context` |
| `Context` (`context.cpp`) | machines by serial number, recognized devices, subscribers of the device list and of machines | list, subscribe, unsubscribe, forward a command, forward an answer, device added / removed / supported | clients (ROUTER), `Hotplug` (PUSH), one PAIR per `Machine` |
| `Hotplug` (`communication/usb/hotplug.cpp`) | devices of the last USB scan | scan every 500 ms | `Context` |
| `Machine` (`machine.cpp`) | Disconnected / Connected / Grbl / Identified, version, message counter | added, removed, forward, startup line, answer, push | `Context`, `FlowControl` |
| `FlowControl` (`communication/flowcontrol.cpp`) | queue, outstanding requests, bytes used in the device's buffer, alarm flag, line classifier | send, enable, added, removed, line received, the loop `run()` | `Machine`, `SerialConnection` |
| `SerialConnection` (`communication/serial/`) | the open port, an unfinished line | open, close, write, line read | `FlowControl`, the device |
| `Actor` (`actor.hpp`) | sockets, `running_` | poll loop: one message of every ready socket per pass | - |
| ZeroMQ wrapper (`communication/zmq/`) | - | framing, sockets | - |

Every actor is a thread with its own state. Actors share nothing but bounded
sockets: PAIR sockets block the sender when full, the ROUTER to the clients
drops. (One exception, `Machine::Describe`, is called on the Context's thread
and races with Machine's.) All handlers are `noexcept`, and the documented
build defines no `NDEBUG`, so an exception, an `abort()` or a failed assertion
ends the process.

### Life of a device

`Hotplug` reports the device; `Context` creates a `Machine` (and with it a
`FlowControl` and a `SerialConnection`) the first time, and forwards the
report; `Machine` becomes Connected and forwards it; `FlowControl` empties its
queues and forwards it; `SerialConnection` opens the port, which restarts the
device. The device's startup line goes back as `InitGrbl`; `Machine` becomes
Grbl, enables flow control and asks `$I`; the answer makes it Identified, and
`Context` announces the device to its subscribers. From the state Grbl on,
client commands go to `FlowControl`, which sends at once, queues or refuses.

### What is hard, and what makes each part correct

`PROJECT.json` lists every hazard at its line. In groups:

* **Counting** (FlowControl): bytes in the device's buffer are tracked by an
  unsigned counter through transmissions, answers, resets and reconnections.
  Correct: the counter is the sum of the outstanding planned requests.
* **Pairing and order** (FlowControl): lines carry no identification; only
  their order and the classifier's mode pair them with requests. Correct: the
  answer reported for a request ends with the line the device printed for it;
  G-code goes out in the order it arrived.
* **Alarm and reset** (FlowControl): the flags `alarm_` and `active_` change
  what every handler does; pending work must not leak through a change.
* **Connection** (Machine, SerialConnection, Hotplug): plugging and unplugging
  interleave with commands, answers and scans already on their way.
  Correct: a machine ends up believing what the last scan saw; a device that
  starts up is identified.
* **Views** (Context): a client builds the device list from a snapshot and
  later pushes. Correct: the list it builds is the Context's.
* **Threads** (Actor, ZeroMQ): a send on a full PAIR blocks its thread, and
  destructors join threads that still work. Correct: no threads wait for each
  other in a circle, and closing the context returns.

## 2. Modules

| module | models | shape |
|---|---|---|
| `GrblCommands` | flags table of `command_send_message`, text table of `machine.cpp` | constants |
| `FlowControl` | `flowcontrol.cpp`, `flowcontrol.hpp` | actor, with an environment that sends anything at any time |
| `StreamingWindow` | what `FlowControl` promises, without its queue and counter | abstract specification |
| `Machine` | `machine.cpp` | handlers, one action per message kind and outcome |
| `Serial` | `serial_common.hpp`, `serial_nonwindows.cpp` | handlers and the reading thread |
| `DeviceSession` | the three actors of one device, their sockets, the USB scan, and the device | composition by `INSTANCE` |
| `Hotplug` | `hotplug.cpp` | the scan |
| `Context` | `context.cpp` | handlers |
| `Library` | Hotplug, Context, machines reduced to what the Context sees, clients | composition by `INSTANCE` |
| `Actors` | `actor.hpp`: poll passes, sends that block, `shutdown_actor`, the order of the destructors | threads with a list of operations to do |
| `Lifecycle` | all threads of a context with one device, from its use to `libsubtractive_close_context` | handlers reduced to the messages they send |
| `FlowControlProofs` | theorems about `FlowControl` | TLAPS |
| `StreamingProofs` | `FlowControl` implements `StreamingWindow` | TLAPS |
| `LibraryProofs` | theorems about `Library` | TLAPS |
| `SequenceFacts` | induction, recursion and concatenation for sequences, and what a queue holds | TLAPS, lemmas only |
| `SessionProofs` | theorems about `DeviceSession`: types, the USB events, old devices | TLAPS |
| `AnswerProofs` | theorems about `DeviceSession`: the device's buffer | TLAPS |
| `PairingProofs` | theorems about `DeviceSession`: answers and their requests, identification, what ends the process | TLAPS |
| `LifecycleProofs` | theorems about `Lifecycle` and `Actors`: no circle of waiting threads | TLAPS |
| `MCFlowControl`, `MCDeviceSession`, `MCLibrary`, `MCLifecycle` | instances for TLC | |

### Correspondence

* A handler is one action. In `FlowControl` the loop of `run()` is the
  exception: it is cut at every transmission (`SendRequest`, `SendReset`),
  because the serial thread already works on what was transmitted. `sending`
  is the program counter: it holds from the call of `run()` to the end of its
  loop, and `Ready` keeps other handlers out meanwhile.
* `queue()` and the start of `run()` are part of the action of the handler that
  calls them (`Enqueue`, `Reconnect`, `ReceiveReply`).
* A line of the device is its class-to-be (`kind`) and a `tag`; a request's
  bytes are its length and a `tag`, its position in arrival order. Tags are
  auxiliary: no guard reads them. What the code decides on a line, its class,
  is `Class`, which depends on the classifier's mode as in the code; a
  startup line carries the version the code would read out of it.
* `run()` reads `outgoing_.front()` even when the deque is empty
  (`flowcontrol.cpp:605`). What is read is anything: `FrontIsMultiline` offers
  both outcomes.
* A failed assertion, `abort()` or exception sets `aborted`, after which
  nothing moves.
* Sockets are sequences of at most `Hwm` messages (1000 per side in ZeroMQ's
  default); a handler that sends to a full one is not enabled, which is the
  blocked thread (see Deadlock in section 3). `InitSupported` sends two messages and waits for room for
  both.
* `command_send_message` when flow control is off is `PassThrough`; the
  `Status` case of `command_data_received` and `receive_realtime()` have no
  action, because the classifier never returns `Status`.
* In `DeviceSession` the client's command is handled by `Machine` in the step
  that sends it, and the Context just takes what `Machine` sends.
  The device is external code. It executes what it is sent in order, realtime
  bytes first, and ends each reply with one line; what reaches it before its
  startup line is lost.
* The reading thread of `SerialConnection` passes lines to the actor through an
  internal socket; that socket and the one to `FlowControl` are one queue.
* In `Library` a `Machine` is reduced to its state and to the writes of its own
  description: `StartupLine` is `command_init_grbl`, which takes it from any
  state to Grbl, and `MachineIdentifies` is the answer that follows. Neither
  FlowControl nor the device is there: once a port was opened, startup lines,
  status reports, answers and pushes may come at any time, also of a device that
  is gone. That is more than a device does, and includes a device that restarts
  by itself. `late` and `restarted` remember the machines that read a startup
  line while Disconnected and while Identified, until the next report of the
  device; no guard reads them.
* `DeviceSession!DeviceRestarts` is a device that resets itself: it forgets
  what it has read and prints its startup line. `crossed` remembers that
  FlowControl was owed a reply when it read what cuts replies short
  (`CutsReply`): the startup line of a device that restarted, or a status
  report or an alarm line while it read a reply of several lines. `unseen`
  remembers a device that was away between two scans; both are history.
* `Library!overtaken` remembers the devices whose removal the Context handled
  before their announcement, which comes over another socket or, from a `late`
  machine, long after.
* `FlowControl!Window` maps the queue, taken as a set, to what waits, and
  `outgoing_` to what is unanswered. A step of the loop is a `Transmit`, an
  accepted command an `Accept`, a line that ends a reply an `Answer`; the
  counter, the flags and the classifier have no image.
* In `Actors` what a thread does next is a list of operations (`work`): sends,
  and for destructors and for opening the port also stop, join, start and
  close. A thread is blocked when the first operation of its list cannot be
  done: a send on a full pair or to closed sockets, a join of a thread that has
  not returned. Polling, the first message of a pass and the first send of its
  handler are one step: another thread can only tell them apart by a socket
  pair that is less full a little earlier.
* In `Lifecycle` the handlers keep nothing but the messages they send; where
  that depends on state left out (alarm, classifier, the Machine's state, the
  length of lines) every outcome is offered. `DestroyContext` is the order of
  `~Context`, `~Hotplug`, `~Machine`, `~SerialConnection` and `~FlowControl`.
  Opening a port that is gone ends the process in the code; here it opens
  silently, so that closing is also checked from there.
* `Hotplug!EnumerateUsb` is one action; a change made during a scan is seen by
  the next one. `Context!Route` drops for a full client queue, as ROUTER does,
  and remembers the victim in `lost`.

## 3. Runs

Bounds are named in the modules' `CONSTANTS` as "bound".

| run | question | instance |
|---|---|---|
| `flow_control` | Do counting, order, alarm handling and reply assembly survive every order of commands and lines? | one command of each row kind of the flags table, all eight kinds of lines, `Limit` 3 with G-code of 0, 2, 3 and 4 bytes (empty, two that do not fit together, exact fit, too long), 4 commands; 350,000 states. The same run checks `Streams`, the refinement |
| `device_session` | Are answers paired with the requests the device answered, and is its buffer respected, over a connection and a reconnection? | G-code, `$$` and feed hold, one push, two plugs; 1.6 million states |
| `device_session_fair` | Is a connected device identified, and every accepted request answered? | the same without feed hold, 3 forwarded commands |
| `old_device` | Is a device of an unsupported version left alone, whatever was connected and commanded before? Does a device that restarts by itself stay within its buffer? | a supported and an unsupported device on one serial number, one restart of their own, G-code, `$H` and status requests (whose reports `Machine` refuses as version 0.0); 1.1 million states |
| `busy` | Can threads wait for each other in a circle? | clients that send `$X` without end, two messages per socket pair, closing at any time; 910,000 states |
| `lifecycle` | Does `libsubtractive_close_context` return? | one command or Shutdown, one plug or unplug, one line printed unasked, closing at any time; 76,000 states |
| `library` | Do clients and machines agree with the Context and the scan, whatever lines the devices print? | two devices, one client whose queue holds 2 messages (so that it overflows), 2 plugs, 2 requests of the client or lines of a device (besides those that identify one); 238,000 states |
| `unsolicited_answer`, `unlock`, `soft_reset`, `long_line`, `status_report` | statements of the code that the code contradicts, see 5 | |

The bounds are small but reach what the properties are about: two requests
outstanding and one that must wait, one in every queue at a reset or a
reconnection, a second connection with lines of the first one cut short, a
full socket at every send, every thread blocked in a send. `Limit` 127 and long lines differ from these only
by scale; the proofs of section 4 are for every value.

What the properties of the passing runs say:

* `UsedIsOutstanding`, `TypeOK`: `used_` is the sum of the sizes of the
  planned requests in `outgoing_` and at most `limit_`, so neither
  `limit_ - used_` nor `used_ -= size` wraps.
* `GreedyIsOldest`: a request that must find the device idle is sent only when
  nothing is outstanding, and so remains the oldest.
* `ProgramOrder`: what is queued at the back is sent in arrival order.
* `NothingHeldWhileInactive`: commands that bypass the queue overtake nothing.
* `AlarmHoldsQueue`: in alarm the loop sends only an unlocking command, or
  what is queued behind a `$X` already sent.
* `StallOnlyAfterAlarm`: a request that could be sent waits only because a
  startup line ended an alarm without calling `run()`, the one lost wakeup.
* `AnswersMatch`, `NoUnsolicited`: every answer ends with the line printed for
  that very request, and no line is taken for an answer that is none.
* `AnswersHoldOwnLines`: an answer carries no line of a reply to another request.
  A reply that unplugging cuts short leaves its lines, and the mode Help, in the
  classifier, which a reconnection does not clear; only the next startup line
  does, before anything can be asked (the mutant, which forgets to, hands them to
  the answer to `$I`). Pushes are excepted: the classifier keeps them with a
  reply of several lines, and the mode it reads from the front of an empty
  `outgoing_` may make it keep one for the next answer.
* `BufferNeverOverflows`: the G-code the device has not read fits in its
  buffer, which relates `used_` to the far end of two sockets.
* `IdentifiedByVersion`: what makes a machine Identified is the answer to `$I`.
* `OldDeviceIsLeftAlone`: FlowControl's `active_` survives a reconnection, so
  only Machine's state keeps bytes from a device it has refused.
* `Streams`: `FlowControl` implements `StreamingWindow` (the queue, the
  counter and the loop are one way to keep a window of `Limit` bytes).
* `SessionFollowsUsb`: when everything has settled, the machine believes its
  device connected just when the scan saw it, and the port is open just when
  it is plugged in, whatever startup lines and events crossed each other.
* `EndsOnlyByUnplugging`: a write or an open that throws, and so ends the
  process, finds a device that was unplugged.
* `DeviceIsIdentified`, `QueueDrains`: liveness of a session.
* `ViewMatches`, `PresentIsRecognized`: a client that has read everything knows
  the Context's list, and a device that stays plugged in gets into it.
* `MachineFollowsUsb`: once no report is on its way, a machine is connected, in
  whichever of its three states, if the last scan saw its device. If not, it is
  Disconnected, but for one woken by a startup line that it handled after the
  removal (`late`): `command_init_grbl` asks for no state. In the code such a
  machine soon ends the process, because `$I` is written to a closed port
  (`DeviceSession`); with an alarm it stays awake.
* `GhostsWereOvertaken`: a device that is gone stays in the list of recognized
  devices only if the Context took its removal from Hotplug's socket before its
  announcement from the Machine's, or its machine was `late`.
* `RacesOnlyOnRestart`: `Describe` runs on the Context's thread without a lock, so
  a write of the description while the device is listed is a data race. The code
  has it: a device that restarts after it was identified, or whose status report
  is taken for a startup line, makes Machine write `grbl_version_`, and the answer
  that follows `type_` and `version_`. The property says that these
  (`restarted`) and the announcements of `GhostsWereOvertaken` are all: no
  reconnection and no order of reports makes another one.
* `NoCyclicWait`: Machine and FlowControl send to each other over one PAIR and
  cannot read while they are blocked. They do not block each other, because a
  poll pass takes one message of each ready socket: a Machine that served its
  first socket first (the mutant) would. It holds for clients that send requests
  the window counts, or `$X`, without end, but not for both (below).
* `CloseReturns`: the destructors come to their end, unless a thread is left
  sending to an actor that has returned (`Stranded`). `QuietCloseReturns`: and
  with nothing under way, without exception. A single command under way is
  enough for the exception: `FlowControl` handles it after
  `~SerialConnection` has closed the sockets, and a PAIR without a peer blocks
  for ever. The repository promises nothing about it, so it is a hazard in
  `PROJECT.json` and not a finding.

### Premises of the session runs

`device_session` and `device_session_fair` check what holds as long as the
device does not go into alarm, restarts only when its port is opened, and is
sent neither a status request nor a soft reset. Without these premises the
code fails (section 5). They are constants (`Announcements`, `ClientCommands`),
so that a repaired version can be checked without them. `GcodeSizes` respects
`Limit` for the same reason.

`Plug` requires `Quiet`: plugging a device in takes longer than the actors need
to settle. It may still happen before the next scan. The premise is about
timing (milliseconds against a hand on a cable); without it, lines of the
previous connection are still in the sockets when the device starts anew.

`old_device` lets the device restart of its own accord. Nothing in the code
notices which requests such a device has forgotten: a reply that is owed at the
restart shifts the pairing of answers until the device is unplugged, and the
next `$I` may be answered by another line. So `AnswersMatch`, `AnswersHoldOwnLines`, `NoUnsolicited`,
`IdentifiedByVersion` and `EndsOnlyByUnplugging` do not hold with restarts and
are checked without; `OldDeviceIsLeftAlone` and `SessionFollowsUsb` hold (the former only by `Quiet`:
a startup line of the device before, read after the new one was reported, would
send it `$I`), and
`BufferNeverOverflows` holds as long as no reply was cut short (`~crossed`).
`old_device` also sends status requests. Their reports, taken for startup lines,
end the classifier's mode Help, so that the rest of a long reply is read as the
ends of two replies: that too is a `crossed` session.

With announced alarms `SessionFollowsUsb` fails as well. A late startup line and
an alarm line, both read after the device was unplugged, leave the Machine in
the state Grbl: FlowControl, in alarm, refuses the version request that would
otherwise have been written to the closed port and ended the process.

`busy` and `lifecycle` assume `RoomyChannels`: a socket pair holds more
messages than the window admits requests, than the terminal buffers lines and
than the device is plugged in or out (2000 against at most 127 and some hundred),
lines beyond that are lost, and
one thread calls the C API (`init_mutex_`). Two messages per pair, the least
with which `NoCyclicWait` holds in `busy`, is much smaller than the code's;
with one message Machine and FlowControl do block each other. Every startup
line makes Machine send two messages for one it takes, so that the margin
shrinks with each plugging: `busy` has none, and a pair of 2000
messages allows for about a thousand in the life of a context.

`busy` sends `$X` only. FlowControl sends it at once and outside the window. With
queued requests as well, each answer to one of them lets the next one through in the
same pass in which a `$X` is passed on, so that FlowControl sends two messages for
the one it takes from SerialConnection. Sent without end, both sockets between the
two fill up and each waits for the other: with `Requests = {"queued", "unlock"}`,
no plugging, `Hwm` 2, `Window` 1 and `Backlog` 2 TLC finds `NoCyclicWait` violated. In the code that takes thousands of `$X` faster than a serial line
prints their answers; `PROJECT.json` lists it as a hazard. The theorem of section 4
covers either kind alone.

`DeviceIsIdentified` excludes a device whose startup line is appended to the
rest of a line cut off by unplugging (`cut`), because `disconnect()` keeps
`receive_buffer_`; such a device is never identified.

### Fairness

Weak fairness of every actor's step on each of its sockets: the poll loop
(`actor.hpp:84-105`) takes one message of every ready socket per pass, so
neither socket of an actor starves the other. Of the scan, which repeats. Of
`FlowSends`, which is a running loop. Of the device's boot and replies, an
assumption on the device. In `Lifecycle`, of every thread that can go on and
nothing else: closing waits for no client, scan or device. None of clients' commands, plugging, unplugging,
alarms or pushes. In `Library`, clients read what they are sent, and
fairness of `DeviceStarts` and `MachineIdentifies` stands for a connected device
that prints its startup line and answers `$I`. It leaves out what
`DeviceSession` shows of such a device: one that was replaced between two scans,
whose port is dead, prints neither.

### Deadlock

Every run disables the deadlock check: with clients quiet, nothing plugged in
and the bounds exhausted, the system rightly rests; so does an aborted
process, and a closed context. `QueueDrains` shows that no request is
forgotten. In `DeviceSession` a handler whose socket is full is modelled as not
started, which gives the same states as a thread blocked in it (its message
counts as not yet taken), but lets the thread serve its other socket; that
threads do not block each other is the question of `busy`, whose threads do
block.

## 4. Proofs

`FlowControlProofs` proves, for every `Limit`, `Hwm`, set of commands, set of
lines, sizes and bounds that satisfy the named assumptions of `FlowControl`:

| theorem | property |
|---|---|
| `TypeCorrect` | `TypeOK` |
| `CharacterCounting` | `UsedIsOutstanding` |
| `InactiveIsEmpty` | `NothingHeldWhileInactive` |
| `GreedyRunsAlone` | `GreedyIsOldest` |
| `WaitingStartsAtAlarmEnd` | `StallOnlyAfterAlarm` (an action property) |
| `AlarmHolds` | `AlarmHoldsQueue` |
| `KeepsProgramOrder` | `ProgramOrder` |
| `ImplementsWindow` (`StreamingProofs`) | `Streams`, the refinement of `StreamingWindow` |

The argument: none of types, counting and emptiness is inductive alone.
`Base == TypeOK /\ LoopOK /\ CountOK /\ NothingHeldWhileInactive` is.
`LoopOK` says that the loop is at a request its guards let through, which is
what makes `used + size <= Limit` after a transmission; `CountOK` says that
some function of partial sums leads from `used` to 0 along `outgoing`, which
makes `used - size` natural when an answer arrives; the emptiness while
inactive makes `CountOK` hold when flow control is switched on. `TypeOK`'s
`used \in Nat` needs all three. The partial sums are a function and not a
recursive operator, so that a transmission extends them and an answer drops
their first element. `OutgoingSteps` then reduces the 16 actions to four ways
in which `outgoing` changes, from which `GreedyIsOldest` follows. For
`ProgramOrder` the inductive form is `OrderOK`: `outgoing \o incoming` is in
order and all its tags are at most `received`; a transmission leaves the
concatenation alone up to one element.

`ImplementsWindow` rests on the same invariants: `CountedFits` turns
`CountOK`'s function of partial sums into the one that `StreamingWindow`'s
`Fits` asks for, so the abstract window follows from the counter; `OrderOK`
gives `InTurn`; the head of the queue joins the end of the window
(`NewestJoins`, `HeadLeaves`). Because distinct places of the queue hold
distinct tags, the queue as a set loses exactly its head. `StepRefines` then
takes the actions one by one: each is a step of `StreamingWindow` or leaves its
variables alone.

`LibraryProofs` proves all safety properties of `Library`, for every finite set of devices, every set of clients, every `Hwm`
and all bounds (`LibraryAssumption`):

| theorem | property |
|---|---|
| `MachinesFollowUsb` | `MachineFollowsUsb` |
| `GhostsOnlyByOvertaking` | `GhostsWereOvertaken` |
| `ClientsKnowTheList` | `ViewMatches` |
| `RacesNeedRestart` | `RacesOnlyOnRestart` (an action property) |

The properties speak of empty sockets; to be inductive they must speak of full
ones. `Corrected(seq, wrong, right)` says of a socket that every message that
is wrong by now has a right one behind it, and `Lacks(seq, right)` that no right
one waits. `Hears` says of a device: its reports to the Context are corrected;
when no right one waits there, those to its Machine are corrected; and when none
waits there either, the Machine believes the right thing, or is `late`. `ClientHears` says the
same of the router's queue of a client, whose right messages about a device
change with `recognized_devices_`. Four lemmas (`AppendRight`, `AppendOther`,
`TakeHead`, `ConcatRight` with `ConcatOther`) say what sending and reading do to
`Corrected`; the lemmas on steps only choose among them. A list reply is right
about every device at once, which is why a client can subscribe at any time;
a full queue adds the client to `lost` in the step that drops, for which
`WithinHwm` is needed. `GhostsExplained` extends `GhostsWereOvertaken` to devices
whose announcement is still on its way; the step that identifies a device uses
`Hears`: a connected machine whose device is gone has the removal in its socket.

`RacesOnlyOnRestart` needs more, for two additions in a row would bring an
identified machine back to Connected, to write its description while it is listed.
`Alternates` says that between two reports of an addition there is one of a
removal, in either socket and across them, and that a machine about to read an
addition is `Idle`: Disconnected, or `late`. With it, `Untimely` (the device is
listed, or will be, while its machine has the removal ahead, is idle, or was not
identified since its addition) only holds of overtaken devices; a machine that
writes its description is untimely or `restarted`.

`SessionProofs`, `AnswerProofs` and `PairingProofs` prove all safety properties
of `DeviceSession`, for every `Limit`, `Hwm`, set of commands, set of lines and
all bounds, each under the premises it needs:

| theorem | property | premises |
|---|---|---|
| `SessionTypes` (`SessionProofs`) | types of all three actors and their sockets | - |
| `SessionAlwaysFollowsUsb` (`SessionProofs`) | `SessionFollowsUsb` | `NoAlarms` |
| `OldDeviceIsAlwaysLeftAlone` (`SessionProofs`) | `OldDeviceIsLeftAlone` | `NoAlarms` |
| `BufferNeverFills` (`AnswerProofs`) | `BufferNeverOverflows` | `NoAlarms`, `NoSoftReset` |
| `AnswersAlwaysMatch` (`PairingProofs`) | `AnswersMatch` | `NothingShifts` |
| `AnswersAlwaysHoldOwnLines` (`PairingProofs`) | `AnswersHoldOwnLines` | `NothingShifts` |
| `UnsolicitedIsDropped` (`PairingProofs`) | `NoUnsolicited` | `NothingShifts` |
| `AlwaysIdentifiedByVersion` (`PairingProofs`) | `IdentifiedByVersion` (an action property) | `NothingShifts` |
| `OnlyUnpluggingEnds` (`PairingProofs`) | `EndsOnlyByUnplugging` (an action property) | `NothingShifts`, `ShortRequests` |

The premises are those of the runs (section 3) and speak of constants only.
`NoAlarms` and `NoSoftReset` keep the alarm line out of `Announcements` and
`GrblSoftReset` out of `ClientCommands`. `NothingShifts` adds that devices do not
restart by themselves (`MaxRestarts = 0`) and that clients send no `GrblStatus`:
each of the four can make an answer belong to another request than the one the
code takes it for. `ShortRequests` says that no request is longer than `Limit`;
without it the assertion in `queue()` ends the process, as `long_line` shows. With
a soft reset TLC finds `BufferNeverOverflows` violated, whether the byte sent is
24 or the code's 30. With alarms TLC finds no violation of it, but the
invariant below does not hold with them, and the theorem does not cover them.

Three invariants hold while the process lives, each resting on the one before.

* `UsbInv` says which USB events and requests can be in each socket at a time.
  `SessionFollowsUsb` speaks of empty sockets, which says nothing of the step
  before. The invariant lists the contents: an addition or removal that the
  scan has seen and `Machine` has not (`LastEvent`, `StateFollows`), what a
  connected or a disconnected `Machine` has left in the socket to `FlowControl`
  (`ConnectedIsIdle`, `DisconnectedIsIdle`), and the same down to the port
  (`PortFollows`). `Doomed` describes the sockets after which the serial thread
  writes to a closed port: nothing needs to hold of what follows, because the
  process ends. `OldIsRefused` says that an old device never gets `Machine`
  past Connected, in which `ConnectedIsIdle` leaves no request on its way.
* `AnswerInv` relates `outgoing` to the far end of the session. `Aligned` says
  that the outstanding requests are, in order, those whose replies are in the
  socket from the serial thread, those the device has read, and those still in
  the socket to it, and that the text on its way of a reply of several lines has
  the tag of the request it answers (`TextsFit`). `Counts` then bounds what the
  device has not read by `Limit`. `Aligned` is only kept with the classifier in the
  right mode
  (`HelpMode`), a greedy request at the front (`GreedyFirst`), nothing
  outstanding at a startup line (`FirstInv`), and flow control enabled before the
  first request (`EnabledFirst`).
* `PairInv` relates the answers on their way to `Machine` to its state.
  `Aligned` speaks of an open port; `Waiting` says what remains of it after the
  device is unplugged, `Unasked` and `FirstIsVersion` that between a startup line
  and the answer to `$I` no other answer reaches `Machine`, `InvalidEarly` and
  `LateRemoval` that an answer to nothing, read out of the rest of a connection,
  finds `Machine` disconnected.

For `AnswersHoldOwnLines`, `BufferInv` says of what FlowControl keeps that it is
pushes and lines of the front of `outgoing` (`BufferIsOwn`), which `Aligned`
gives for each line read, or that it is left over from a device that is gone
(`LeftOver`): then nothing is outstanding, and nobody can ask before a startup
line has emptied the buffer.

The step that ends the process breaks these invariants, so the theorems need
one more fact of it: it sends no answer and leaves Machine's state alone
(`EndKeepsAnswers`). After it nothing moves (`EndedIsStill`).

`Aligned` maps a sequence to the sequence of what its elements stand for, and
its lemmas need induction on sequences. The library's induction theorems take
operators as parameters, which the provers here cannot instantiate;
`SequenceFacts` states induction with a set instead (`SetInduction`,
`SequenceInduction`: a set that holds `<<>>` and every sequence whose tail it
holds has all sequences), proves from it that a recursive function on sequences
exists (`SequenceRecursion`), and defines `Flat`, which distributes over
concatenation (`FlatGathers`).

`LifecycleProofs` proves, for every `Hwm`, window, backlog, and every number of
messages from clients (`LifecycleAssumption`, `RoomyChannels`):

| theorem | property | premises |
|---|---|---|
| `WithinBounds` | the invariant `Inv` below | - |
| `NoCircularWait` | `NoCyclicWait` | `RoomForDevice`, `OneKind` |

`RoomForDevice` says that a socket pair has room for two messages for each time the
device is plugged in or out during the life of the context, and two more
(`2 * MaxPlugs + 2 <= Hwm`), and for the terminal's backlog. `OneKind` says that
clients send no `$X` and the window, once more for every plugging, fits in a socket
pair, or that they send nothing but `$X` (and Shutdown). ZeroMQ's 2000 messages per
pair and a window of 127 requests of one byte satisfy the first for a device that is
plugged in or out up to 14 times while the context lives, requests of 10 bytes and
more for over 130 times; `busy` is an instance of the second. The premise counts
every plugging as if what was sent before it were never read: the actors forget the
outstanding requests at a plugging, and the theorem assumes nothing about how much
time passes.

The threads that send to each other stand in a row: Context, Machine, FlowControl,
SerialConnection (the reading thread, Hotplug and the C API only hang on to it). A
circle needs two neighbours that wait for each other, hence a socket pair full in
both directions. `Sent[ch]` is what a socket holds and what its writer has still to
send to it: a first send that finds room, a later one, and a blocked one all leave
it alone, so that only taking a message changes it. `Inv` consists of

* `StateTypes`: which messages each socket carries, and what a thread may have to
  do; one thread writes to each socket pair, which makes `Sent` well defined;
* `FewUnsent`: at most one message of each kind is still to be sent, because a
  thread takes a message only when it has nothing left to do. The queue's requests
  and Machine's enable at a startup line are counted apart;
* `ContextAndMachine`, `MachineAndFlow`, `FlowAndSerial`: the messages in both
  directions of a pair, with `Rest`, the sockets the pass of one neighbour has still
  to read, are at most `Hwm + 2` and the `Rest` of the other. A pass adds at most one
  message more than it takes, and the bound is inductive only with `Rest` on both
  sides;
* `Startups`: the startup lines printed or still to come, with the enables that
  Machine makes of them, are no more than the pluggings, which pays for Machine's
  second message; `DeviceAndReader` bounds the lines of the device likewise;
* `ByWindow`: without `$X`, what FlowControl has on its way to the device is within
  the window, but for requests sent before a reconnection emptied it (`Credit`);
  `ByStatus`: without queued requests of clients, all that is ever queued is the `$I`
  of each plugging;
* `Returned`: a socket is closed only after the thread that reads it was joined, so
  that the C API's thread, blocked in a join, waits for no one that waits for it.

The counts of messages are lengths of `Flat` (`SequenceFacts`), which maps a
sequence to those of its elements that are counted and distributes over
concatenation.

Not proved:

* Liveness (`DeviceIsIdentified`, `QueueDrains`, `PresentIsRecognized`,
  `CloseReturns`, `QuietCloseReturns`): it rests on fairness, hence on
  ENABLED, which the prover does not support.
* `NoCyclicWait` for clients that send `$X` and queued requests without end, where
  it does not hold.
* The sessions excluded by the premises. Where the code fails there, section 5
  has the run.

Of `Machine` and `Serial` what is proved is what `DeviceSession` says of them,
of `Hotplug` and `Context` what `Library` says of them.

## 5. Where the code contradicts itself

Each has a run that ends in a counterexample; `PROJECT.json` quotes the lines.

1. `unsolicited_answer`: an ALARM line between a multi-line request and its
   reply makes the reply's last line an answer to nothing, on which
   `Machine::process_response` calls `abort()`.
2. `unlock`: `$X`, acknowledged, does not clear `alarm_`; every later command
   is refused with "Reset alarm first".
3. `soft_reset`: the byte sent as soft reset is 30, not 0x18 as the comment in
   the flags table says; the device does not restart and flow control stays off.
4. `long_line`: nothing keeps a client's G-code line within what `queue()`
   asserts.
5. `status_report`: a status report is classified as a startup line, the
   `Status` case is dead, and the realtime slot is never freed.

Other behaviours of the code that the models contain or that were left out on
purpose are in the hazards of `PROJECT.json` with a note.

## 6. Not modelled

* The start of actors: `Lifecycle` begins with a context in which the device's
  Machine exists and every thread runs. `init_context` and `close_context` are
  serialized by a mutex. `new_poll_items_` only delays the first message of a
  new Machine by one pass.
* The text that `Machine::Describe` makes; `Library` keeps when what it reads is
  written, and whether the device is listed then.
* Simulated devices (`USBDeviceAdded` with an endpoint instead of a port).
* Ports, missing serial numbers and failures of libusbp in `Hotplug`.
* Framing of messages, and requests with the wrong number of arguments: two
  hazards name what goes wrong with them.
* Bytes of the serial line, its read errors, and the Windows implementation
  (absent from the repository).

## 7. Plan

Done: `FlowControl` with its proofs and the refinement of `StreamingWindow`,
`Machine`, `Serial`, `DeviceSession` with restarts of the device and with its
proofs, `Hotplug`, `Context`, `Library` with its proofs, and the threads with their
shutdown and its proof (`Actors`, `Lifecycle`).

1. Framing: the arguments and identities of a message along its way, and the
   requests that carry more or fewer of them than their handler expects.
2. `Library`'s reduced machine as an abstraction of `DeviceSession`'s, as a
   refinement.
