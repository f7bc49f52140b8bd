---------------------------- MODULE GrblCommands ----------------------------
(***************************************************************************)
(* The Grbl commands a client may send to a machine and the queueing flags *)
(* flow control attaches to each: the static table of                      *)
(* FlowControl::command_send_message and the text table of machine.cpp.    *)
(* A command is named by its member of the enumeration Command; the empty  *)
(* Request{} carries Command::Invalid.                                     *)
(***************************************************************************)
EXTENDS Integers

\* Flag::Multiline: the reply is some lines followed by "ok" or "error:".
Multiline == {"GrblHelp", "GrblParams", "GrblSettings", "GrblStartupBlocks",
              "GrblVersion"}

\* Flag::NoBuffer ("greedy" in the code): sent only when nothing is outstanding.
Greedy == Multiline \cup {"GrblHome", "GrblParserState", "GrblCheckModeToggle"}

\* Flag::Realtime: one byte that the device takes out of its input stream.
Realtime == {"GrblStatus", "GrblCycleToggle", "GrblFeedHold", "GrblJogCancel"}

\* Flag::Planned: its bytes are counted against the device's receive buffer.
Planned == {"SendGcode"}

\* The commands accepted while the machine is in alarm.
ClearsAlarm == {"GrblResetAlarm", "GrblSoftReset"}

Commands == Greedy \cup Realtime \cup Planned \cup ClearsAlarm

\* SendFlags::position_, where FlowControl::queue puts the command.
Position(type) ==
    CASE type = "GrblSoftReset"                    -> "Reset"
      [] type \in Realtime \cup {"GrblResetAlarm"} -> "Front"
      [] OTHER                                     -> "Back"

\* The length of the text machine.cpp sends for a command without a payload.
TextSize(type) ==
    CASE type \in Realtime \cup {"GrblSoftReset"} -> 1
      [] type = "GrblHelp"                        -> 2
      [] OTHER                                    -> 3

\* make_realtime: the byte of a one-byte command.
RealtimeByte(type) ==
    CASE type = "GrblStatus"      -> 63
      [] type = "GrblCycleToggle" -> 126
      [] type = "GrblFeedHold"    -> 33
      [] type = "GrblJogCancel"   -> 133
      [] type = "GrblSoftReset"   -> 30
=============================================================================
