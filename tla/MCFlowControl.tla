--------------------------- MODULE MCFlowControl ----------------------------
(***************************************************************************)
(* FlowControl with one command of every row of the flags table and one    *)
(* line of every class, sent and printed in any order.                     *)
(***************************************************************************)
EXTENDS FlowControl

MCCommands == {"SendGcode", "GrblSettings", "GrblHome", "GrblFeedHold",
               "GrblResetAlarm", "GrblSoftReset"}

MCLines == [kind : LineKinds, tag : {0}]
=============================================================================
