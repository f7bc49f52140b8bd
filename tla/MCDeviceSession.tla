-------------------------- MODULE MCDeviceSession ---------------------------
(***************************************************************************)
(* One device, plugged in at most twice, and a client.                     *)
(***************************************************************************)
EXTENDS DeviceSession

MCCommands == {"SendGcode", "GrblSettings", "GrblFeedHold"}
=============================================================================
