----------------------------- MODULE MCLibrary ------------------------------
(***************************************************************************)
(* Two devices and one client that may stop reading.                       *)
(***************************************************************************)
EXTENDS Library

CONSTANTS d1, d2, c1
MCDevices == {d1, d2}
MCClients == {c1}
=============================================================================
