---------------------------- MODULE MCLifecycle -----------------------------
(***************************************************************************)
(* One context that is used and closed, with room for few messages: two in *)
(* a socket pair is the least with which Machine and FlowControl do not    *)
(* block each other.                                                       *)
(***************************************************************************)
EXTENDS Lifecycle
=============================================================================
