----------------------------- MODULE MCPiSessions -----------------------------
(***************************************************************************)
(* An instance of PiSessions for TLC.                                      *)
(***************************************************************************)
EXTENDS PiSessions

CONSTANTS worker, reviewer, own, branch, plain, strict
=============================================================================
