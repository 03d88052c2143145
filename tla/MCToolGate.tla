------------------------------ MODULE MCToolGate ------------------------------
(***************************************************************************)
(* An instance of ToolGate for TLC.                                        *)
(***************************************************************************)
EXTENDS ToolGate

CONSTANTS read, bash, MaxTogether

\* MaxTogether bounds how many requests are made in a behaviour in which the
\* session calls tools; a longer queue serves only other Agents.
Calls == Cardinality({r \in Requests : Called(r)})
Fresh == candidates = <<>> /\ running = {} /\ offered = Actions /\ call = NoCall

MCNext == \/ Calls <= MaxTogether /\ Plain /\ UNCHANGED vars
          \/ Calls < MaxTogether /\ Queued
          \/ Decided /\ UNCHANGED vars
          \/ Next /\ UNCHANGED gateVars /\ (Fresh \/ Calls' <= MaxTogether)

MCSpec == GateInit /\ [][MCNext]_<<vars, gateVars>>
          /\ \A r \in Requests : WF_vars(Progress(r) /\ UNCHANGED gateVars)

\* evaluate() agrees with what the policies state, in whatever order.
ASSUME PolicyReference ==
  \A heard \in Heard : Evaluate(heard) =
    IF Hard(heard) THEN "deny" ELSE IF Soft(heard) THEN "block" ELSE "allow"
=============================================================================
