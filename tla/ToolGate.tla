------------------------------- MODULE ToolGate -------------------------------
(***************************************************************************)
(* The gate before every tool of an Agent: the pre-tool policies           *)
(* (agent-tool-policy.ts), authorizeAgentTool and its callers (vm.ts), and *)
(* Pi's tool_call hook and elevated tool (pi-agent-executor.ts).           *)
(*                                                                         *)
(* One Pi session calls tools while other Agents put requests into the     *)
(* same queue of human requests.  A tool call that a policy blocks, or     *)
(* that fails in the sandbox, becomes a candidate: within the same         *)
(* activation the model may ask for that very call again, a human decides, *)
(* and it runs - in the sandbox if a policy blocked it, on the host if the *)
(* sandbox failed.  A queue is configured.  What refuses a call without a  *)
(* change of state (no candidate, a hard denial of an elevated call) is a  *)
(* guard.                                                                  *)
(***************************************************************************)
EXTENDS ApprovalQueue

CONSTANTS Actions,         \* a tool with its arguments
          Sandboxed,       \* those whose execution boundary is the sandbox
          NumPolicies,     \* policies are asked in order
          requireCoverage,
          MaxCandidates    \* bounds the candidates of an activation

ASSUME GateAssumption == /\ Sandboxed \subseteq Actions
                         /\ NumPolicies \in Nat /\ MaxCandidates \in Nat
                         /\ requireCoverage \in BOOLEAN

VARIABLES offered,     \* actions whose tool is active in this activation
          candidates,  \* hostRouter.elevationCandidates
          running,     \* plain calls that execute
          call,        \* the elevated or transaction call, which runs alone
          due,         \* history: calls of this activation to be made good
          unlicensed   \* history: plain calls started against a policy

gateVars == <<offered, candidates, running, call, due, unlicensed>>

Policies == 1..NumPolicies
Source == {"policy-block", "sandbox-error"}
Transaction == "transaction"
NoCall == [stage |-> "none", use |-> Transaction, source |-> "none", index |-> 0,
           request |-> Nobody, hard |-> FALSE]

\* What each policy would say; one that throws or answers nonsense is "failed".
Heard == [Policies -> {"allow", "block", "deny", "abstain", "failed"}]

\* The facts a policy states, whatever the order they are heard in.
Hard(heard) == \/ \E p \in Policies : heard[p] \in {"deny", "failed"}
               \/ requireCoverage /\ \A p \in Policies : heard[p] = "abstain"
Soft(heard) == \E p \in Policies : heard[p] = "block"

\* evaluate(): a denial ends it, a block is kept while the rest is heard.
Evaluate(heard) ==
  LET after[p \in 0..NumPolicies] ==
        IF p = 0 THEN "uncovered"
        ELSE CASE after[p - 1] = "deny" \/ heard[p] \in {"deny", "failed"} -> "deny"
               [] heard[p] = "abstain" -> after[p - 1]
               [] OTHER -> IF after[p - 1] = "block" THEN "block" ELSE heard[p]
      last == after[NumPolicies]
  IN  IF last # "uncovered" THEN last ELSE IF requireCoverage THEN "deny" ELSE "allow"

\* authorizeAgentTool() up to the queue: only an elevated call gets that far.
Authorize(heard, elevated) ==
  LET verdict == Evaluate(heard)
  IN  CASE verdict = "deny" -> "denied"
        [] verdict # "deny" /\ elevated -> "ask"
        [] verdict = "block" /\ ~elevated -> "elevatable"
        [] OTHER -> "allowed"

-----------------------------------------------------------------------------
NothingDue == [a \in Actions |-> [s \in Source |-> 0]]

GateInit == /\ Init
            /\ offered = Actions
            /\ candidates = <<>> /\ running = {} /\ unlicensed = {}
            /\ call = NoCall
            /\ due = NothingDue

Candidate(a, s) ==
  /\ candidates' = Append(candidates, [action |-> a, source |-> s])
  /\ due' = [due EXCEPT ![a][s] = @ + 1]

Room == Len(candidates) + Cardinality(running \cap Sandboxed) < MaxCandidates

\* The tool_call hook of an ordinary tool: authorizeTool asks the policies; a
\* block in the sandbox makes a candidate.  Transactions, elevated calls and
\* other sequential tools run alone.
ToolCall(a, heard) ==
  /\ call.stage = "none" /\ a \in offered \ running /\ Room
  /\ IF Authorize(heard, FALSE) = "allowed"
     THEN /\ running' = running \cup {a}
          /\ unlicensed' = IF Hard(heard) \/ Soft(heard) THEN unlicensed \cup {a}
                                                         ELSE unlicensed
          /\ UNCHANGED <<candidates, due>>
     ELSE /\ IF Authorize(heard, FALSE) = "elevatable" /\ a \in Sandboxed
             THEN Candidate(a, "policy-block")
             ELSE UNCHANGED <<candidates, due>>
          /\ UNCHANGED <<running, unlicensed>>
  /\ UNCHANGED <<offered, call>>

\* tool_execution_end of a plain call.
ToolEnds(a, isError) ==
  /\ a \in running
  /\ running' = running \ {a}
  /\ unlicensed' = unlicensed \ {a}
  /\ IF isError /\ a \in Sandboxed
     THEN Candidate(a, "sandbox-error")
     ELSE UNCHANGED <<candidates, due>>
  /\ UNCHANGED <<offered, call>>

\* A request of this session is queued, or refused with an AgentApprovalError
\* that the tool reports; signalAborted: its signal has fired by then.
Submit(r, waiting) ==
  /\ call.stage = "none" /\ running = {}
  /\ \/ /\ Enqueue(r)
        /\ call' = [waiting EXCEPT !.stage = "waiting", !.request = r]
     \/ \E signalAborted \in BOOLEAN : Refuse(r, signalAborted) /\ UNCHANGED call
  /\ UNCHANGED <<offered, candidates, running, due, unlicensed>>

\* The newest candidate of an action, 0 if there is none.
Newest(a) == SelectLastInSeq(candidates, LAMBDA c : c.action = a)

\* requestElevation(): the action as the human and the policies see it.
Elevation(a, index, heard) ==
  [NoCall EXCEPT !.use = a, !.source = candidates[index].source,
                 !.index = index, !.hard = Hard(heard)]

\* afl_elevated_tool: the newest candidate of the same tool and arguments, the
\* policies once more, then the human.  Any elevated tool may be named, offered
\* or not; the elevated tool itself is offered unless no tool is.
Elevate(r, a, heard) ==
  LET index == Newest(a)
  IN  /\ offered # {} /\ index # 0
      /\ Authorize(heard, TRUE) = "ask"
      /\ Submit(r, Elevation(a, index, heard))

\* afl_transaction_request: something only a human can do.
RequestTransaction(r) == Submit(r, NoCall)

\* The promise of enqueue() has settled: an approved action runs.
Decided ==
  /\ call.stage = "waiting" /\ outcome[call.request] # "none"
  /\ call' = IF outcome[call.request] = "approved" /\ call.use # Transaction
             THEN [call EXCEPT !.stage = "running"] ELSE NoCall
  /\ UNCHANGED <<offered, candidates, running, due, unlicensed>>

\* The elevated execution ends; success uses the candidate up.
ElevatedEnds(ok) ==
  /\ call.stage = "running"
  /\ call' = NoCall
  /\ IF ok THEN /\ candidates' = RemoveAt(candidates, call.index)
                /\ due' = [due EXCEPT ![call.use][call.source] = @ - 1]
           ELSE UNCHANGED <<candidates, due>>
  /\ UNCHANGED <<offered, running, unlicensed>>

\* Defect: the candidates of the last activation stay.
NextActivation_Keeps(tools) ==
  /\ call.stage = "none" /\ running = {}
  /\ offered' = tools
  /\ due' = NothingDue
  /\ UNCHANGED <<candidates, running, call, unlicensed>>

\* The activation ends and the next one starts, with the tools its agent.do
\* names or all of them.
NextActivation(tools) ==
  /\ call.stage = "none" /\ running = {}
  /\ offered' = tools
  /\ candidates' = <<>> /\ due' = NothingDue
  /\ UNCHANGED <<running, call, unlicensed>>

Plain == \/ \E a \in Actions :
              \/ \E heard \in Heard : ToolCall(a, heard)
              \/ \E isError \in BOOLEAN : ToolEnds(a, isError)
         \/ \E ok \in BOOLEAN : ElevatedEnds(ok)
         \/ \E tools \in SUBSET Actions : NextActivation(tools)

Queued == \E r \in Requests : \/ \E a \in Actions, heard \in Heard : Elevate(r, a, heard)
                              \/ RequestTransaction(r)

GateNext == \/ Plain /\ UNCHANGED vars
            \/ Queued
            \/ Decided /\ UNCHANGED vars
            \/ Next /\ UNCHANGED gateVars

GateSpec == GateInit /\ [][GateNext]_<<vars, gateVars>>
            /\ \A r \in Requests : WF_vars(Progress(r) /\ UNCHANGED gateVars)

-----------------------------------------------------------------------------
(* An elevated call runs only if a human approved this very request before   *)
(* anything cancelled it, no policy denies the action, its tool is one this  *)
(* activation offers, and the action was blocked, or failed in the sandbox,  *)
(* in this activation and has not been made good since.  The candidates are  *)
(* exactly those calls.  No plain call runs against a policy.                *)
GateKept ==
  /\ call.stage = "running" =>
       /\ outcome[call.request] = "approved" /\ answer[call.request] = "approved"
       /\ ~call.hard
       /\ call.use \in offered \cap Sandboxed
       /\ due[call.use][call.source] > 0
  /\ \A a \in Actions, s \in Source :
       Cardinality({i \in DOMAIN candidates :
                      candidates[i] = [action |-> a, source |-> s]}) = due[a][s]
  /\ unlicensed = {}
=============================================================================
