---------------------------- MODULE NodeExecution ----------------------------
(***************************************************************************)
(* The invocation of a Node (src/src/vm.ts: executeNode, executeBlock,     *)
(* executeInstruction): a block starts every instruction whose             *)
(* dependencies are done, the static ones and those between the handles    *)
(* that the names hold when the block starts; the terminator selects the   *)
(* next block.  The Nodes that are run are those the validator accepts:    *)
(* the writer's, and what an Agent has generated in agent.flow.            *)
(***************************************************************************)
EXTENDS Validation

CONSTANTS Nodes,      \* the Nodes that are written
          Arguments,  \* what the parameters can be called with: a value for each
          MaxSteps    \* the step budget of the run

ASSUME MaxSteps \in Nat

VARIABLES node,     \* the Node that is run
          generated,  \* an Agent has written it
          frame,    \* the values of the names: [kind, id, mem]
          block,    \* the name of the block
          phase,    \* "enter", "running", "returned", "failed"
          visit,    \* blocks entered by now: tells the handles of two visits apart
          deps,     \* the dependencies of the instructions of the block
          started, ended, done,  \* its instructions that are started, over, successful
          failure,  \* [code, name]: the first error of the block, or of the Node
          steps,    \* steps of the run
          owned,    \* the memories that an Agent is bound to
          consumed, \* the TaskGroups that are synced
          outstanding,  \* frame.taskGroups
          reached,  \* history: the Nodes it has called, the Agents it has created
          effects,  \* history: what the block has done to handles: [by, id, mode]
          atEntry   \* history: the frame when the block was entered

run == <<node, generated>>
vars == <<run, frame, block, phase, visit, deps, started, ended, done, failure, steps, owned,
          consumed, outstanding, reached, effects, atEntry>>

NoFailure == [code |-> None, name |-> None]
Fails(code, name) == [code |-> code, name |-> name]
Block == node.blocks[block]
Instruction(k) == Block.instructions[k]

-----------------------------------------------------------------------------
\* Values.  A handle has an identity, an Agent that of its Memory as well.
Data(kind) == [kind |-> kind, id |-> None, mem |-> None]
AgentHandle(id, mem) == [kind |-> "agent", id |-> id, mem |-> mem]
MemoryHandle(id) == [kind |-> "memory", id |-> id, mem |-> id]
TaskGroup(id) == [kind |-> "taskGroup", id |-> id, mem |-> None]

\* evaluateValue, resolveName: a value, or the error as a value of kind "error".
Error(code) == [kind |-> "error", id |-> code, mem |-> None]
evaluate(e, values) ==
  IF ~Named(e) THEN Data(IF e.kind = "literal" THEN "compute" ELSE "symbol")
  ELSE IF e.name \notin DOMAIN values THEN Error("VALUE_UNAVAILABLE")
  ELSE IF ~e.memory THEN values[e.name]
  ELSE IF values[e.name].kind = "agent" THEN MemoryHandle(values[e.name].mem)
  ELSE Error("VALUE_PATH_INVALID")

\* asAgent, asMemory, asTaskGroup, asFrag, asCompute and their like: the kinds
\* that are accepted in a role, else the error.
Accepted(op, role) ==
  CASE role = "agent" -> {"agent"}
    [] role = "memory" -> {"memory"}
    [] role = "group" -> {"taskGroup"}
    [] role \in {"input", "frag", "workspace", "count", "minRoutes", "maxRoutes", "condition",
                 "selector"} \/ op \in {"oper", "compute", "script"} -> {"frag", "compute"}
    [] role = "prompt" \/ op \in {"prompt", "agent.route", "agent.flow"} -> {"frag", "compute", "symbol"}
    [] OTHER -> {"frag", "compute", "symbol", "agent", "memory", "taskGroup"}
Required(role) == CASE role = "agent" -> "AGENT_REQUIRED" [] role = "memory" -> "MEMORY_REQUIRED"
                    [] role = "group" -> "TASK_GROUP_REQUIRED" [] OTHER -> "VALUE_REQUIRED"
OperandFailures(op, operands, values) ==
  {IF v.kind = "error" THEN Fails(v.id, e.name) ELSE Fails(Required(r), e.name) :
     <<r, e, v>> \in {<<q, operands[q], evaluate(operands[q], values)>> :
        q \in {p \in DOMAIN operands : evaluate(operands[p], values).kind \notin Accepted(op, p)}}}

-----------------------------------------------------------------------------
\* vmResourceAccesses: the handles that the names hold by now.  The mode of
\* each access is that of the operation.
HandleAccesses(i, values) ==
  LET held(role) == LET e == i.operands[role]
                        v == evaluate(e, values)
                    IN  IF v.kind = "error" THEN Data("none") ELSE v
      agent(mode) == IF held("agent").kind # "agent" THEN <<>>
                     ELSE <<<<held("agent").id, mode>>, <<held("agent").mem, mode>>>>
      memory(mode) == IF held("memory").kind # "memory" THEN <<>>
                      ELSE <<<<held("memory").id, mode>>>>
  IN  CASE i.op = "agent" /\ Has(i, "memory") -> memory("write")
        [] i.op \in {"agent.system_prompt", "agent.do", "agent.route", "agent.flow"} -> agent("write")
        [] i.op = "sync" -> IF held("group").kind = "taskGroup"
                            THEN <<<<held("group").id, "write">>>> ELSE <<>>
        [] i.op = "fork" -> agent("read")
        [] i.op = "memory.append" -> memory("write")
        [] i.op = "memory.copy" -> memory("read")
        [] i.op = "agent.with_memory" -> agent("read") \o memory("write")
        [] OTHER -> <<>>

\* The handles that the operation itself reads and writes, under their locks.
Touched(i, values) ==
  IF i.op # "agent.with_memory" THEN HandleAccesses(i, values)
  ELSE <<<<evaluate(i.operands.agent, values).id, "read">>,
         <<evaluate(i.operands.memory, values).id, "write">>>>

\* Defect: the handles are not looked at, only the names.
addRuntimeResourceDependencies_None(b, values) == [k \in Indexes(b) |-> {}]
addRuntimeResourceDependencies(b, values) ==
  ResourceDependencies([k \in Indexes(b) |-> HandleAccesses(b.instructions[k], values)])

-----------------------------------------------------------------------------
Init == /\ node \in {n \in Nodes : Diagnostics(n) = {}}
        /\ generated \in {g \in BOOLEAN : g => GeneratedDiagnostics(node) = {}}
        /\ frame \in {a \in Arguments : DOMAIN a = node.parameters}
        /\ block = "entry" /\ phase = "enter" /\ visit = 0
        /\ deps = <<>> /\ started = {} /\ ended = {} /\ done = {} /\ failure = NoFailure
        /\ steps = 0 /\ consumed = {} /\ outstanding = {}
        /\ owned = {frame[p].mem : p \in {q \in DOMAIN frame : frame[q].kind = "agent"}}
        /\ reached = {} /\ effects = <<>> /\ atEntry = frame

\* takeStep: one more step is within the budget.
takeStep(used) == used < MaxSteps
Ready(d, over) == {k \in DOMAIN d : d[k] \subseteq over}

\* launchReady: all ready instructions are started, within the step budget, in
\* the order of the text.  Nothing that runs and nothing that is ready is an error.
Launch(d, before, over, finished, used, failed) ==
  LET fresh == IF failed = NoFailure THEN Ready(d, finished) \ before ELSE {}
      within == {k \in fresh : takeStep(used + Cardinality({p \in fresh : p < k}))}
      stuck == before \cup fresh = over /\ finished # DOMAIN d
  IN  /\ started' = before \cup within /\ ended' = over /\ done' = finished
      /\ steps' = used + Cardinality(within)
      /\ failure' = IF failed # NoFailure THEN failed
                    ELSE IF within # fresh THEN Fails("RUN_STEP_BUDGET_EXCEEDED", None)
                    ELSE IF stuck THEN Fails("DEPENDENCY_DEADLOCK", None)
                    ELSE NoFailure

EnterBlock ==
  /\ phase = "enter"
  /\ IF ~takeStep(steps)
     THEN /\ phase' = "failed" /\ failure' = Fails("RUN_STEP_BUDGET_EXCEEDED", None)
          /\ outstanding' = {}
          /\ UNCHANGED <<deps, started, ended, done, steps, effects, atEntry>>
     ELSE LET d == Both(buildInstructionDependencies(Block),
                        addRuntimeResourceDependencies(Block, frame))
          IN  /\ deps' = d /\ Launch(d, {}, {}, {}, steps + 1, NoFailure)
              /\ phase' = "running" /\ effects' = <<>> /\ atEntry' = frame
              /\ UNCHANGED outstanding
  /\ visit' = visit + 1
  /\ UNCHANGED <<run, frame, block, owned, consumed, reached>>

-----------------------------------------------------------------------------
Runs(k) == phase = "running" /\ k \in started \ ended
Self(k) == <<block, visit, k>>

\* memorySlot: the Memory that an instruction allocates.
memorySlot(k) == <<Self(k), "memory">>

\* What each instruction makes of its operands when they are good.
Result(k) ==
  LET i == Instruction(k)
      value(role) == evaluate(i.operands[role], frame)
      fresh == memorySlot(k)
  IN  CASE i.op = "agent" -> AgentHandle(Self(k), IF Has(i, "memory") THEN value("memory").id ELSE fresh)
        [] i.op = "agent.with_memory" -> AgentHandle(Self(k), value("memory").id)
        [] i.op = "fork" -> AgentHandle(Self(k), fresh)
        [] i.op = "memory.copy" -> MemoryHandle(fresh)
        [] i.op \in {"dispatch", "repeat", "agent.route"} -> TaskGroup(Self(k))
        [] i.op \in {"oper", "compute", "script"} -> Data("compute")
        [] OTHER -> Data("frag")

\* The instruction is over: its value is stored, its consumers can start, or its
\* error is the failure of the block, and nothing starts any more.
Succeeds(k) ==
  LET i == Instruction(k)
  IN  /\ frame' = IF i.dst = None THEN frame
                  ELSE [n \in DOMAIN frame \cup {i.dst} |-> IF n = i.dst THEN Result(k) ELSE frame[n]]
      /\ effects' = effects \o [n \in DOMAIN Touched(i, frame) |->
                       [by |-> k, id |-> Touched(i, frame)[n][1], mode |-> Touched(i, frame)[n][2]]]
      /\ reached' = reached \cup ({i.target} \ {None})
      /\ Launch(deps, started, ended \cup {k}, done \cup {k}, steps, failure)
      /\ UNCHANGED <<run, block, phase, visit, deps, atEntry>>
Throws(k, error) ==
  /\ Launch(deps, started, ended \cup {k}, done, steps, IF failure = NoFailure THEN error ELSE failure)
  /\ UNCHANGED <<run, frame, block, phase, visit, deps, reached, effects, atEntry>>

Bad(k) == OperandFailures(Instruction(k).op, Instruction(k).operands, frame)
Good(k) == Runs(k) /\ Bad(k) = {}

\* An operand is not what the instruction requires.
Refuse(k) == /\ Runs(k) /\ \E error \in Bad(k) : Throws(k, error)
             /\ UNCHANGED <<owned, consumed, outstanding>>

\* Its adapter or its child flow fails, or the run is cancelled meanwhile.
Fail(k) == /\ Good(k) /\ Instruction(k).op \notin {"oper", "memory.copy", "agent.with_memory"}
           /\ Throws(k, Fails("ADAPTER", None))
           /\ UNCHANGED <<owned, consumed, outstanding>>

\* agent and agent.with_memory: a Memory is bound to one Agent at a time.
Bind(k) ==
  LET memory == Result(k).mem
  IN  /\ Good(k) /\ Instruction(k).op \in {"agent", "agent.with_memory"}
      /\ IF memory \in owned
         THEN Throws(k, Fails("MEMORY_ALREADY_BOUND", None)) /\ UNCHANGED owned
         ELSE Succeeds(k) /\ owned' = owned \cup {memory}
      /\ UNCHANGED <<consumed, outstanding>>

Fork(k) == /\ Good(k) /\ Instruction(k).op = "fork"
           /\ Succeeds(k) /\ owned' = owned \cup {Result(k).mem}
           /\ UNCHANGED <<consumed, outstanding>>

\* dispatch, repeat and agent.route start a group, which its block's Node has to sync.
StartGroup(k) == /\ Good(k) /\ isTaskGroupProducer(Instruction(k))
                 /\ Succeeds(k) /\ outstanding' = outstanding \cup {Self(k)}
                 /\ UNCHANGED <<owned, consumed>>

Sync(k) ==
  LET group == evaluate(Instruction(k).operands.group, frame).id
  IN  /\ Good(k) /\ Instruction(k).op = "sync"
      /\ IF group \in consumed
         THEN Throws(k, Fails("TASK_GROUP_ALREADY_SYNCED", None)) /\ UNCHANGED <<consumed, outstanding>>
         ELSE /\ consumed' = consumed \cup {group} /\ outstanding' = outstanding \ {group}
              /\ \/ Succeeds(k)
                 \/ Throws(k, Fails("CHILD", None))
      /\ UNCHANGED owned

\* The flow that is called gets the values themselves, ...
invokeFlow(k) ==
  LET operands == Instruction(k).operands
  IN  {evaluate(operands[r], frame) : r \in DOMAIN operands}

\* ... so that it may sync a group.
Call(k) ==
  /\ Good(k) /\ Instruction(k).op = "call"
  /\ \E synced \in SUBSET {v.id : v \in {w \in invokeFlow(k) : w.kind = "taskGroup"}} :
       IF synced \cap consumed # {}
       THEN Throws(k, Fails("TASK_GROUP_ALREADY_SYNCED", None)) /\ UNCHANGED consumed
       ELSE Succeeds(k) /\ consumed' = consumed \cup synced
  /\ UNCHANGED <<owned, outstanding>>

\* All others change Agents and Memories only, or nothing.
Other(k) ==
  /\ Good(k) /\ ~isTaskGroupProducer(Instruction(k))
  /\ Instruction(k).op \notin {"agent", "agent.with_memory", "fork", "sync", "call"}
  /\ Succeeds(k) /\ UNCHANGED <<owned, consumed, outstanding>>

-----------------------------------------------------------------------------
\* A failed block waits for what is running; the Node then aborts its groups.
NodeFails == /\ phase = "running" /\ failure # NoFailure /\ started = ended
             /\ phase' = "failed" /\ outstanding' = {}
             /\ UNCHANGED <<run, frame, block, visit, deps, started, ended, done, failure, steps, owned,
                            consumed, reached, effects, atEntry>>

\* The Node has started a group that it has not synced.
Outstanding == outstanding # {}

\* The terminator: jump, branch or match to a block, ret, or fail.
Completed == phase = "running" /\ failure = NoFailure /\ done = Indexes(Block)
TerminatorFails(error) == /\ phase' = "failed" /\ failure' = error /\ outstanding' = {}
                          /\ UNCHANGED block
Terminate ==
  LET t == Block.terminator
      bad == OperandFailures(t.op, t.operands, frame)
  IN  /\ Completed
      /\ \/ t.op = "ret" /\ Outstanding /\ TerminatorFails(Fails("TASK_GROUP_UNCONSUMED", None))
         \/ (t.op = "ret" => ~Outstanding) /\ \E error \in bad : TerminatorFails(error)
         \/ t.op = "fail" /\ bad = {} /\ TerminatorFails(Fails("FLOW_FAILED", None))
         \/ t.op = "branch" /\ bad = {} /\ TerminatorFails(Fails("BRANCH_CONDITION_NOT_BOOLEAN", None))
         \/ /\ bad = {} /\ \E target \in t.targets :
                 /\ block' = target
                 /\ IF target \in DOMAIN node.blocks
                    THEN phase' = "enter" /\ UNCHANGED <<failure, outstanding>>
                    ELSE /\ phase' = "failed" /\ failure' = Fails("BLOCK_UNKNOWN", target)
                         /\ outstanding' = {}
         \/ /\ t.op = "ret" /\ bad = {} /\ ~Outstanding
            /\ phase' = "returned" /\ UNCHANGED <<block, failure, outstanding>>
      /\ effects' = <<>>
      /\ UNCHANGED <<run, frame, visit, deps, started, ended, done, steps, owned, consumed, reached,
                     atEntry>>

Execute(k) == Refuse(k) \/ Fail(k) \/ Bind(k) \/ Fork(k) \/ StartGroup(k) \/ Sync(k) \/ Call(k)
              \/ Other(k)
\* The invocation is over; in every other state something can happen.
Over == phase \in {"returned", "failed"} /\ UNCHANGED vars
Next == EnterBlock \/ NodeFails \/ Terminate \/ (\E k \in started : Execute(k)) \/ Over
Spec == Init /\ [][Next]_vars

-----------------------------------------------------------------------------
\* Two names, or a name and the Memory of another, held one handle when the block started.
Handles(n) == {atEntry[n].id, atEntry[n].mem} \ {None}
Aliased == \E n, p \in DOMAIN atEntry : n # p /\ Handles(n) \cap Handles(p) # {}

\* An accepted Node never reads a name that has no value, except that an instruction
\* may read the name it defines, and a handle operand of the wrong kind can only
\* be a parameter (validation.ts, computeAvailability, inferKinds).  A generated
\* Node reaches only what it is allowed to (vm.ts, validateGeneratedNodeScope).
NamesHold ==
  /\ failure.code = "VALUE_UNAVAILABLE" =>
       \E i \in Instructions(node) : i.dst = failure.name
            /\ \E e \in References(i.operands) : e.name = failure.name
  /\ failure.code \in {"AGENT_REQUIRED", "MEMORY_REQUIRED", "TASK_GROUP_REQUIRED",
                       "VALUE_PATH_INVALID"} => failure.name \in node.parameters
  /\ failure.code # "BLOCK_UNKNOWN"
  /\ generated => reached \subseteq Allowed

\* An accepted Node syncs every TaskGroup that it starts exactly once on each of
\* its paths, unless it gives one to another flow or its caller gave it one
\* (validation.ts, validateTaskGroupPaths; vm.ts, assertNoOutstandingGroups).
GivesGroup == \E i \in Instructions(node) : i.op = "call" /\ \E e \in References(i.operands) :
                 inferKind(node, e.name) = "taskGroup"
GroupsSyncedOnce ==
  /\ failure.code # "TASK_GROUP_UNCONSUMED"
  /\ failure.code = "TASK_GROUP_ALREADY_SYNCED" =>
       GivesGroup \/ \E n \in DOMAIN frame : frame[n].kind = "taskGroup" /\ n \in node.parameters

\* A block of an accepted Node cannot get stuck, unless two names held one handle,
\* or an instruction whose accesses to the Memory of an Agent the validator does
\* not count is in it: agent.system_prompt and agent.with_memory.
NeverStuck ==
  failure.code = "DEPENDENCY_DEADLOCK" =>
    \/ Aliased
    \/ \E k \in Indexes(Block) : Instruction(k).op \in {"agent.system_prompt", "agent.with_memory"}

\* Instructions that change or read one handle do so in the order of the text, if
\* the block had the handle when it started, under names it does not define, or
\* uses one name for it: whatever names an Agent and a Memory go by, adapters may
\* answer in any order (docs/spec/semantics.md, 6.3; vm.ts,
\* addRuntimeResourceDependencies).
Known(id) == \E n \in DOMAIN atEntry : id \in Handles(n)
HandleNames(k) == {e.name : e \in References([r \in DOMAIN Instruction(k).operands \cap
                      {"agent", "memory", "group"} |-> Instruction(k).operands[r]])}
InTextOrder ==
  \A m, n \in DOMAIN effects :
    LET p == effects[m]
        q == effects[n]
        names == HandleNames(p.by) \cup HandleNames(q.by)
    IN  /\ m < n /\ p.id = q.id /\ "write" \in {p.mode, q.mode}
        /\ (Known(p.id) /\ names \cap DefinedIn(Block) = {}) \/ Cardinality(names) = 1
        => p.by <= q.by
=============================================================================
