------------------------------ MODULE Validation ------------------------------
(***************************************************************************)
(* What the validator accepts (src/src/validation.ts) and the dependencies *)
(* it shares with the VM (src/src/dependencies.ts), for one Node.          *)
(*                                                                         *)
(* A Node is [parameters, blocks], a block [instructions, terminator], an  *)
(* instruction [op, dst, target, operands] with its operands by role, and  *)
(* an operand a literal, a symbol, or a name, perhaps with the path        *)
(* .memory; lists and records are left out.  The target of an instruction  *)
(* is the Node that it calls, or the symbol of the Agent that it creates.  *)
(***************************************************************************)
EXTENDS Naturals, Sequences, FiniteSets

CONSTANTS Arity,    \* the parameters of the writer's other Nodes, by name
          Allowed,  \* the Nodes and Agents that generated code may use
          None      \* no destination, no target

Named(e) == e.kind = "name"
Indexes(b) == DOMAIN b.instructions
Has(i, role) == role \in DOMAIN i.operands

-----------------------------------------------------------------------------
\* dependencies.ts: the names that an instruction or a terminator refers to.
References(operands) == {e \in {operands[r] : r \in DOMAIN operands} : Named(e)}

Agent(e) == <<"source-agent", e.name>>
Memory(e) == <<"source-memory", e.name>>

\* Defect: a copy does not touch the memory that it reads.
resourceAccesses_NoCopy(i) ==
  LET on == i.operands
  IN  CASE i.op \in {"agent.do", "agent.route", "agent.flow"} ->
             <<<<Agent(on.agent), "write">>, <<Memory(on.agent), "write">>>>
        [] i.op = "memory.append" -> <<<<Memory(on.memory), "write">>>>
        [] OTHER -> <<>>
\* What it does to the resources behind the names, in order.
resourceAccesses(i) ==
  LET on == i.operands
  IN  CASE i.op = "agent" /\ Has(i, "memory") -> <<<<Memory(on.memory), "write">>>>
        [] i.op = "agent.system_prompt" -> <<<<Agent(on.agent), "write">>>>
        [] i.op \in {"agent.do", "agent.route", "agent.flow"} ->
             <<<<Agent(on.agent), "write">>, <<Memory(on.agent), "write">>>>
        [] i.op = "sync" -> <<<<<<"task", on.group.name>>, "write">>>>
        [] i.op = "fork" -> <<<<Agent(on.agent), "read">>, <<Memory(on.agent), "read">>>>
        [] i.op = "memory.append" -> <<<<Memory(on.memory), "write">>>>
        [] i.op = "memory.copy" -> <<<<Memory(on.memory), "read">>>>
        [] i.op = "agent.with_memory" ->
             <<<<Agent(on.agent), "read">>, <<Memory(on.memory), "write">>>>
        [] OTHER -> <<>>

\* Each access waits for the last write before it, and a write for the reads
\* since then as well.  accesses: for each instruction, <<key, mode>> in order.
ResourceDependencies(accesses) ==
  LET All == UNION {{[by |-> k, nth |-> n, key |-> accesses[k][n][1], mode |-> accesses[k][n][2]] :
                       n \in DOMAIN accesses[k]} : k \in DOMAIN accesses}
      Before(p, q) == p.by < q.by \/ (p.by = q.by /\ p.nth < q.nth)
      Waits(q, p) == /\ p.key = q.key /\ Before(p, q) /\ "write" \in {p.mode, q.mode}
                     /\ ~\E w \in All : /\ w.key = p.key /\ w.mode = "write"
                                        /\ Before(p, w) /\ Before(w, q)
  IN  [k \in DOMAIN accesses |-> {p.by : p \in {x \in All :
                                     \E q \in All : q.by = k /\ Waits(q, x)}}]

\* A name is read after the instruction of the block that defines it, unless
\* that is the one that reads it.
DataDependencies(b) ==
  [k \in Indexes(b) |->
     {p \in Indexes(b) \ {k} : \E e \in References(b.instructions[k].operands) :
        b.instructions[p].dst = e.name}]

Both(d, e) == [k \in DOMAIN d |-> d[k] \cup e[k]]
buildInstructionDependencies(b) ==
  Both(DataDependencies(b),
       ResourceDependencies([k \in Indexes(b) |-> resourceAccesses(b.instructions[k])]))

\* Instructions that wait for each other.
hasDependencyCycle(deps) ==
  \E S \in SUBSET DOMAIN deps : S # {} /\ \A k \in S : deps[k] \cap S # {}

-----------------------------------------------------------------------------
\* validation.ts: the kinds of values.
instructionResultKind(i) ==
  CASE i.op \in {"agent", "agent.with_memory", "fork"} -> "agent"
    [] i.op = "memory.copy" -> "memory"
    [] i.op \in {"dispatch", "repeat", "agent.route"} -> "taskGroup"
    [] i.op \in {"oper", "compute", "script"} -> "compute"
    [] OTHER -> "frag"
isTaskGroupProducer(i) == i.op \in {"dispatch", "repeat", "agent.route"}

Instructions(node) ==
  UNION {{node.blocks[n].instructions[k] : k \in Indexes(node.blocks[n])} : n \in DOMAIN node.blocks}
DefinedIn(b) == {b.instructions[k].dst : k \in Indexes(b)} \ {None}
KindsOf(node, name) == {instructionResultKind(i) : i \in {j \in Instructions(node) : j.dst = name}}

\* inferKinds: parameters are of any kind, unless the name is defined too.
inferKind(node, name) == IF KindsOf(node, name) = {} THEN "unknown"
                         ELSE CHOOSE k \in KindsOf(node, name) : TRUE
\* A name with the path .memory is a Memory.
OperandKind(node, e) ==
  LET kind == inferKind(node, e.name)
  IN  IF e.memory /\ kind \in {"agent", "unknown"} THEN "memory" ELSE kind

\* The kinds that the operand in a role may have, where that is checked.
Expected(op, role) ==
  CASE role = "agent" -> {"agent", "unknown"}
    [] role = "memory" -> {"memory", "unknown"}
    [] role = "group" -> {"taskGroup", "unknown"}
    [] role \in {"workspace", "count", "minRoutes", "maxRoutes", "condition"} -> {"compute", "unknown"}
    [] op \in {"prompt", "compute", "agent.route", "agent.flow"} /\ role = "arg" ->
         {"frag", "compute", "unknown"}
    [] role = "selector" -> {"compute", "frag", "unknown"}
    [] OTHER -> {"frag", "compute", "agent", "memory", "taskGroup", "unknown"}
KindAccepted(node, op, role, e) ==
  IF Named(e) THEN OperandKind(node, e) \in Expected(op, role)
  ELSE e.kind = "symbol" =>
         /\ role \notin {"workspace", "count", "minRoutes", "maxRoutes", "condition", "selector"}
         /\ role = "arg" => op \notin {"compute", "agent.route", "agent.flow"}

-----------------------------------------------------------------------------
\* The control flow.
Targets(node, n) == node.blocks[n].terminator.targets
Successors(node, n) == Targets(node, n) \cap DOMAIN node.blocks

\* The n-th iterate of a step, from a first value.
Iterate(step(_), first, n) ==
  LET it[k \in 0..n] == IF k = 0 THEN first ELSE step(it[k - 1]) IN it[n]

reachableBlocks(node) ==
  LET step(S) == S \cup UNION {Successors(node, n) : n \in S}
  IN  Iterate(step, {"entry"} \cap DOMAIN node.blocks, Cardinality(DOMAIN node.blocks))

\* Defect: a name that is defined on one of the ways to a block is available there.
Meet_Any(sets) == UNION sets
Meet(sets) == {x \in UNION sets : \A s \in sets : x \in s}
\* computeAvailability: the names that are defined on every way to a block.
computeAvailability(node) ==
  LET names == node.parameters \cup UNION {DefinedIn(node.blocks[n]) : n \in DOMAIN node.blocks}
      first == [n \in DOMAIN node.blocks |-> IF n = "entry" THEN node.parameters ELSE names]
      preds(n) == {p \in reachableBlocks(node) : n \in Targets(node, p)}
      step(incoming) ==
        [n \in DOMAIN node.blocks |->
           IF n = "entry" THEN node.parameters
           ELSE Meet({incoming[p] \cup DefinedIn(node.blocks[p]) : p \in preds(n)})]
  IN  Iterate(step, first, Cardinality(DOMAIN node.blocks) * (Cardinality(names) + 1))

\* validateTaskGroupPaths: for one group, the blocks that can be reached with an
\* instance that is outstanding, and without one.
Defines(b, name) == \E k \in Indexes(b) : isTaskGroupProducer(b.instructions[k])
                                          /\ b.instructions[k].dst = name
Syncs(b, name) == {k \in Indexes(b) : b.instructions[k].op = "sync"
                                      /\ b.instructions[k].operands.group.name = name}
\* Defect: a block is visited once, with the first state that gets there.
Paths_Once(node, name) ==
  {<<n, FALSE>> : n \in reachableBlocks(node)}
Leaves(b, name, outstanding) == Syncs(b, name) = {} /\ (outstanding \/ Defines(b, name))
Paths(node, name) ==
  LET step(S) == S \cup UNION {{<<t, Leaves(node.blocks[s[1]], name, s[2])>> :
                                   t \in Successors(node, s[1])} : s \in S}
  IN  Iterate(step, {<<"entry", FALSE>>}, 2 * Cardinality(DOMAIN node.blocks))

TaskGroupDiagnostics(node) ==
  LET blk(s) == node.blocks[s[1]]
      Of(name) ==
        LET P == Paths(node, name)
            codes(s) ==
              (IF Defines(blk(s), name) /\ s[2] THEN {"TASK_GROUP_REDEFINED"} ELSE {})
              \cup (IF Syncs(blk(s), name) # {} /\ ~s[2] /\ ~Defines(blk(s), name)
                    THEN {"TASK_GROUP_SYNC_INVALID"} ELSE {})
              \cup (IF Cardinality(Syncs(blk(s), name)) > 1
                    THEN {"TASK_GROUP_MULTIPLE_SYNC"} ELSE {})
              \cup (IF Targets(node, s[1]) = {} /\ Leaves(blk(s), name, s[2])
                    THEN {"TASK_GROUP_UNCONSUMED"} ELSE {})
        IN  UNION {codes(s) : s \in P}
            \cup (IF \A s \in P : Syncs(blk(s), name) = {} THEN {"TASK_GROUP_UNCONSUMED"} ELSE {})
  IN  UNION {Of(i.dst) : i \in {j \in Instructions(node) : isTaskGroupProducer(j)}}

-----------------------------------------------------------------------------
ReferenceDiagnostics(node, e, available) ==
  IF e.name \notin available THEN {"NAME_UNAVAILABLE"}
  ELSE IF e.memory /\ inferKind(node, e.name) \notin {"agent", "unknown"}
       THEN {"MEMORY_PATH_INVALID"} ELSE {}

OperandDiagnostics(node, op, operands, available) ==
  UNION {ReferenceDiagnostics(node, e, available) : e \in References(operands)}
  \cup (IF \A r \in DOMAIN operands : KindAccepted(node, op, r, operands[r])
        THEN {} ELSE {"VALUE_KIND_INVALID"})

\* The number of arguments of a call (args) is part of the instruction.
CallDiagnostics(i) ==
  IF i.target = None \/ i.op = "agent" THEN {}
  ELSE IF i.target \notin DOMAIN Arity
       THEN {IF i.op \in {"agent.route", "agent.flow"} THEN "FREEDOM_NODE_UNKNOWN" ELSE "FLOW_UNKNOWN"}
       ELSE IF i.op \in {"call", "dispatch", "repeat"}
               /\ Arity[i.target] # Cardinality(DOMAIN i.operands \ {"count"})
            THEN {"CALL_ARITY"} ELSE {}

\* Literal limits of a controlled activation.
LimitDiagnostics(i) ==
  LET literal(role) == Has(i, role) /\ i.operands[role].kind = "literal"
      low == i.operands.minRoutes.value
      high == i.operands.maxRoutes.value
  IN  IF \/ literal("minRoutes") /\ low < 0
         \/ literal("maxRoutes") /\ high <= 0
         \/ literal("minRoutes") /\ literal("maxRoutes") /\ low > high
      THEN {"FREEDOM_CONSTRAINT_INVALID"} ELSE {}

\* A Memory is bound to one Agent.
MemoryBindingDiagnostics(b) ==
  LET binding == {k \in Indexes(b) : b.instructions[k].op \in {"agent", "agent.with_memory"}
                                     /\ Has(b.instructions[k], "memory")}
      bound(k) == b.instructions[k].operands.memory
  IN  (IF \E k \in binding : bound(k).memory THEN {"MEMORY_ALREADY_BOUND"} ELSE {})
      \cup (IF \E k, p \in binding : k # p /\ bound(k).name = bound(p).name
                                     /\ ~bound(k).memory /\ ~bound(p).memory
            THEN {"MEMORY_MULTIPLE_BIND"} ELSE {})

BlockDiagnostics(node, n, available) ==
  LET b == node.blocks[n]
      here == available[n] \cup DefinedIn(b)
  IN  UNION {OperandDiagnostics(node, i.op, i.operands, here)
             \cup CallDiagnostics(i) \cup LimitDiagnostics(i) :
               i \in {b.instructions[k] : k \in Indexes(b)}}
      \cup OperandDiagnostics(node, b.terminator.op, b.terminator.operands, here)
      \cup (IF hasDependencyCycle(buildInstructionDependencies(b)) THEN {"DEPENDENCY_CYCLE"} ELSE {})
      \cup (IF \E k, p \in Indexes(b) : k # p /\ b.instructions[k].dst = b.instructions[p].dst
                                        /\ b.instructions[k].dst # None
            THEN {"DESTINATION_DUPLICATE"} ELSE {})
      \cup (IF Targets(node, n) \subseteq DOMAIN node.blocks THEN {} ELSE {"JUMP_TARGET_UNKNOWN"})
      \cup MemoryBindingDiagnostics(b)

\* validateNode
Diagnostics(node) ==
  LET available == computeAvailability(node)
  IN  (IF "entry" \in DOMAIN node.blocks THEN {} ELSE {"ENTRY_MISSING"})
      \cup (IF \A i \in Instructions(node) : i.dst = None \/ Cardinality(KindsOf(node, i.dst)) = 1
            THEN {} ELSE {"VALUE_KIND_CONFLICT"})
      \cup UNION {BlockDiagnostics(node, n, available) : n \in DOMAIN node.blocks}
      \cup TaskGroupDiagnostics(node)

\* validateGeneratedNodeScope: generated code gets what it is allowed to use,
\* and nothing that reaches a binding but through an Agent.
GeneratedDiagnostics(node) ==
  LET symbolIn(i, role) == Has(i, role) /\ i.operands[role].kind = "symbol"
  IN  UNION {(IF i.op \in {"agent", "call", "dispatch", "repeat"} /\ i.target \notin Allowed
              THEN {"FREEDOM_IR_DENIED"} ELSE {})
             \cup (IF i.op \in {"input", "script", "invoke", "agent.route", "agent.flow"}
                   THEN {"FREEDOM_IR_INSTRUCTION_DENIED"} ELSE {})
             \cup (IF symbolIn(i, "prompt") \/ symbolIn(i, "source") \/ Has(i, "formatter")
                   THEN {"FREEDOM_IR_SYMBOL_DENIED"} ELSE {}) : i \in Instructions(node)}
=============================================================================
