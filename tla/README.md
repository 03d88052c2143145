# Agent-Flow-Language: TLA+ models, checks and proofs

Agent-Flow-Language (AFL) is a TypeScript virtual machine (`src/src/vm.ts`) that runs programs
made of nodes, basic blocks and instructions: instructions of a block run as soon as what they
depend on is done, `dispatch` starts groups of child flows, `sync` joins them, `agent.do` lets an
LLM agent work in a workspace on behalf of a Memory. One run is one JavaScript process and one
event loop. Concurrency is therefore cooperative: code between two `await`s is atomic, and every
hazard of this program is an order of promise continuations, abort signals, and crashes of the
process between two writes to disk. All line numbers below refer to the repository's `src/`.

## 1. Inventory

### 1.1 Components that carry the program's own logic

| component | code | state it keeps | operations | talks to |
|---|---|---|---|---|
| Handle locks | `concurrency.ts` `ResourceLocks` | per handle: readers, writer flag, queue | `use` = normalize, acquire in key order, run, release and drain; abort of a waiter | every `agent.do`, `fork`, `memory.*` instruction of the VM |
| Workspace locks | `concurrency.ts` `WorkspaceLocks` | active leases, one FIFO queue | `use` = acquire all or wait, run, release and drain; abort of a waiter | `runAgent`, around the executor |
| Execution permits | `concurrency.ts` `Semaphore`, `vm.ts` `SuspendableSemaphoreLease` | active count, waiters; per lease: release function, suspended count, closed, chain of transitions | `open`, `suspend` (enter, leave, re-acquire), `close`, abort | `runAgent`, host calls of an executor, child activations that these calls run |
| Approval queue | `approval-queue.ts` | pending list, active request, per request: settled, started | `enqueue`, `present`, `cancel`, `close` | the tool authorizer and the control runtime; observers; a presenter (the terminal) |
| Node scheduler | `vm.ts` `executeNode`, `executeBlock`, `startTaskGroup`, `sync` | per block: remaining, active, completed, failure, linked controller; per frame: `taskGroups`; per group: controller, semaphore, promises | launch, complete, fail, dispatch, sync, terminators, cancellation | everything the instructions call |
| Run lifecycle | `vm.ts` `AflVm.run` | recovery run, memory run, trace, budgets | open, restore, execute, terminal record, close | recovery journal, memory store, executor |
| Agent activation | `vm.ts` `runAgent` | the durable operation, the attempt, the continuation, the effect claims | prepare, input message, attempt, execute, output message, session, complete | locks, permits, journal, memory store, executor, authorizer |
| Recovery journal | `recovery.ts` | records, operation states, append queue, sticky failure | open, prepare, complete, interrupt, restart, terminal records, load | file system |
| Memory persistence | `memory.ts`, `memory-store.ts` | slots with revisions, operation base and attempt, commit queue, sticky failure | claim, capture, begin and abort attempt, append continuation, save, restore | file system; the VM's in-memory messages |
| Freedom control | `vm.ts` control runtime, `freedom.ts` | routes, references, counters, control index, snapshot, route group | control calls, route validation and reservation, delivery, restore, launch | planner executor, journal, approval queue, child flows |
| Tool policy and authorization | `agent-tool-policy.ts`, `agent-tools.ts`, `vm.ts` `authorizeAgentTool`, `cc-safety-net-policy.ts` | policy decisions, candidates for elevation | evaluate policies, review, approve, elevate | approval queue, Pi executor |
| Instruction dependencies | `dependencies.ts` | none (pure) | which instructions of a block wait for which | validator, node scheduler |
| Validation | `validation.ts` | none (pure) | kinds, availability of names, task groups along all paths, cycles, bindings, scope of generated code | loader, `agent.flow` |
| Pi executor | `pi-agent-executor.ts` | live sessions, their durable records, candidates of the running activation | execute, fork, import, export, close, durability events, the `tool_call` hook | `runAgent`, memory store, the Pi library (external) |

The remaining components (workspace paths, bubblewrap worker, parser and IR, builtins, bindings and
adapters, visualizer, generator, command line) are sequential or pure I/O; `PROJECT.json` lists each
with the reason it is not modelled.

### 1.2 What is hard, and the properties that make each component correct

* **Locks** - two callers that need two handles; a signal that fires after a grant and before the
  grantee resumes; an aborted waiter in front of others; nested directories in mixed modes.
  Correct means: no two tasks own conflicting claims, the stored counters never drift from what
  callers still have to release, nobody is forgotten in a queue, nobody overtakes, all callers end.
* **Permits** - a parent that waits in a host call for a child which needs the parent's permit;
  overlapping host calls; `close()` between two transitions of a lease. Correct means: permits are
  conserved, an executor computes only under one, a closed lease owns nothing, nothing deadlocks
  even with one permit.
* **Approvals** - a cancel, an abort or a close at any await of `present()`; an answer given to a
  request that is gone. Correct means: one request at a time, one settlement per promise, an
  approval only by an answer to that very request, every request settles, `close()` is final.
* **Node scheduler** - failures of several instructions and tasks at once, aborts at every step, a
  group that outlives its block. Correct means: structured concurrency (nothing outlives the node),
  no start after a failure, the root cause surfaces, every node ends.
* **Durable execution** (`runAgent`, journal, memory store) - a crash between any two writes, a
  write that fails for good, a resume that replays finished operations. Correct means: a prompt and
  an answer are in a transcript once, an answer that is durable is never computed again, a finished
  operation is told the same result, and every journal that is written can be loaded.
* **Freedom control** - overlapping control calls that read state before an await and use it after; a
  crash between the effect of a call, its result, its delivery and the launch of the routes. Correct
  means: budgets hold over all processes, every call has one result, the routes that start are those
  the planner was told of, nobody completes over an unsettled call.
* **Data flow of a node** - names on some paths only, groups dispatched in one block and synced in
  another, two names for one handle. Correct means: what the validator accepts does not fail at run
  time for a reason the validator decides about, and instructions on one handle keep the text's order.
* **Sessions** - the transcript of a native session and the AFL Memory go different ways (appends,
  copies, other agents, resumption) and are brought together again by forks, imports and deltas.
  Correct means: the model sees the Memory's messages once, in order; what is on disk can replace the
  session at any moment; no session is shared or left behind.
* **Tools** - approvals that come late, candidates of another activation, policies in any order.
  Correct means: an elevated call runs by its own approval, for an action that was stopped in this
  activation, and against no policy.

`PROJECT.json` lists 40 hazards, each at the line where it bites, with the properties that would
catch it. One has no property: the nested activations of the plan in section 5.

## 2. Modules

| module | models | how it corresponds to the code |
|---|---|---|
| `LeaseTable` | what a lock service promises (strict two-phase locking) | abstract: one variable `holds`, one step |
| `ResourceLocks` | class `ResourceLocks` | `readers`, `writer`, `queue` are the fields of `LockState`; `need`, `held`, `pc` are the locals of each running `use()`; one action per continuation |
| `WorkspaceLocks` | class `WorkspaceLocks` | `active` and `waiters` are its fields, `need` the normalised request of each caller, `fired` the signals; the listeners of a signal run one by one (`onAbort`), and while they do (`Dispatching`) nothing else of the class runs |
| `ExternalLease` | `Semaphore` and `SuspendableSemaphoreLease`, driven by `runAgent` and `createAgentHost` | `active`, `waiters` are the semaphore; `holding`, `suspended`, `closed` the lease's fields; `chain` its promise chain; `lease` where `runAgent` is |
| `ApprovalQueue` | class `FifoAgentApprovalQueue` | `pending`, `active`, `settled` are its fields, `at` the await at which `present()` is, `events` what observers saw, `outcome` what `enqueue()` settled to |
| `ToolGate` | the policies, `authorizeAgentTool`, the `tool_call` hook and the elevated tool of the Pi executor; EXTENDS `ApprovalQueue`, whose requests it makes among those of other agents | `candidates` is `elevationCandidates`, `running` the plain tool calls, `call` the elevated or transaction call, `heard` what each policy says |
| `TaskGroups` | the concurrency of `executeNode`, `executeBlock`, `startDispatch`, `startTaskGroup`, sync, `linkedController`, `selectTaskGroupFailure` | `inst` is the state of each instruction's promise, `failure` and `blockReason` the block's failure and controller, `task`, `reason` the group's promises and controller, `outstanding` is `frame.taskGroups` |
| `Validation` | `validateNode`, `validateGeneratedNodeScope` and `dependencies.ts`, as operators on a node given as data | operators keep the names of the functions; `Diagnostics(node)` is the set of codes |
| `NodeExecution` | the data flow of `executeNode`, `executeBlock`, `executeInstruction`, of nodes that `Validation` accepts | `frame` is `frame.values`, `deps` the union of static and runtime dependencies, `started`, `ended`, `done` the sets of `executeBlock`, `owned` the memories with an owner, `consumed` and `outstanding` the groups |
| `PlannerControl` | the planner of `agent.route` and `agent.flow`: `executeAgentControlEffect`, `completeAgentControlEffect`, `executeAgentTransactionEffect`, `executeAgentInputEffect`, `prepareAgentNestedOperation`, `finalizeAgentNestedEffects`, the freedom tools and their scope, the journal's append queue | `scope` is the control runtime's scope, `ops` and `delivered` what the journal holds, `queue` its appends in flight, `call` the await at which each call is, `children` the paths of the Nodes that ran, `told` the executor's durable continuation |
| `PiSessions` | sessions in `vm.ts` (restore, synchronize, export, invalidate, `system_prompt`, `with_memory`, `fork`), `pi-agent-executor.ts` and the continuation in `memory-store.ts` | `agent`, `memory` are the handles with session and checkpoint, `session` the executor's records, `slot` the memory files, `act` where `runAgent` is and what the model has said; a session keeps its entries and its durable records apart (`Unrecorded`), as a change of the tools is in the one and not yet in the other |
| `AnswerOnce` | what durable execution promises: one answer per operation, and only that one is told | abstract: `answer`, `told` |
| `DoRecovery` | `agent.do`, `memory.append`, `memory.copy`, the journaled calls of adapters (prompts, input, formatters), the end, cancellation and resumption of a run: `runAgent`, `runPortableRecoveryOperation` and `run` of `vm.ts`, `recovery.ts`, `memory-store.ts` | `loadable` is what `loadRecoveryRun` makes of the journal on disk, `journal` and `status` what this process has of it, `files`, `records`, `base` the memory files; `mem` the memory handles, `remembered` the store's `histories`, `sick` its and the journal's `failure`, `at` the await at which each operation is |
| `ResourceLocksProofs`, `WorkspaceLocksProofs`, `ExternalLeaseProofs`, `ToolGateProofs`, `TaskGroupsProofs`, `DoRecoveryProofs`, `PlannerControlProofs`, `PiSessionsProofs` | - | theorems about the module of that name (`ToolGateProofs` also about `ApprovalQueue`); those about queues begin with what they need to know of them: who is in one, how often, in what order, and what an append, a shift and a splice do to that |
| `MC*` | - | the finite instances that TLC checks |

`PROJECT.json` maps every definition to the lines it translates. Conventions in all modules:

* **One action is one synchronous stretch** of JavaScript: a release with the drain it runs, an
  abort with all its listeners, `use()` up to its next await. In `WorkspaceLocks` each listener is
  an action, because a listener drains the queue while others of its signal are still to run; whatever else the
  class does waits for the last of them. Continuations of settled promises are
  separate actions, so whatever the event loop can put between two awaits is explored.
* **AbortSignals** are sets of fired signals; `linkedController` is modelled by what it does: an
  abort reaches the targets linked at that moment, once.
* A definition named `X_Y` with a comment `Defect:` is not part of a specification. It is `X` with
  a plausible bug and shows that a property notices it; `PROJECT.json` "mutants" names the property.
* Data is abstracted to what the code branches on: requests are sets of keys and modes, a failure
  is one of four kinds, an approval answer is approved, denied or failed, a message is its operation
  and role, a policy's opinion one of five, an expression a literal, a symbol or a name.
* History variables (commented `history:`) are read by properties only, never by a guard of the code.

**Abstract specifications.** `LeaseTable` says what both lock services promise: a task's claims only
grow, are given back all at once, and no two tasks own conflicting claims. `ResourceLocks` (claims
are keys with a mode, granted one by one) and `WorkspaceLocks` (claims are directories, granted
together, conflict through containment) both define `holds` from their own state and implement it:
property `TwoPhase`, checked by TLC and proved by TLAPS for both. `AnswerOnce` has two variables and
two steps: an operation without an answer gets one, and the program is told the answer that is
there, perhaps at once. `DoRecovery` implements it with `answer` read from the memory files (for adapters,
from the journal) and `told` collected over
all processes of the run; `PlannerControl` implements it with `answer` read from the journal and
`told` the executor's continuation. Crashes, torn writes, repeated calls and repeated execution are
then stutters (property `AnsweredOnce` of both).

**Composition.** `ToolGate` puts the gate of an agent session and the approval queue into one state
space: elevated calls are requests of the queue, in between those of other agents. `NodeExecution`
composes the validator and the VM: its initial states are the nodes for which `Diagnostics` is empty.
`PiSessions` composes VM, executor and memory store; `DoRecovery` VM, journal and memory store.

## 3. Runs: what each one checks

| run | instance | states | what it shows |
|---|---|---|---|
| `resource_locks` | 3 callers, 2 keys, 4 request lists, any of the 3 signals | 40 thousand | lock words equal what is owed; no lost wakeup; first come first served per key; implements `LeaseTable`; every `use()` ends |
| `workspace_locks` | 4 callers (two on one signal), a directory with two disjoint ones in it, 4 request lists | 59 thousand | head blocked by an active lease or about to leave; no lease for a waiter whose signal has fired, whichever listener drains first; strict order; implements `LeaseTable`; every wait ends |
| `external_lease` | 1 permit, a parent with 2 host calls, its child, an unrelated agent with 1 call | 47 thousand | permits conserved, and held by everybody who computes and by nobody else; every activation ends |
| `approval_queue` | 4 requests, capacity 3, with a session of 2 tools under 2 policies | 466 thousand | one request at a time, in order, waiting only behind it; approved only by its own answer; one settlement, final after `close()`; all settle; an elevated call runs by its approval, for an action stopped in this activation |
| `task_groups` | 2 blocks, 2 dispatches (1 and 3 tasks, 2 workers), one synced in its block, one in the next | 196 thousand | nothing outlives the node; its outcome is that of its tasks, with the root cause; workers exact and nothing started after a failure; an abort reaches the groups of the running block; the node ends |
| `task_groups_abort` | the same | violation | see section 6 |
| `do_recovery` | append, copy, then two agents at work on the memory and on its copy, an adapter that gets what one of them said, then append; up to 2 stops by a fault | 59 thousand | transcripts exact, and a memory that is no copy always recovers; every journal loads; answered once (implements `AnswerOnce`); no agent executed again after its answer, no adapter called twice; the run ends unless an adapter's result is lost |
| `do_recovery_copy`, `do_recovery_base` | the same, 1 stop and no stop | violation | see section 6 |
| `planner_control` | 3 call ids; routes (one denied by the policy), inputs and transactions in `agent.route`, Node and program (of no, one or more Nodes) in `agent.flow`; at most 2 routes, 2 control calls and 1 program; completed calls are repeated; 1 resumption | 664 thousand | nothing unsettled at completion; answered once (implements `AnswerOnce`); every call ends. Of calls that come one after another and are not refused at a limit: the journal can be resumed from; the routes that start are those told; the budget is kept over both processes, and so are the paths of operations |
| `node_execution` | all accepted nodes of one block with up to 3 of 21 instructions, of two blocks with loops, and of three blocks that join; 3 ways to alias the parameters | 103 thousand | names have values of their kind; groups are synced once on every path; no block gets stuck; instructions on one handle keep the order of the text |
| `pi_sessions` | 2 agents, 2 memories, 2 system prompts, 3 sessions, 3 inputs or appended messages (one input with a format, which is answered by an output or by text only), a change of the tools, 1 crash | 972 thousand | the model sees the Memory exactly and the files can replace the session at any moment, until a session goes on over an unrecorded change of tools; sessions have one owner |

The type invariants and a few finer statements are conjuncts of the invariants named here.

**Why the bounds are enough.** Three lock callers on two keys give every deadlock cycle of length
two, a writer between two readers, and an abort of each position in a queue of two; request lists
contain the mode mixes that `vm.ts` passes, including a key named twice. Four workspace callers give
a queue of three behind an active lease, so an abort can take the head, the middle or, through the
shared signal, two of them. The parent's two calls are the least number that overlap, one permit is
the tightest limit. Four requests on capacity three give an active one, two that wait in order, and a
refused one; requests are numbered in the order of their calls. Two policies give every order of a
denial, a block and an abstention (that `Evaluate` agrees with an order-free reading is the assumption
`PolicyReference`, evaluated in that run); two candidates give one that is used up behind another;
`MaxTogether` keeps longer queues to other agents. Three tasks on two workers give a queued task; two
blocks give a group that is synced where it was started and one that is not. Two stops give a resumed
run that is stopped and resumed once more (and a third time if a lost result of an adapter stops it); the
six operations give an append before the memory has a file and one after, an agent that works on a
memory while another one materializes it as its base, both orders of the two, and an adapter's call that
is prepared, running or returned while an agent is at work. Three call ids give two calls that overlap and a third after a resumption;
limits of one and two are met and exceeded, and a program that calls two Nodes meets the one on routes. Calls overlap only in the first process, under the first
two ids, and with calls of their kind (`OverlapIn`, `Together`): a resumed process meets what the
overlap has left. Three instructions are the shortest block in which two dependencies close a cycle or
an order is lost through a third; loops of one and two blocks and a join give all ways a group or a
name can be carried. Two agents and two memories give a copy that outlives its source's session, a
fork, and a second user of a copied checkpoint; three sessions are one more than agents.

The bounds are: `Tasks`, `Keys`, `RequestLists`, `Agents`, `MaxCalls`, `MaxTogether`, `MaxCandidates`,
`NumPolicies`, `Instructions`, `Size`, `LastBlock`, `Ops` (with `Kind`, `Mem`, `Dest`, `After`),
`MaxStops`, `Requests`, `Together`, `OverlapIn`, `MaxResumes`, `Nodes`, `MaxSteps` (which is the run's
step budget as well), `MaxNumber`, `ToolChanges`, `MaxSessions`, `MaxPrompts` and `MaxCrashes`. In the lock modules a
caller may use the locks again and again; a signal that fired stays fired.

`CHECK_DEADLOCK FALSE` stands where the modelled part really comes to rest: a closed queue, a node
that ended, a run that completed or failed, activations that are over, a system of aborted callers, a
bound that is used up. `resource_locks` checks deadlock, and so does `node_execution`: an invocation
that is not over has a step.

**Fairness.** All fairness is weak fairness on the continuations of one caller, agent, request,
instruction or task: a resolved promise's continuation is run by the event loop whatever else
happens, and it stays enabled until it runs. In addition it is assumed that the work under a lock or
lease, the presenter, the observers, adapters and child flows end; the code has no way to force
that except its signals. `ExternalLease` assumes that an executor ends only while none of its host
calls is in the VM and none of its transitions waits (`ExecutorDone`): one whose call waits for a child may wait
for ever, so that `EveryLeaseEnds` is about the lease and not about the patience of executors.
`WorkspaceLocks` assumes that the dispatch of a signal goes on. Nothing is assumed about aborts, new requests, `close()`, or which
of several continuations comes first. `DoRecovery` assumes that steps of the VM are taken while one can
be, and that somebody resumes the run while it can be resumed; faults need not happen, and there are at most `MaxStops`.
`PlannerControl` assumes that each call and the append queue go on, and that the activation's timer
fires in the end (`timeout_ms`): that is what ends a call that waits for the delivery of one that
failed. No liveness property needs strong fairness, because no queue
lets a newcomer overtake.

## 4. Proofs

Checked by `tlapm` for every value of the constants: any number of callers, keys, agents, permits,
requests, blocks, tasks, operations, calls, sessions, stops and resumptions, and every overlap of them. The
assumptions are those of the modules and say what the code establishes before the modelled part
runs; TLC evaluates each of them on the instances. Every inductive invariant was checked by TLC on
the instance of its run before it was proved (that of `PlannerControl` with `Scopes` cut down to the scopes of the
state at hand, as the set of all of them is infinite).

| theorem | property | of |
|---|---|---|
| `MutualExclusion`, `LostWakeupFreedom`, `InQueueOrder`, `ImplementsLeaseTable` | `LockStateExact`, `NoLostWakeup`, `FirstComeFirstServed`, `TwoPhase` | `ResourceLocks` |
| `LostWakeupFreedom`, `AbortedGetNothing`, `InOrder`, `ImplementsLeaseTable`; `WorkspaceExclusion` | `HeadBlocked`, `NoLeaseForTheAborted`, `FirstComeFirstServed`, `TwoPhase`; `QueueExact` and `Exclusion` | `WorkspaceLocks` |
| `PermitsKept` | `PermitsExact` | `ExternalLease` |
| `SlotKept`, `ApprovalIsAnAnswer`, `SettlingIsFinal` | `SlotExact`, `ApprovedByAnswer`, `SettledOnce` | `ApprovalQueue` |
| `GateIsKept`, `GateImplementsQueue` | `GateKept`; every step of the gate is one of the queue | `ToolGate` |
| `NothingIsLeft`, `OutcomeKept`, `AbortsReach`, `WorkersAreExact` | `NothingOutlivesNode`, `OutcomeIsTheTasks`, `BlockAbortReachesGroups`, `WorkersExact` | `TaskGroups` |
| `JournalCanBeLoaded`, `ExecutedUntilAnswered`, `EveryOperationAnsweredOnce` | `JournalLoads`, `NeverRepeated`, `AnsweredOnce` (implements `AnswerOnce`) | `DoRecovery` |
| `MessagesStayExact`; `TranscriptStaysExact`, of programs that are `Ordered` | `TypeOK` and `MessagesExact`; `TranscriptExact` | `DoRecovery` |
| `PlannerSettles`, `OneAnswer` | `NothingUnsettled`, `AnsweredOnce` (implements `AnswerOnce`) | `PlannerControl` |
| `JournalKept`, `RoutesKept`, `BudgetIsKept` | `JournalAccepted`, `RoutesAreWhatWasTold`, `BudgetKept` | `PlannerControl` |
| `FileReplacesSession`, `NoSessionShared`, `PromptSeesMemory` | `JournalExact`, `SessionsOwned`, `ContextExact` | `PiSessions` |

`TypeCorrect` of `ResourceLocks`, `WorkspaceLocks`, `ExternalLease`, `TaskGroups` and `PlannerControl`
are theorems as well; the other modules have their types in the invariants below.

**`ResourceLocksProofs`** - assumptions `TasksFinite`, `KeysOrdered` (keys are numbers, standing for
the order of `localeCompare`), `RequestsAssumption`. Mutual exclusion is not inductive: the code
decides on two numbers per key, and a number says nothing about who is in. The inductive invariant is

    IInv == TypeOK /\ QueueInv /\ HeldInv /\ LockStateExact /\ Exclusion

`LockStateExact` ties the numbers to the tasks that still owe a release; to keep it through a drain
one needs `QueueInv` (a queued task waits, once, for exactly its next key, so a grant cannot be made
twice) and `HeldInv` (a task holds only what it asked for, nothing outside `use()`). The lemmas about
`LeadingReads` say that a drain serves a nonempty prefix that is one writer or readers only.
`NoLostWakeup` is a further invariant on top of `IInv`; `FirstComeFirstServed` is about steps: a drain serves a prefix, so
whoever it serves was in front of whoever stays.

**`WorkspaceLocksProofs`** - assumptions `TasksFinite`, `SignalsAssumption`, `OverlapSymmetric`,
`RequestsAssumption`. Here a drain is a loop over a queue whose every grant changes what the next one
is compared with; the key lemma is that `ServedCount` exists and that the prefix it names is
conflict-free together with the active leases and is maximal. The inductive invariant is
`IInv == TypeOK /\ QueueExact /\ Exclusion /\ HeadBlocked`; `HeadBlocked` needs that a lease which is
given back, or a waiter that leaves, is always followed by a maximal drain. A drain that a listener starts works on
the queue without its waiter (`RemoveOne`) and may meet others of the same signal: `Served` leaves them out, so
`AbortedGetNothing` follows from the same lemma.

**`ExternalLeaseProofs`** - assumptions `AgentsFinite`, `ParentAssumption`, `LimitAssumption` (at least
one permit; any number of host calls for each agent). `PermitsExact` counts, but that an executor which
computes owns a permit is a fact about the order of transitions in its lease's promise chain.

    IInv == TypeOK /\ QueueInv /\ (\A b \in Agents : LeaseExact(b)) /\ PermitInv

`LeaseExact` says that `suspended` is the number of host calls inside the VM and of "leave"s still in the chain,
that nothing is queued in a chain without a lease, and that a lease which computes owns a permit unless
its next transition gets it one. `QueueInv` says who can wait: nobody twice, and only a lease that is opening, or one
that is at its "regain", not closed and not aborted; without it a permit could be handed to somebody who
gives none back. `PermitInv` (`active` counts the owners, and is `Limit` while somebody waits) is then kept by
every release, which either hands the permit on or lowers the count.

**`ToolGateProofs`** - assumptions `CallsAssumption`, `CapacityAssumption`, `GateAssumption`. The three
properties of the queue rest on one invariant:

    QueueInv == TypeOK /\ (\A r \in Requests : StoryExact(r)) /\ PlaceExact

A request's state is spread over its entry, its promise and what observers were told: `StoryExact` says that
the events an observer has seen, the await at which `present()` is, and the outcome determine each other (an answer
settles the promise, and is recorded only before a cancel). `PlaceExact` says that an open request is in the queue or
in the slot, that the queue is in the order of the calls, and that somebody waits only while the slot is taken.
`GateImplementsQueue` then shows that every step of `ToolGate` is a step of the queue or leaves it alone, so these
theorems hold of the gate too. `GateInv` adds that `due` counts the candidates of the running activation, and that an
elevated call, while it waits and runs, is alone and points at its own candidate, for which no policy has said a firm no.
`EvaluateStates` proves what the loop over the policies computes: for any number of them, in any order, it
denies if one is firm, else blocks if one objects.

**`TaskGroupsProofs`** - assumptions `ProgramAssumption` (any finite set of instructions in any number of
blocks, dependencies inside a block), `SyncAssumption` (a sync of a group of its block depends on the dispatch, as
`dependencies.ts` makes it), `WorkersAssumption`. The inductive invariant is

    Inv == TypeOK /\ InstExact /\ GroupExact /\ TaskExact /\ WorkersKept /\ BlockExact

`NothingOutlivesNode` needs to know who answers for a running task at every moment: `GroupExact` says that a group that was
started is outstanding in the frame, or owned by a sync that waits, or its tasks have settled; `BlockExact` says what a
block leaves when it ends; `OutcomeIsTheTasks` needs in addition that an abort reason has a cause (`GroupExact`), and `WorkersExact`, which
is about steps, that a queued task has a full group in front of it (`WorkersKept`).

**`DoRecoveryProofs`** - assumptions `ProgramAssumption`, `CopyAssumption`, `NameAssumption` and `NothingAssumption`.
Nothing is assumed of the program's order, of the number of processes that stop or of the writes that
fail. The state of a run is spread over the journal, the memory files, the memories of the process and
the awaits of its operations, and each is ahead of the others at some moment.

    RecoveryInv == ControlInv /\ DataInv
    ControlInv  == JournalInv /\ Exclusive /\ Attempts
    DataInv     == TextTyped /\ Based /\ Filed /\ Forked /\ Texts /\ AnswersSaved /\ Placed /\ Results /\ OpsAreTyped

`JournalInv` gives `JournalLoads` alone. The loader reads what is on disk, the process appends by what it
remembers: its part `KnownExact` says that the two agree except for a record that was torn, and then
the journal is sick and its operation has failed; `PlaceExact` what an operation that is at an await has in the
journal, so that no record is appended twice; `LoadedExact` that a completed run lacks nothing.
`Exclusive` says that one operation works on a memory at a time, after those it waits for, and `Attempts`
bounds executions by processes.

For everything else one has to know which messages are where. `Texts` is the key: a message stands at the
revision that its operation was prepared for, an answer behind its own input, in the process
and in the file alike, so nothing can be there twice. `Filed` says that a file is the beginning of the
memory or ahead of it by the one answer that the executor has journaled and the VM has not yet
taken over; `Based` and `Forked` the same of a copy, whose file begins where its source was when it was
copied; `Placed` which messages an operation must find at each await; `AnswersSaved` and `Results` that an
answer somebody was told is in the file. Then `NeverRepeated` and `AnsweredOnce` follow step by
step: an answer in a file never moves, and it is looked for before an agent is executed.

`TranscriptExact` has a last part, that only a copy makes a resumed run fail for good. It has a
hypothesis, `Ordered`: what works on a memory that is no copy is chained by `After`. `dependencies.ts:29`
chains the accesses of one block by the name of the memory, and `docs/spec/semantics.md:112` promises
that order; instructions of different blocks, or of one block that know the memory by two names, are
not chained by name, so this is a hypothesis of the theorem and not an assumption of the module. (The instance of
`do_recovery` is `Ordered`, `MCDoRecovery` says so in an ASSUME.) Without it operations can take the memory in another order
when the run is resumed, and one that was prepared finds another revision than its own
(`RECOVERY_STATE_INVALID`); all the other theorems hold of such programs too. The invariant behind it is
`RecoveryInv` with `InOrder`: an operation begins where one that it waited for has left the memory, or where nobody was.

**`PlannerControlProofs`** - assumptions `LimitAssumption`, `CallAssumption` and `NoneAssumption` (`None` is no
scope and no answer). The first invariant holds whatever overlaps:

    Inv == TypeOK /\ CallExact /\ QueueExact /\ PhaseExact /\ AskedExact

An append that is queued is a promise about the future: `QueueExact` says that each entry has
exactly one call that waits for it at the place of its kind, and that two entries are not about the
same operation unless they may be; `CallExact` what a call knows of its operation at each place;
`PhaseExact` what a planner that returned has left; `AskedExact` which process put a question. From it
`NothingUnsettled`, and, with the operations' durable results as `answer` and the executor's
continuation as `told`, `OneAnswer`: what the planner is told is the durable answer, and that never changes.

The other three properties hold of calls that came one after the other (`Regular`; section 6 has what happens
to those that overlap). Their invariant is

    CallsInv == KindExact /\ ToldExact /\ (Regular => OneAfterTheOther)

It derives everything from the deliveries: at most one control call is between its prepare and its
delivery (`Alone`), the completed operations have the indices 1 to n (`IndexExact`), the snapshot with
index k + 1 is that with index k changed by what its operation did (`SnapsExact`, `NodesExact`), and the scope
of the running process is the snapshot of the last one that was delivered, changed by the one in flight
(`FlightExact`, `BetweenExact`). A resumed process restores the snapshot of the last delivery, so the scope is the same
in all of them; `FinalExact` carries it to the routes that start. A generated program may call any number of Nodes, each of which
takes the next number of the scope when it begins, so `BudgetKept` needs to know who has spent which number: `Counted(k)`
is the set of pairs of an operation and a number it used (its Nodes, or 0 for its route) up to index k, and `SnapsExact` that its size is at
most the counter in the snapshot with that index; `FlightExact` that the numbers of the operation in flight lie
above the counter it began with and not above the present one, so that none is counted twice.

**`PiSessionsProofs`** - assumptions `HandleAssumption` (the first agent and its memory exist, there is a
system prompt), `FormatAssumption`, `BoundAssumption` and `NoneAssumption` (`None` is no handle, record or
number). Nothing is assumed of the numbers of agents, memories, messages, sessions, prompts and crashes, or of which
inputs ask for a formatted output, are answered by text instead, or change the tools. What the model of an agent sees is spread over the VM's handles, the
executor's session and the store's file, each of which is ahead of the others at some await. The first
invariant (theorem `KeptAlways`) is about who refers to what:

    Kept == TypeOK /\ HandlesExact /\ SessionsExact
            /\ (\A m \in Memories : CheckpointExact(m) /\ RestExact(m) /\ FileExact(m))
            /\ (\A a \in Agents : AgentExact(a) /\ WorkExact(a)) /\ what was refused, and when

`SessionsExact` says that a live session has exactly one agent that uses it, runs it or is closing it.
Checkpoints do not count, and a copied memory has the checkpoint of another agent: `CheckpointExact` says that its
records are the beginning of the session it names, as long as that lives. A fork of the live session and an import of the exported
one therefore give the same entries, but for a change of the tools at its end that no durability event has recorded: a session
that goes on over one sets `overlooked`, and what the invariants say of entries and records they say until then. `AgentExact` says what an agent has of its memory until it is prompted,
`RestExact` that a memory at rest over an open input is one that a crash left, `FileExact` that the
file of a memory at rest is the beginning of its continuation, so that no write is refused, and `WorkExact` that from the
prompt on the file's records are the session's entries. `FileReplacesSession` and
`NoSessionShared` follow. The second invariant is about what the entries say:

    Talk == (\A m \in Memories : MemoryText(m) /\ FileText(m)) /\ \A a \in Agents : TalkExact(a)

Every continuation, in a memory or in a file, stands for the messages up to its revision (`Tells`). The one
exception is needed for the inductive step: a process that stops between the closing words after a formatted output and the
end of the activation leaves entries that answer an input which is still open. The resumed activation
says them again, and they must count once. `Tells` therefore says both what the entries stand for while the
input is open and what they stand for when it is answered. With `Kept`, `PromptSeesMemory` follows.

What the entries stand for (`Conversation`) is a recursive function. The proofs use it through four facts
(nothing is chosen from nothing, one more element is chosen or not, only the chosen positions matter, the type),
each proved from a least counterexample: the set of the lengths for which it holds contains 0 and the successor of
each of its members (`ByInduction`).

**Only model-checked**:

* every liveness property (`EveryUseEnds`, `EveryWaitEnds`, `EveryLeaseEnds`, `EveryRequestSettles`,
  `NodeEnds`, `RunEnds`, `EveryCallEnds`): fairness and ENABLED are outside this prover's reach;
* the four invariants of `NodeExecution` (`NamesHold`, `GroupsSyncedOnce`, `NeverStuck`, `InTextOrder`): what
  `Validation` accepts is a fixed point over the blocks and values of a node, computed by recursion over data whose
  shape differs from node to node, and the prover has no induction over data.

## 5. Plan

1. *Done*: `LeaseTable`, `ResourceLocks`, `WorkspaceLocks`, `ExternalLease`, `ApprovalQueue` with
   `ToolGate`, `TaskGroups`, `AnswerOnce`, `DoRecovery`, `PlannerControl` and `PiSessions`, with runs and
   proofs; `Validation` with `NodeExecution`, with runs.
2. *Proofs*. Done: section 4, every safety property of the runs but those of `NodeExecution`. Next: what
   `Validation` computes for a node without loops.
3. *Composition*: `WorkspaceLocks` with nested activations, to see which cycles through a parent and
   an unrelated waiter the strict queue can close.
4. *Durable execution*: copies of copies.

## 6. Findings

* **An aborted run waits for child flows that are not told** (`task_groups_abort`). The semantics say
  that the signal given to `AflVm.run` is passed to adapters and child flows
  (`src/docs/spec/semantics.md:385`). A group's controller is linked to the controller of the block that
  dispatched it (`vm.ts:2813`), and that block cuts its own link to the run when it ends
  (`vm.ts:626`). A group that is synced in a later block is then out of reach: `sync` awaits its tasks
  without looking at the signal (`vm.ts:931`), and its queued tasks are even started after the abort.
  `BlockAbortReachesGroups` states what does hold: within the running block cancellation is complete.

* **A resumed run can copy messages that were added after the copy** (`do_recovery_copy`).
  `src/docs/spec/memory.md:102` says that messages added to the source later do not appear in an existing
  copy. `memory.copy` writes nothing to the journal, and a copy has no file before its first
  `agent.do`; a resumed run therefore copies the restored source (`vm.ts:1145`), with everything that
  later operations had added to it. An operation on the copy that was already prepared then finds
  another memory than the one it was prepared for, and the run fails for good (`Mismatch`).
  `TranscriptExact` states what does hold: only copies are exposed.
* **A copy can become unusable without any fault** (`do_recovery_base`). `src/docs/spec/memory.md:227`
  says that the header of a copy names file and revision of its source, which is materialized first
  if need be. If an agent has meanwhile given the source its file, `ensureBaseReference` returns at
  once (`memory-store.ts:871`), but the store of a live process remembers only the revisions it has
  written (`memory-store.ts:498`), and the base revision is not one of them: `previousSlot`
  (`memory-store.ts:487`) ends the run for good with `MEMORY_STATE_INVALID`. Copy an unused memory, run
  an agent on the source, then one on the copy.

The properties of the other runs state what the code does, with its exceptions. The exceptions are
worth knowing:

* *Overlapping control calls* (`PlannerControl`, `Regular`). Control tools are declared parallel
  (`freedom.ts:105`). Calls of one planner that overlap get the same control index (`vm.ts:2239`), and
  the delivery of one replaces the counters and routes that another has changed (`vm.ts:2282`): a
  registered route is forgotten, the journal is refused when the run is resumed, and `max_routes` is
  exceeded, after a resumption in the instance that is checked, and within one process when three calls
  overlap (`MaxControl = 3`, all ids in `Together`). `src/docs/spec/semantics.md:354` says that
  `max_routes` is enforced before a route is registered or started.
* *A refused call counts* (`vm.ts:3281`). The call that exceeds `max_control_calls` is journaled with a
  snapshot that exceeds the limit; neither it nor a later one can be delivered or restored.
* *Accepted blocks that get stuck* (`NeverStuck`). The VM counts the Memory of the Agent in
  `agent.system_prompt` and `agent.with_memory` (`vm.ts:2872`), the validator only the Agent
  (`dependencies.ts:137`): `memory.append a.memory f`, `b = a.with_memory m`, `f = b.do "x"` is accepted
  and always ends in `DEPENDENCY_DEADLOCK`.
* *Handles bound in a block* (`InTextOrder`). The order of two names for one handle is kept only for
  handles the block had when it started; one that an instruction of the same block binds to a second
  name is not ordered. An instruction that reads the name it defines is accepted, and fails with
  `VALUE_UNAVAILABLE` if the name has no value (`NamesHold`). A group given to a called flow may be
  synced there and once more by its owner (`GroupsSyncedOnce`).
* *A copy of a memory whose agent gets another prompt* (`SessionsOwned`, the error "session").
  `agent.system_prompt` closes the session that the checkpoint of an earlier copy still names
  (`vm.ts:753`); the agent on the copy then tries to fork it (`vm.ts:1694`) and fails with
  `AGENT_SESSION_INVALID`, although the exported state could be imported.
  `src/docs/spec/memory.md:121` promises a fork or a rebuilt session.
* *A text that was never accepted becomes a formatted answer* (`JournalExact`, `Given`).
  `src/docs/spec/semantics.md:171` says that an `agent.do` with a format needs at least one accepted candidate, and
  that the VM checks it once more before it returns. When the model ends in plain text, the executor has that text
  persisted as a canonical answer (`pi-agent-executor.ts:872-882`), and the store makes it a message of the Memory
  (`memory-store.ts:1223`), before it throws `AGENT_FORMAT_OUTPUT_MISSING` (1014). If the process stops in between,
  the next one takes the durable message for the answer (`vm.ts:1317-1342`) and checks it against nothing. In the
  model it is a "text" in the messages of a memory after a crash.
* *A fork after an unrecorded change of tools cannot be saved* (`JournalExact`, `overlooked`).
  `src/docs/spec/memory.md:121` says that an agent whose Memory has a suitable live checkpoint forks that session. The
  fork counts the entries of the session (`pi-agent-executor.ts:471-481`), among them a change of the active tools;
  the file has the durable records (508), which lack what `restoreTools` (405, 794) wrote after the last durability
  event. The first delta of the fork is refused ("continuation expected N records", `memory-store.ts:1157`). A session that goes
  on in its own agent with pending messages of the Memory (839) counts too few records, and its next durability event
  records a message twice. That the harness library records such a change as an entry is an
  assumption, `ToolChanges`: the code (`pi-agent-executor.ts:1395`) and `src/docs/spec/semantics.md:370` count on it.

## 7. Not modelled

Values, prompts, trace events and their formatting; the selection of a `match` or `branch` target (any
of them may be taken); timeouts as such (a timeout is an abort of a signal, which may come at any step,
except that `PlannerControl` assumes that it comes in the end); the JavaScript microtask order among
continuations that are ready at the same time (any order is allowed, which covers it); file formats and
the locking of the run directory; copies of copies; in `PiSessions`, what the base of a copy without a file has (the
checks of `memory-store.ts:484-494` are in `DoRecovery`), and messages that are different and have the same text (`memory-store.ts:1230` takes them for one); deterministic failures of an agent (a denied
request, an invalid output), which end a run as `EndFailed` does; a host call that an executor leaves in
flight after it has returned; `invoke`, scripts and external flows, which keep no state (a resumed run repeats them); lists and
records of operands; the behaviour of the Pi library, except that it
runs sequential tools alone and adds entries to a session one after the other; everything
`PROJECT.json` marks `not_modelled`.
