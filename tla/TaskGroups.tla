------------------------------ MODULE TaskGroups ------------------------------
(***************************************************************************)
(* One activation of a node in src/src/vm.ts: its basic blocks, the        *)
(* instructions of a block that run as soon as what they depend on is      *)
(* done, the TaskGroups that dispatch starts, and sync.                    *)
(*                                                                         *)
(* Cancellation travels along linked controllers: from the run (or the     *)
(* parent flow) to the block that is running, and from there to the groups *)
(* that this block dispatched.  The link of a block is cut when the block  *)
(* has ended.                                                              *)
(*                                                                         *)
(* A failure is a kind: "interrupted" carries an interruption context,     *)
(* "cancelled" is AGENT_CANCELLED, "aborted" is the reason with which the  *)
(* run was aborted, "error" is everything else.                            *)
(***************************************************************************)
EXTENDS Naturals, FiniteSets

CONSTANTS Instructions,  \* the instructions of the node
          Op,            \* Op[i]: "work", "dispatch" or "sync"
          Block,         \* Block[i]: the number of i's basic block
          Deps,          \* Deps[i]: the instructions of the block that i waits for
          Group,         \* Group[i]: the dispatch whose group a sync i consumes
          Size,          \* Size[g]: how many tasks dispatch g starts
          LastBlock,     \* blocks are 1..LastBlock, each jumping to the next
          maxDispatchWorkers

Dispatches == {i \in Instructions : Op[i] = "dispatch"}
Tasks == UNION {{g} \X (1..Size[g]) : g \in Dispatches}

ASSUME ProgramAssumption ==
  /\ IsFiniteSet(Instructions)
  /\ Op \in [Instructions -> {"work", "dispatch", "sync"}]
  /\ LastBlock \in Nat \ {0} /\ Block \in [Instructions -> 1..LastBlock]
  /\ Deps \in [Instructions -> SUBSET Instructions]
  /\ \A i \in Instructions : \A j \in Deps[i] : Block[j] = Block[i]
  /\ Size \in [Dispatches -> Nat]
\* A sync names its group: it waits for the dispatch, if that is in its block.
ASSUME SyncAssumption ==
  \A i \in Instructions :
    Op[i] = "sync" /\ Group[i] \in Dispatches /\ Block[Group[i]] = Block[i] => Group[i] \in Deps[i]
ASSUME WorkersAssumption == maxDispatchWorkers \in Nat \ {0}

VARIABLES node,         \* running, failing (waiting for outstanding groups), returned, failed
          block,        \* the block that runs
          inst,         \* the state of every instruction
          failure,      \* executeBlock's failure: the first one of the block
          blockReason,  \* why the block's linked controller is aborted, or "none"
          runSignal,    \* the invocation signal is aborted
          task,         \* the state of every task: its outcome once it has settled
          rejected,     \* rejected[g]: the first rejection that task.catch has to act on
          reason,       \* reason[g]: why g's controller is aborted, or "none"
          outstanding   \* frame.taskGroups

vars == <<node, block, inst, failure, blockReason, runSignal, task, rejected, reason, outstanding>>

Kinds == {"error", "interrupted", "cancelled", "aborted"}
Own == {"error", "interrupted"}
Active == {"launched", "refused", "working", "started", "syncing"}

-----------------------------------------------------------------------------
InBlock(b) == {i \in Instructions : Block[i] = b}
TasksOf(g) == {t \in Tasks : t[1] = g}
Settled(g) == \A t \in TasksOf(g) : task[t] \in Kinds \cup {"returned"}

\* launchReady() after the instructions in ended have completed.  An instruction
\* launched under an aborted signal is refused by throwIfAborted.
Launched(b, ended, states, signalled) ==
  [i \in Instructions |->
     IF i \in InBlock(b) /\ states[i] = "idle" /\ Deps[i] \subseteq ended
     THEN IF signalled THEN "refused" ELSE "launched"
     ELSE states[i]]

\* Defect: an aborted group leaves its tasks in the worker queue.
Dropped_None(groups, kind, tasks) == tasks

\* Tasks that wait for a worker fail as soon as their group is aborted.
Dropped(groups, kind, tasks) ==
  [t \in Tasks |-> IF t[1] \in groups /\ tasks[t] = "queued" THEN kind ELSE tasks[t]]

\* Abort the controllers of these groups; a second abort changes nothing.
AbortGroups(groups, kind) ==
  LET fresh == {g \in groups : reason[g] = "none"}
  IN  /\ reason' = [g \in Dispatches |-> IF g \in fresh THEN kind ELSE reason[g]]
      /\ task' = Dropped(fresh, kind, task)
      /\ rejected' = [g \in Dispatches |->
           IF g \in fresh /\ rejected[g] = "none" /\ \E t \in TasksOf(g) : task[t] = "queued"
           THEN kind ELSE rejected[g]]

\* Defect: a group's controller is linked to nothing.
Linked_None == {}

\* The groups that the running block dispatched: their controllers are linked
\* to the block's.
Linked == {g \in Dispatches : Block[g] = block /\ (inst[g] = "done" \/ g \in outstanding)}

\* The first task, in declaration order, that failed with a kind of K.
FirstOf(g, K) == task[CHOOSE t \in TasksOf(g) :
                   /\ task[t] \in K
                   /\ \A u \in TasksOf(g) : task[u] \in K => t[2] <= u[2]]
Failed(g, K) == \E t \in TasksOf(g) : task[t] \in K

\* Defect: the group fails with what its first failed task says.
selectTaskGroupFailure_Declared(g) == FirstOf(g, Kinds)

selectTaskGroupFailure(g) ==
  IF Failed(g, {"interrupted"}) THEN "interrupted"
  ELSE IF Failed(g, Kinds \ {"cancelled"}) THEN FirstOf(g, Kinds \ {"cancelled"})
  ELSE "cancelled"

\* An instruction completes; what it kept waiting is launched.
Complete(i) ==
  /\ inst' = IF failure # "none" THEN [inst EXCEPT ![i] = "done"]
             ELSE Launched(block, {j \in InBlock(block) : inst[j] = "done"} \cup {i},
                           [inst EXCEPT ![i] = "done"], blockReason # "none")
  /\ UNCHANGED <<node, block, failure, blockReason, runSignal>>

\* An instruction fails: the first failure aborts the block's controller.
Fail(i, kind) ==
  /\ inst' = [inst EXCEPT ![i] = "failed"]
  /\ IF failure = "none"
     THEN /\ failure' = kind
          /\ IF blockReason = "none"
             THEN blockReason' = kind /\ AbortGroups(Linked, kind)
             ELSE UNCHANGED <<blockReason, reason, task, rejected>>
     ELSE UNCHANGED <<failure, blockReason, reason, task, rejected>>
  /\ UNCHANGED <<node, block, runSignal>>

-----------------------------------------------------------------------------
Init == /\ node = "running" /\ block = 1
        /\ inst = Launched(1, {}, [i \in Instructions |-> "idle"], FALSE)
        /\ failure = "none" /\ blockReason = "none" /\ runSignal = FALSE
        /\ task = [t \in Tasks |-> "none"]
        /\ rejected = [g \in Dispatches |-> "none"]
        /\ reason = [g \in Dispatches |-> "none"]
        /\ outstanding = {}

\* executeInstruction throws: launched under an aborted signal, over the step
\* budget, or because the trace sink fails.
Refuse(i) == /\ \/ inst[i] = "refused" /\ Fail(i, "aborted")
                \/ inst[i] = "launched" /\ Fail(i, "error")
             /\ UNCHANGED outstanding

\* An instruction other than dispatch and sync.
Work(i) == /\ inst[i] = "launched" /\ Op[i] = "work"
           /\ inst' = [inst EXCEPT ![i] = "working"]
           /\ UNCHANGED <<node, block, failure, blockReason, runSignal, task, rejected, reason, outstanding>>

WorkEnds(i) ==
  /\ inst[i] = "working"
  /\ \/ Complete(i) /\ UNCHANGED <<task, rejected, reason>>
     \/ \E kind \in Own : Fail(i, kind)
     \/ blockReason # "none" /\ Fail(i, "cancelled")
  /\ UNCHANGED outstanding

\* The tasks ask for workers in declaration order.
Admitted(t) == t[2] <= maxDispatchWorkers

\* startTaskGroup: every task asks for a worker.  A group started under an
\* aborted signal is born aborted and its tasks fail.
StartTaskGroup(g) ==
  /\ inst[g] = "launched" /\ Op[g] = "dispatch"
  /\ inst' = [inst EXCEPT ![g] = "started"]
  /\ outstanding' = outstanding \cup {g}
  /\ reason' = [reason EXCEPT ![g] = blockReason]
  /\ task' = [t \in Tasks |-> IF t[1] # g THEN task[t]
                              ELSE IF blockReason # "none" THEN blockReason
                              ELSE IF Admitted(t) THEN "running" ELSE "queued"]
  /\ UNCHANGED <<node, block, failure, blockReason, runSignal, rejected>>

\* The rest of dispatch, which awaits the trace sink.
DispatchEnds(g) ==
  /\ inst[g] = "started"
  /\ \/ Complete(g) /\ UNCHANGED <<task, rejected, reason>>
     \/ Fail(g, "error")
  /\ UNCHANGED outstanding

\* sync takes the group out of the frame, and then waits for its tasks.  The
\* wait does not look at the signal.
Sync(i) ==
  /\ inst[i] = "launched" /\ Op[i] = "sync"
  /\ IF Group[i] \in outstanding
     THEN /\ inst' = [inst EXCEPT ![i] = "syncing"]
          /\ outstanding' = outstanding \ {Group[i]}
          /\ UNCHANGED <<node, block, failure, blockReason, runSignal, task, rejected, reason>>
     ELSE Fail(i, "error") /\ UNCHANGED outstanding

\* The tasks have settled; the formatter that joins their results can fail.
SyncEnds(i) ==
  /\ inst[i] = "syncing" /\ Settled(Group[i])
  /\ \/ Failed(Group[i], Kinds) /\ Fail(i, selectTaskGroupFailure(Group[i]))
     \/ ~Failed(Group[i], Kinds) /\ Complete(i) /\ UNCHANGED <<task, rejected, reason>>
     \/ ~Failed(Group[i], Kinds) /\ Fail(i, "error")
  /\ UNCHANGED outstanding

\* Defect: a failed task keeps its worker.
TaskEnds_KeepsWorker(t, outcome) ==
  LET g == t[1]
      queue == {u \in TasksOf(g) : task[u] = "queued"}
  IN  /\ task[t] = "running"
      /\ outcome \in Own \cup {"returned"}
      /\ task' = [u \in Tasks |->
           IF u = t THEN outcome
           ELSE IF outcome = "returned" /\ u \in queue /\ \A v \in queue : u[2] <= v[2]
           THEN "running"
           ELSE task[u]]
      /\ UNCHANGED <<node, block, inst, failure, blockReason, runSignal, rejected, reason, outstanding>>

\* A task settles: use() releases its worker, which goes to the next queued
\* task before task.catch can abort the group.
TaskEnds(t, outcome) ==
  LET g == t[1]
      queue == {u \in TasksOf(g) : task[u] = "queued"}
  IN  /\ task[t] = "running"
      /\ \/ outcome \in Own \cup {"returned"}
         \/ reason[g] # "none" /\ outcome \in {"cancelled", reason[g]}
      /\ task' = [u \in Tasks |->
           IF u = t THEN outcome
           ELSE IF u \in queue /\ \A v \in queue : u[2] <= v[2] THEN "running"
           ELSE task[u]]
      /\ rejected' = [rejected EXCEPT ![g] = IF @ = "none" /\ outcome # "returned"
                                             THEN outcome ELSE @]
      /\ UNCHANGED <<node, block, inst, failure, blockReason, runSignal, reason, outstanding>>

\* task.catch: a rejected task aborts its group.
CatchTask(g) ==
  /\ rejected[g] # "none" /\ reason[g] = "none"
  /\ AbortGroups({g}, rejected[g])
  /\ UNCHANGED <<node, block, inst, failure, blockReason, runSignal, outstanding>>

\* executeBlock rejects once nothing of the block is active: executeNode's catch
\* aborts the groups that no sync has taken.
NodeFails(kind) ==
  /\ node' = "failing"
  /\ AbortGroups(outstanding, kind)
  /\ UNCHANGED <<block, inst, failure, blockReason, runSignal, outstanding>>

BlockFails == /\ node = "running" /\ failure # "none"
              /\ \A i \in InBlock(block) : inst[i] \notin Active
              /\ NodeFails(failure)

BlockDone == /\ node = "running" /\ failure = "none"
             /\ \A i \in InBlock(block) : inst[i] = "done"

\* The terminator jumps: the ended block's link is cut, the next block has a
\* controller of its own.  takeStep() throws when the signal is aborted; over the
\* step budget it throws like a fail terminator (FailTerminator).
Jump ==
  /\ BlockDone /\ block < LastBlock
  /\ IF runSignal THEN NodeFails("aborted")
     ELSE /\ block' = block + 1
          /\ blockReason' = "none"
          /\ inst' = Launched(block + 1, {}, inst, FALSE)
          /\ UNCHANGED <<node, failure, runSignal, task, rejected, reason, outstanding>>

\* The terminator ret, which refuses to leave groups behind.
Ret ==
  /\ BlockDone
  /\ IF outstanding # {} THEN NodeFails("error")
     ELSE /\ node' = "returned"
          /\ UNCHANGED <<block, inst, failure, blockReason, runSignal, task, rejected,
                         reason, outstanding>>

\* The terminator fail.
FailTerminator == BlockDone /\ NodeFails("error")

\* Defect: executeNode's catch does not wait for the groups it aborted.
NodeFailed_Early ==
  /\ node = "failing"
  /\ node' = "failed"
  /\ UNCHANGED <<block, inst, failure, blockReason, runSignal, task, rejected, reason, outstanding>>

\* executeNode's catch has waited for the tasks of the groups it aborted.
NodeFailed ==
  /\ node = "failing" /\ \A g \in outstanding : Settled(g)
  /\ node' = "failed"
  /\ UNCHANGED <<block, inst, failure, blockReason, runSignal, task, rejected, reason, outstanding>>

\* The run, or the parent flow, is aborted: linked controllers follow.
AbortRun ==
  /\ ~runSignal /\ node = "running"
  /\ runSignal' = TRUE
  /\ IF blockReason = "none"
     THEN blockReason' = "aborted" /\ AbortGroups(Linked, "aborted")
     ELSE UNCHANGED <<blockReason, task, rejected, reason>>
  /\ UNCHANGED <<node, block, inst, failure, outstanding>>

Next == \/ \E i \in Instructions : Refuse(i) \/ Work(i) \/ WorkEnds(i) \/ Sync(i) \/ SyncEnds(i)
        \/ \E g \in Dispatches : StartTaskGroup(g) \/ DispatchEnds(g) \/ CatchTask(g)
        \/ \E t \in Tasks, outcome \in Kinds \cup {"returned"} : TaskEnds(t, outcome)
        \/ BlockFails \/ Jump \/ Ret \/ FailTerminator \/ NodeFailed \/ AbortRun

Spec == Init /\ [][Next]_vars

\* Continuations run; adapters and child flows end.  Nobody has to abort.
FairSpec ==
  /\ Spec
  /\ \A i \in Instructions : WF_vars(Refuse(i) \/ Work(i) \/ WorkEnds(i) \/ Sync(i) \/ SyncEnds(i))
  /\ \A g \in Dispatches : WF_vars(StartTaskGroup(g) \/ DispatchEnds(g) \/ CatchTask(g))
  /\ \A t \in Tasks : WF_vars(\E outcome \in Kinds \cup {"returned"} : TaskEnds(t, outcome))
  /\ WF_vars(BlockFails \/ Jump \/ Ret \/ FailTerminator \/ NodeFailed)

-----------------------------------------------------------------------------
TypeOK ==
  /\ node \in {"running", "failing", "returned", "failed"}
  /\ block \in 1..LastBlock
  /\ inst \in [Instructions -> Active \cup {"idle", "done", "failed"}]
  /\ failure \in Kinds \cup {"none"}
  /\ blockReason \in Kinds \cup {"none"} /\ runSignal \in BOOLEAN
  /\ task \in [Tasks -> Kinds \cup {"none", "queued", "running", "returned"}]
  /\ rejected \in [Dispatches -> Kinds \cup {"none"}]
  /\ reason \in [Dispatches -> Kinds \cup {"none"}]
  /\ outstanding \in SUBSET Dispatches

Live(t) == task[t] \in {"queued", "running"}

(* Structured concurrency: when a node has returned or failed, nothing that  *)
(* it started still runs, neither an instruction nor a task of a group.      *)
NothingOutlivesNode ==
  /\ TypeOK
  /\ node \in {"returned", "failed"} =>
       /\ \A i \in Instructions : inst[i] \notin Active
       /\ \A t \in Tasks : ~Live(t)

(* A node returns only what every task it dispatched contributed to: each    *)
(* group has been synced and none of its tasks failed.  And it fails for the *)
(* root cause, never for a cancellation that follows from it:                *)
(* AGENT_CANCELLED surfaces only when the run itself was aborted.            *)
OutcomeIsTheTasks ==
  /\ failure = "cancelled" => runSignal
  /\ node = "returned" => \A g \in Dispatches : inst[g] = "done" =>
    /\ \E i \in Instructions : Op[i] = "sync" /\ Group[i] = g /\ inst[i] = "done"
    /\ \A t \in TasksOf(g) : task[t] = "returned"

(* At most maxDispatchWorkers tasks of a group run, and a task queues only   *)
(* when that many do; a failed block launches nothing more, and an aborted   *)
(* group starts no task, although a task that ends hands its worker on.      *)
WorkersExact ==
  [][/\ \A g \in Dispatches :
          LET running == Cardinality({t \in TasksOf(g) : task[t] = "running"})
          IN  /\ running <= maxDispatchWorkers
              /\ (\E t \in TasksOf(g) : task[t] = "queued") => running = maxDispatchWorkers
     /\ failure # "none" => \A i \in Instructions : inst[i] = "idle" => inst'[i] = "idle"
     /\ \A t \in Tasks : reason[t[1]] # "none" /\ task[t] # "running" => task'[t] # "running"]_vars

(* Within a block cancellation is complete: when the block's controller is   *)
(* aborted, so is every group that the block dispatched and that is live.    *)
BlockAbortReachesGroups ==
  node = "running" /\ blockReason # "none" =>
    \A g \in Dispatches : Block[g] = block /\ (\E t \in TasksOf(g) : Live(t)) => reason[g] # "none"

(* Every node ends: no block starves, whatever fails or is aborted.          *)
NodeEnds == <>(node \in {"returned", "failed"})

(* "AflVm.run accepts an AbortSignal; the cancellation signal is passed to   *)
(* adapters and child flows" (docs/spec/semantics.md:385): an aborted run    *)
(* does not wait in sync for a child flow that has not been told.            *)
AbortReachesChildFlows ==
  runSignal => \A i \in Instructions : inst[i] = "syncing" =>
    \A t \in TasksOf(Group[i]) : Live(t) => reason[Group[i]] # "none"
=============================================================================
