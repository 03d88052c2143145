--------------------------- MODULE TaskGroupsProofs ---------------------------
(***************************************************************************)
(* What holds of every node, however many blocks, groups, tasks and        *)
(* workers it has: nothing it started outlives it, its outcome is that of  *)
(* its tasks, its aborts reach its groups, and its groups keep to their    *)
(* workers.                                                                *)
(***************************************************************************)
EXTENDS TaskGroups, SequencesExt, FiniteSetTheorems, SequenceTheorems, FunctionTheorems,
        WellFoundedInduction, TLAPS

\* A dispatch that has not asked for workers.
Unstarted == {"idle", "launched", "refused"}

\* Who answers for the tasks of a group: the frame, or a sync that waits.
Held(g) == \/ g \in outstanding
           \/ \E i \in Instructions : inst[i] = "syncing" /\ Group[i] = g

Returned(g) == \A t \in TasksOf(g) : task[t] = "returned"
RunningOf(g) == {t \in TasksOf(g) : task[t] = "running"}

\* Instructions: only the block that runs has active ones, each launched once
\* what it depends on was done, and the later blocks have none that started.
InstExact ==
  \A i \in Instructions :
    /\ inst[i] \in Active => node = "running" /\ Block[i] = block
    /\ Block[i] > block => inst[i] = "idle"
    /\ inst[i] # "idle" => \A j \in Deps[i] : inst[j] = "done"
    /\ inst[i] = "failed" => failure # "none"
    /\ inst[i] = "started" => Op[i] = "dispatch"
    /\ inst[i] = "syncing" => Op[i] = "sync" /\ Group[i] \in Dispatches
    /\ inst[i] = "working" => Op[i] = "work"

\* Groups: one that is dispatched is held until a sync has seen its tasks
\* settle; it is aborted because its block or the run is, because the node
\* fails, or because of a task of its own; and an aborted one queues nothing.
GroupExact ==
  \A g \in Dispatches :
    /\ inst[g] \in Unstarted => /\ g \notin outstanding /\ reason[g] = "none" /\ rejected[g] = "none"
                                /\ \A t \in TasksOf(g) : task[t] = "none"
    /\ inst[g] = "started" => g \in outstanding
    /\ inst[g] = "done" =>
         \/ g \in outstanding
         \/ \E i \in Instructions : /\ Op[i] = "sync" /\ Group[i] = g
                                    /\ \/ inst[i] \in {"syncing", "failed"}
                                       \/ inst[i] = "done" /\ Returned(g)
    /\ rejected[g] # "none" => reason[g] # "none" \/ Failed(g, Own)
    /\ reason[g] # "none" =>
         runSignal \/ failure # "none" \/ node # "running" \/ Failed(g, Own)
    /\ reason[g] # "none" => \A t \in TasksOf(g) : task[t] # "queued"

\* Tasks: a live one is held, and only an aborted one is cancelled.
TaskExact ==
  \A t \in Tasks :
    /\ Live(t) => Held(t[1])
    /\ task[t] = "cancelled" => reason[t[1]] # "none"

\* Workers: all of them are at work before a task waits for one.
WorkersKept ==
  \A g \in Dispatches :
    /\ Cardinality(RunningOf(g)) <= maxDispatchWorkers
    /\ (\E t \in TasksOf(g) : task[t] = "queued") => Cardinality(RunningOf(g)) = maxDispatchWorkers

\* The block, and the node.
BlockExact ==
  /\ blockReason # "none" /\ failure = "none" => runSignal
  /\ failure = "cancelled" => runSignal
  /\ blockReason # "none" =>
       \A t \in Tasks : Block[t[1]] = block /\ Live(t) => reason[t[1]] # "none"
  /\ node = "returned" => failure = "none" /\ outstanding = {}
  /\ node = "failed" => \A g \in outstanding : Settled(g)

Inv == TypeOK /\ InstExact /\ GroupExact /\ TaskExact /\ WorkersKept /\ BlockExact

-----------------------------------------------------------------------------
(* Every nonempty set of positions has a first one.                         *)
LEMMA FirstPosition ==
  ASSUME NEW S \in SUBSET Nat, S # {}
  PROVE  \E i \in S : \A j \in S : i <= j
<1>1. PICK i \in S : \A j \in S : <<j, i>> \notin OpToRel(<, Nat)
  BY NatLessThanWellFounded, WFMin
<1>2. \A j \in S : ~ (j < i)
  BY <1>1 DEF OpToRel
<1> QED
  BY <1>2

-----------------------------------------------------------------------------
(* A task belongs to a dispatch and has a place among its tasks.            *)
LEMMA TaskShape ==
  ASSUME NEW t \in Tasks
  PROVE  t[1] \in Dispatches /\ t[2] \in Nat /\ t[2] \in 1..Size[t[1]] /\ t = <<t[1], t[2]>>
         /\ t \in TasksOf(t[1])
<1>1. PICK g \in Dispatches : t \in {g} \X (1..Size[g])
  BY DEF Tasks
<1>2. Size[g] \in Nat
  BY ProgramAssumption
<1> QED
  BY <1>1, <1>2 DEF TasksOf

(* The tasks of a group are those that its dispatch numbered.               *)
LEMMA TasksOfGroup ==
  ASSUME NEW g \in Dispatches
  PROVE  TasksOf(g) = {g} \X (1..Size[g]) /\ TasksOf(g) \subseteq Tasks
<1>1. TasksOf(g) \subseteq Tasks
  BY DEF TasksOf
<1>2. ASSUME NEW t \in TasksOf(g) PROVE t \in {g} \X (1..Size[g])
  BY TaskShape DEF TasksOf
<1>3. ASSUME NEW t \in {g} \X (1..Size[g]) PROVE t \in TasksOf(g)
  BY DEF TasksOf, Tasks
<1> QED
  BY <1>1, <1>2, <1>3

(* They are finitely many.                                                  *)
LEMMA TasksFinite ==
  ASSUME NEW g \in Dispatches
  PROVE  IsFiniteSet(TasksOf(g))
<1>1. Size[g] \in Int /\ 1 \in Int
  BY ProgramAssumption
<1>2. IsFiniteSet(1..Size[g])
  BY <1>1, FS_Interval
<1>3. IsFiniteSet({g})
  BY FS_Singleton
<1>4. IsFiniteSet({g} \X (1..Size[g]))
  BY <1>2, <1>3, FS_Product
<1> QED
  BY <1>4, TasksOfGroup

\* Tasks that wait for a worker may have been dropped, and their groups
\* aborted; nothing else has happened to the groups.
Damped ==
  /\ \A t \in Tasks : \/ task'[t] = task[t]
                      \/ task[t] = "queued" /\ task'[t] \in Kinds /\ reason'[t[1]] # "none"
  /\ \A g \in Dispatches :
       /\ reason[g] # "none" => reason'[g] = reason[g]
       /\ reason[g] = "none" /\ reason'[g] # "none" => inst[g] \notin Unstarted
       /\ rejected'[g] = rejected[g] \/ (reason'[g] # "none" /\ inst[g] \notin Unstarted)
       /\ reason'[g] # "none" => \A t \in TasksOf(g) : task'[t] # "queued"

(* What an abort does to the groups it reaches, and to the others.          *)
LEMMA AbortDamps ==
  ASSUME TypeOK, GroupExact,
         NEW groups \in SUBSET Dispatches, \A g \in groups : inst[g] \notin Unstarted,
         NEW kind \in Kinds, AbortGroups(groups, kind)
  PROVE  /\ Damped
         /\ \A g \in groups : reason'[g] # "none"
         /\ task' \in [Tasks -> Kinds \cup {"none", "queued", "running", "returned"}]
         /\ rejected' \in [Dispatches -> Kinds \cup {"none"}]
         /\ reason' \in [Dispatches -> Kinds \cup {"none"}]
<1> DEFINE fresh == {g \in groups : reason[g] = "none"}
<1>1. kind # "none" /\ kind # "queued"
  BY DEF Kinds
<1>2. /\ reason' = [g \in Dispatches |-> IF g \in fresh THEN kind ELSE reason[g]]
      /\ task' = [t \in Tasks |-> IF t[1] \in fresh /\ task[t] = "queued" THEN kind ELSE task[t]]
      /\ rejected' = [g \in Dispatches |->
           IF g \in fresh /\ rejected[g] = "none" /\ \E t \in TasksOf(g) : task[t] = "queued"
           THEN kind ELSE rejected[g]]
  BY DEF AbortGroups, Dropped
<1>3. fresh \subseteq groups /\ \A g \in Dispatches : g \in fresh <=> g \in groups /\ reason[g] = "none"
  OBVIOUS
<1> HIDE DEF fresh
<1>4. \A t \in Tasks : \/ task'[t] = task[t]
                       \/ task[t] = "queued" /\ task'[t] \in Kinds /\ reason'[t[1]] # "none"
  BY <1>1, <1>2, TaskShape
<1>5. ASSUME NEW g \in Dispatches
      PROVE  /\ reason[g] # "none" => reason'[g] = reason[g]
             /\ reason[g] = "none" /\ reason'[g] # "none" => inst[g] \notin Unstarted
             /\ rejected'[g] = rejected[g] \/ (reason'[g] # "none" /\ inst[g] \notin Unstarted)
  BY <1>1, <1>2, <1>3
<1>6. ASSUME NEW g \in Dispatches, reason'[g] # "none", NEW t \in TasksOf(g)
      PROVE  task'[t] # "queued"
  <2>1. t \in Tasks /\ t[1] = g
    BY DEF TasksOf
  <2>2. CASE g \in fresh
    BY <1>1, <1>2, <2>1, <2>2
  <2>3. CASE g \notin fresh
    <3>1. reason[g] # "none" /\ task'[t] = task[t]
      BY <1>2, <1>6, <2>1, <2>3
    <3> QED
      BY <3>1 DEF GroupExact
  <2> QED
    BY <2>2, <2>3
<1>7. \A g \in groups : reason'[g] # "none"
  BY <1>1, <1>2, <1>3
<1>8. /\ task' \in [Tasks -> Kinds \cup {"none", "queued", "running", "returned"}]
      /\ rejected' \in [Dispatches -> Kinds \cup {"none"}]
      /\ reason' \in [Dispatches -> Kinds \cup {"none"}]
  BY <1>2 DEF TypeOK
<1> QED
  BY <1>4, <1>5, <1>6, <1>7, <1>8 DEF Damped

(* Groups that nothing is done to are damped as well.                       *)
LEMMA StillDamps ==
  ASSUME TypeOK, GroupExact, UNCHANGED <<task, rejected, reason>>
  PROVE  Damped
BY DEF Damped, GroupExact

(* What damping keeps of a group.                                           *)
LEMMA DampedGroup ==
  ASSUME TypeOK, Damped, NEW g \in Dispatches
  PROVE  /\ RunningOf(g)' = RunningOf(g)
         /\ Failed(g, Own) => Failed(g, Own)'
         /\ Returned(g) => Returned(g)'
         /\ Settled(g) => Settled(g)'
         /\ \A t \in TasksOf(g) : Live(t)' => Live(t)
         /\ \A t \in TasksOf(g) : task'[t] = "queued" => task[t] = "queued"
<1>1. \A t \in TasksOf(g) : t \in Tasks /\ t[1] = g
  BY DEF TasksOf
<1>2. TasksOf(g)' = TasksOf(g)
  BY DEF TasksOf
<1>3. \A t \in TasksOf(g) : \/ task'[t] = task[t]
                            \/ task[t] = "queued" /\ task'[t] \in Kinds
  BY <1>1 DEF Damped
<1>4. RunningOf(g)' = RunningOf(g)
  BY <1>2, <1>3 DEF RunningOf, Kinds
<1>5. Failed(g, Own) => Failed(g, Own)'
  BY <1>2, <1>3 DEF Failed, Own
<1>6. Returned(g) => Returned(g)'
  BY <1>2, <1>3 DEF Returned
<1>7. Settled(g) => Settled(g)'
  BY <1>2, <1>3 DEF Settled
<1>8. \A t \in TasksOf(g) : Live(t)' => Live(t)
  BY <1>3 DEF Live, Kinds
<1> QED
  BY <1>3, <1>4, <1>5, <1>6, <1>7, <1>8 DEF Kinds

-----------------------------------------------------------------------------
\* A step that neither starts a group, nor takes one, nor ends a task.
Quiet ==
  /\ outstanding' = outstanding
  /\ runSignal => runSignal'
  /\ failure # "none" => failure' # "none"
  /\ node # "running" => node' # "running"
  /\ \A g \in Dispatches :
       /\ inst'[g] \in Unstarted => inst[g] \in Unstarted
       /\ inst'[g] = "started" => inst[g] = "started"
       /\ inst'[g] = "done" => inst[g] \in {"started", "done"}
       /\ reason[g] = "none" /\ reason'[g] # "none" =>
            runSignal' \/ failure' # "none" \/ node' # "running" \/ Failed(g, Own)
  /\ \A i \in Instructions :
       /\ inst[i] \in {"done", "failed"} => inst'[i] = inst[i]
       /\ inst[i] = "syncing" =>
            \/ inst'[i] = "syncing"
            \/ inst'[i] = "failed" /\ Settled(Group[i])
            \/ inst'[i] = "done" /\ Returned(Group[i])

(* Such a step keeps what is known of groups, tasks and workers.            *)
LEMMA QuietKeeps ==
  ASSUME Inv, Damped, Quiet
  PROVE  GroupExact' /\ TaskExact' /\ WorkersKept'
<1> USE DEF Inv
<1>0. \A t \in Tasks : t[1] \in Dispatches /\ t \in TasksOf(t[1])
  BY TaskShape
<1>1. ASSUME NEW g \in Dispatches, inst'[g] \in Unstarted
      PROVE  /\ g \notin outstanding' /\ reason'[g] = "none" /\ rejected'[g] = "none"
             /\ \A t \in TasksOf(g) : task'[t] = "none"
  <2>1. /\ inst[g] \in Unstarted /\ g \notin outstanding /\ reason[g] = "none" /\ rejected[g] = "none"
        /\ \A t \in TasksOf(g) : task[t] = "none" /\ t \in Tasks
    BY <1>1 DEF Quiet, GroupExact, TasksOf
  <2> QED
    BY <2>1 DEF Quiet, Damped
<1>2. ASSUME NEW g \in Dispatches, inst'[g] = "started" PROVE g \in outstanding'
  BY <1>2 DEF Quiet, GroupExact
<1>3. ASSUME NEW g \in Dispatches, inst'[g] = "done"
      PROVE  \/ g \in outstanding'
             \/ \E i \in Instructions : /\ Op[i] = "sync" /\ Group[i] = g
                                        /\ \/ inst'[i] \in {"syncing", "failed"}
                                           \/ inst'[i] = "done" /\ Returned(g)'
  <2>1. CASE g \in outstanding
    BY <2>1 DEF Quiet
  <2>2. CASE g \notin outstanding
    <3>1. inst[g] = "done"
      BY <1>3, <2>2 DEF Quiet, GroupExact
    <3>2. PICK i \in Instructions : /\ Op[i] = "sync" /\ Group[i] = g
                                    /\ \/ inst[i] \in {"syncing", "failed"}
                                       \/ inst[i] = "done" /\ Returned(g)
      BY <2>2, <3>1 DEF GroupExact
    <3>3. inst'[i] \in {"syncing", "failed"} \/ (inst'[i] = "done" /\ Returned(g))
      BY <3>2 DEF Quiet
    <3>4. Returned(g) => Returned(g)'
      BY DampedGroup
    <3> QED
      BY <3>2, <3>3, <3>4
  <2> QED
    BY <2>1, <2>2
<1>4. ASSUME NEW g \in Dispatches, rejected'[g] # "none"
      PROVE  reason'[g] # "none" \/ Failed(g, Own)'
  <2>1. CASE rejected[g] # "none"
    <3>1. reason[g] # "none" \/ Failed(g, Own)
      BY <2>1 DEF GroupExact
    <3> QED
      BY <3>1, DampedGroup DEF Damped
  <2>2. CASE rejected[g] = "none"
    BY <1>4, <2>2 DEF Damped
  <2> QED
    BY <2>1, <2>2
<1>5. ASSUME NEW g \in Dispatches, reason'[g] # "none"
      PROVE  runSignal' \/ failure' # "none" \/ node' # "running" \/ Failed(g, Own)'
  <2>1. CASE reason[g] # "none"
    <3>1. runSignal \/ failure # "none" \/ node # "running" \/ Failed(g, Own)
      BY <2>1 DEF GroupExact
    <3>2. Failed(g, Own) => Failed(g, Own)'
      BY DampedGroup
    <3> QED
      BY <3>1, <3>2 DEF Quiet
  <2>2. CASE reason[g] = "none"
    <3>1. Failed(g, Own) => Failed(g, Own)'
      BY DampedGroup
    <3> QED
      BY <1>5, <2>2, <3>1 DEF Quiet
  <2> QED
    BY <2>1, <2>2
<1>6. \A g \in Dispatches : reason'[g] # "none" => \A t \in TasksOf(g) : task'[t] # "queued"
  BY DEF Damped
<1>7. GroupExact'
  BY <1>1, <1>2, <1>3, <1>4, <1>5, <1>6 DEF GroupExact, TasksOf
<1>8. ASSUME NEW t \in Tasks
      PROVE  /\ Live(t)' => Held(t[1])'
             /\ task'[t] = "cancelled" => reason'[t[1]] # "none"
  <2>1. ASSUME Live(t)' PROVE Held(t[1])'
    <3>1. Live(t)
      BY <1>0, <2>1, DampedGroup
    <3>2. Held(t[1])
      BY <3>1 DEF TaskExact
    <3>3. CASE t[1] \in outstanding
      BY <3>3 DEF Held, Quiet
    <3>4. CASE \E i \in Instructions : inst[i] = "syncing" /\ Group[i] = t[1]
      <4>1. PICK i \in Instructions : inst[i] = "syncing" /\ Group[i] = t[1]
        BY <3>4
      <4>2. ~Settled(t[1]) /\ ~Returned(t[1])
        BY <1>0, <3>1 DEF Settled, Returned, Live, Kinds
      <4>3. inst'[i] = "syncing"
        BY <4>1, <4>2 DEF Quiet
      <4> QED
        BY <4>1, <4>3 DEF Held
    <3> QED
      BY <3>2, <3>3, <3>4 DEF Held
  <2>2. ASSUME task'[t] = "cancelled" PROVE reason'[t[1]] # "none"
    <3>1. CASE task'[t] = task[t]
      BY <1>0, <2>2, <3>1 DEF TaskExact, Damped
    <3> QED
      BY <1>0, <2>2, <3>1 DEF Damped
  <2> QED
    BY <2>1, <2>2
<1>9. TaskExact'
  BY <1>8 DEF TaskExact
<1>10. ASSUME NEW g \in Dispatches
       PROVE  /\ Cardinality(RunningOf(g)') <= maxDispatchWorkers
              /\ (\E t \in TasksOf(g) : task'[t] = "queued") =>
                   Cardinality(RunningOf(g)') = maxDispatchWorkers
  BY DampedGroup DEF WorkersKept
<1>11. WorkersKept'
  BY <1>10 DEF WorkersKept, TasksOf
<1> QED
  BY <1>7, <1>9, <1>11

-----------------------------------------------------------------------------
(* The groups that the block links to itself have been started.             *)
LEMMA LinkedStarted ==
  ASSUME TypeOK, GroupExact
  PROVE  /\ Linked \in SUBSET Dispatches /\ \A g \in Linked : inst[g] \notin Unstarted
         /\ outstanding \in SUBSET Dispatches /\ \A g \in outstanding : inst[g] \notin Unstarted
BY DEF Linked, GroupExact, TypeOK, Unstarted

(* The abort of a block's controller reaches its live groups: one that a    *)
(* sync has taken has been dispatched, since the sync has waited for it.    *)
LEMMA LinkedReach ==
  ASSUME Inv, Damped, \A g \in Linked : reason'[g] # "none",
         NEW t \in Tasks, Block[t[1]] = block, Live(t)'
  PROVE  reason'[t[1]] # "none"
<1> USE DEF Inv
<1>1. t[1] \in Dispatches /\ t \in TasksOf(t[1])
  BY TaskShape
<1>2. Live(t)
  BY <1>1, DampedGroup
<1>3. Held(t[1])
  BY <1>2 DEF TaskExact
<1>4. CASE t[1] \in outstanding
  BY <1>1, <1>4 DEF Linked
<1>5. CASE \E i \in Instructions : inst[i] = "syncing" /\ Group[i] = t[1]
  <2>1. PICK i \in Instructions : inst[i] = "syncing" /\ Group[i] = t[1]
    BY <1>5
  <2>2. Op[i] = "sync" /\ Block[i] = block
    BY <2>1 DEF InstExact, Active
  <2>3. t[1] \in Deps[i]
    BY <1>1, <2>1, <2>2, SyncAssumption
  <2>4. inst[t[1]] = "done"
    BY <2>1, <2>3 DEF InstExact
  <2> QED
    BY <1>1, <2>4 DEF Linked
<1> QED
  BY <1>3, <1>4, <1>5 DEF Held

(* What an abort has reached stays reached, and no task comes to life.      *)
LEMMA ReachKept ==
  ASSUME TypeOK, BlockExact, Damped, UNCHANGED <<blockReason, block>>
  PROVE  blockReason' # "none" =>
           \A t \in Tasks : Block[t[1]] = block' /\ Live(t)' => reason'[t[1]] # "none"
<1> SUFFICES ASSUME blockReason # "none", NEW t \in Tasks, Block[t[1]] = block, Live(t)'
             PROVE  reason'[t[1]] # "none"
  OBVIOUS
<1>1. t[1] \in Dispatches /\ t \in TasksOf(t[1])
  BY TaskShape
<1>2. Live(t)
  BY <1>1, DampedGroup
<1>3. reason[t[1]] # "none"
  BY <1>2 DEF BlockExact
<1> QED
  BY <1>1, <1>3 DEF Damped

-----------------------------------------------------------------------------
(* An active instruction fails.                                             *)
LEMMA FailKeeps ==
  ASSUME Inv, NEW i \in Instructions, NEW kind \in Kinds, Fail(i, kind), UNCHANGED outstanding,
         inst[i] \in Active, inst[i] = "syncing" => Settled(Group[i]),
         kind = "cancelled" /\ failure = "none" => runSignal
  PROVE  Inv'
<1> USE DEF Inv
<1>1. kind # "none" /\ node = "running" /\ Block[i] = block /\ node # "returned" /\ node # "failed"
  BY DEF Kinds, InstExact
<1>2. /\ inst' = [inst EXCEPT ![i] = "failed"]
      /\ UNCHANGED <<node, block, runSignal>>
  BY DEF Fail
<1>3. /\ failure' \in Kinds \cup {"none"} /\ failure' # "none"
      /\ failure' = IF failure = "none" THEN kind ELSE failure
  BY <1>1 DEF Fail, TypeOK
<1>4. /\ Damped
      /\ task' \in [Tasks -> Kinds \cup {"none", "queued", "running", "returned"}]
      /\ rejected' \in [Dispatches -> Kinds \cup {"none"}]
      /\ reason' \in [Dispatches -> Kinds \cup {"none"}]
      /\ blockReason' \in Kinds \cup {"none"}
      /\ \/ UNCHANGED blockReason
         \/ \A g \in Linked : reason'[g] # "none"
  <2>1. CASE failure = "none" /\ blockReason = "none"
    <3>1. AbortGroups(Linked, kind) /\ blockReason' = kind
      BY <2>1 DEF Fail
    <3> QED
      BY <3>1, AbortDamps, LinkedStarted
  <2>2. CASE ~(failure = "none" /\ blockReason = "none")
    <3>1. UNCHANGED <<blockReason, task, rejected, reason>>
      BY <2>2 DEF Fail
    <3> QED
      BY <3>1, StillDamps DEF TypeOK
  <2> QED
    BY <2>1, <2>2
<1>5. TypeOK'
  BY <1>2, <1>3, <1>4 DEF TypeOK
<1>6. \A j \in Instructions : inst'[j] = IF j = i THEN "failed" ELSE inst[j]
  BY <1>2 DEF TypeOK
<1>7. InstExact'
  <2> SUFFICES ASSUME NEW j \in Instructions
               PROVE  /\ inst'[j] \in Active => node' = "running" /\ Block[j] = block'
                      /\ Block[j] > block' => inst'[j] = "idle"
                      /\ inst'[j] # "idle" => \A d \in Deps[j] : inst'[d] = "done"
                      /\ inst'[j] = "failed" => failure' # "none"
                      /\ inst'[j] = "started" => Op[j] = "dispatch"
                      /\ inst'[j] = "syncing" => Op[j] = "sync" /\ Group[j] \in Dispatches
                      /\ inst'[j] = "working" => Op[j] = "work"
    BY DEF InstExact
  <2>1. ~(block > block)
    BY DEF TypeOK
  <2>2. inst[j] # "idle" => \A d \in Deps[j] : inst[d] = "done" /\ d \in Instructions
    BY ProgramAssumption DEF InstExact
  <2>3. inst[i] # "done" /\ inst[i] # "idle"
    BY DEF Active
  <2>4. CASE j = i
    BY <1>1, <1>2, <1>3, <1>6, <2>1, <2>2, <2>3, <2>4 DEF Active
  <2>5. CASE j # i
    BY <1>2, <1>3, <1>6, <2>2, <2>3, <2>5 DEF InstExact
  <2> QED
    BY <2>4, <2>5
<1>8. Quiet
  BY <1>2, <1>3, <1>6 DEF Quiet, Unstarted, Active, Dispatches
<1>9. GroupExact' /\ TaskExact' /\ WorkersKept'
  BY <1>4, <1>8, QuietKeeps
<1>10. BlockExact'
  <2>1. failure' = "cancelled" => runSignal'
    BY <1>2, <1>3 DEF BlockExact
  <2>2. blockReason' # "none" =>
          \A t \in Tasks : Block[t[1]] = block' /\ Live(t)' => reason'[t[1]] # "none"
    BY <1>2, <1>4, LinkedReach, ReachKept
  <2> QED
    BY <1>1, <1>2, <1>3, <2>1, <2>2 DEF BlockExact
<1> QED
  BY <1>5, <1>7, <1>9, <1>10 DEF Inv

(* An instruction completes, and what waited for it is launched.            *)
LEMMA CompleteKeeps ==
  ASSUME Inv, NEW i \in Instructions, Complete(i),
         UNCHANGED <<task, rejected, reason, outstanding>>,
         inst[i] \in {"working", "started", "syncing"},
         inst[i] = "syncing" => Returned(Group[i])
  PROVE  Inv'
<1> USE DEF Inv
<1>1. node = "running" /\ Block[i] = block /\ node # "returned" /\ node # "failed"
      /\ inst[i] # "idle" /\ inst[i] # "done"
  BY DEF Active, InstExact
<1>2. UNCHANGED <<node, block, failure, blockReason, runSignal>>
  BY DEF Complete
<1>3. inst' \in [Instructions -> Active \cup {"idle", "done", "failed"}]
  BY DEF Complete, Launched, TypeOK, Active
<1>4. inst'[i] = "done"
  <2> DEFINE states == [inst EXCEPT ![i] = "done"]
  <2>1. states \in [Instructions -> Active \cup {"idle", "done", "failed"}] /\ states[i] = "done"
    BY DEF TypeOK
  <2> HIDE DEF states
  <2>2. \/ inst' = states
        \/ inst' = Launched(block, {j \in InBlock(block) : inst[j] = "done"} \cup {i},
                            states, blockReason # "none")
    BY DEF Complete, states
  <2>3. CASE inst' = Launched(block, {j \in InBlock(block) : inst[j] = "done"} \cup {i},
                              states, blockReason # "none")
    <3>1. inst'[i] = states[i] \/ states[i] = "idle"
      BY <2>1, <2>3 DEF Launched
    <3> QED
      BY <2>1, <3>1
  <2> QED
    BY <2>1, <2>2, <2>3
<1>5. ASSUME NEW j \in Instructions, j # i
      PROVE  \/ inst'[j] = inst[j]
             \/ /\ inst[j] = "idle" /\ Block[j] = block /\ inst'[j] \in {"launched", "refused"}
                /\ \A d \in Deps[j] : d = i \/ inst[d] = "done"
  <2> DEFINE states == [inst EXCEPT ![i] = "done"]
             ended == {k \in InBlock(block) : inst[k] = "done"} \cup {i}
  <2>1. states \in [Instructions -> Active \cup {"idle", "done", "failed"}] /\ states[j] = inst[j]
    BY <1>5 DEF TypeOK
  <2>2. \A d \in ended : d = i \/ inst[d] = "done"
    OBVIOUS
  <2> HIDE DEF states, ended
  <2>3. \/ inst' = states
        \/ inst' = Launched(block, ended, states, blockReason # "none")
    BY DEF Complete, states, ended
  <2>4. CASE inst' = states
    BY <2>1, <2>4
  <2>5. CASE inst' = Launched(block, ended, states, blockReason # "none")
    <3>1. \/ inst'[j] = states[j]
          \/ /\ states[j] = "idle" /\ Block[j] = block /\ Deps[j] \subseteq ended
             /\ inst'[j] \in {"launched", "refused"}
      BY <2>1, <2>5 DEF Launched, InBlock
    <3> QED
      BY <2>1, <2>2, <3>1
  <2> QED
    BY <2>3, <2>4, <2>5
<1>6. TypeOK'
  BY <1>2, <1>3 DEF TypeOK
<1>7. InstExact'
  <2> SUFFICES ASSUME NEW j \in Instructions
               PROVE  /\ inst'[j] \in Active => node' = "running" /\ Block[j] = block'
                      /\ Block[j] > block' => inst'[j] = "idle"
                      /\ inst'[j] # "idle" => \A d \in Deps[j] : inst'[d] = "done"
                      /\ inst'[j] = "failed" => failure' # "none"
                      /\ inst'[j] = "started" => Op[j] = "dispatch"
                      /\ inst'[j] = "syncing" => Op[j] = "sync" /\ Group[j] \in Dispatches
                      /\ inst'[j] = "working" => Op[j] = "work"
    BY DEF InstExact
  <2>1. ~(block > block)
    BY DEF TypeOK
  <2>2. \A d \in Instructions : inst[d] = "done" => inst'[d] = "done"
    BY <1>4, <1>5
  <2>3. Deps[j] \subseteq Instructions
    BY ProgramAssumption
  <2>4. inst[j] # "idle" => \A d \in Deps[j] : inst'[d] = "done"
    BY <2>2, <2>3 DEF InstExact
  <2>5. CASE j = i
    BY <1>1, <1>2, <1>4, <2>1, <2>4, <2>5 DEF Active
  <2>6. CASE j # i /\ inst'[j] = inst[j]
    BY <1>2, <2>4, <2>6 DEF InstExact
  <2>7. CASE j # i /\ inst'[j] # inst[j]
    <3>1. /\ inst[j] = "idle" /\ Block[j] = block /\ inst'[j] \in {"launched", "refused"}
          /\ \A d \in Deps[j] : d = i \/ inst[d] = "done"
      BY <1>5, <2>7
    <3> QED
      BY <1>1, <1>2, <1>4, <2>1, <2>2, <2>3, <3>1
  <2> QED
    BY <2>5, <2>6, <2>7
<1>8. Damped
  BY StillDamps
<1>9. Quiet
  <2>1. \A g \in Dispatches :
          /\ inst'[g] \in Unstarted => inst[g] \in Unstarted
          /\ inst'[g] = "started" => inst[g] = "started"
          /\ inst'[g] = "done" => inst[g] \in {"started", "done"}
    <3> SUFFICES ASSUME NEW g \in Dispatches
                 PROVE  /\ inst'[g] \in Unstarted => inst[g] \in Unstarted
                        /\ inst'[g] = "started" => inst[g] = "started"
                        /\ inst'[g] = "done" => inst[g] \in {"started", "done"}
      OBVIOUS
    <3>1. g \in Instructions /\ Op[g] = "dispatch"
      BY DEF Dispatches
    <3>2. CASE g = i
      BY <1>4, <3>1, <3>2 DEF InstExact, Unstarted
    <3>3. CASE g # i
      BY <1>5, <3>1, <3>3 DEF Unstarted
    <3> QED
      BY <3>2, <3>3
  <2>2. \A j \in Instructions :
          /\ inst[j] \in {"done", "failed"} => inst'[j] = inst[j]
          /\ inst[j] = "syncing" => \/ inst'[j] = "syncing"
                                    \/ inst'[j] = "done" /\ Returned(Group[j])
    BY <1>4, <1>5
  <2> QED
    BY <1>2, <2>1, <2>2 DEF Quiet
<1>10. GroupExact' /\ TaskExact' /\ WorkersKept'
  BY <1>8, <1>9, QuietKeeps
<1>11. BlockExact'
  <2>1. blockReason' # "none" =>
          \A t \in Tasks : Block[t[1]] = block' /\ Live(t)' => reason'[t[1]] # "none"
    BY <1>2, <1>8, ReachKept
  <2> QED
    BY <1>1, <1>2, <2>1 DEF BlockExact
<1> QED
  BY <1>6, <1>7, <1>10, <1>11 DEF Inv

(* The node fails: the groups that no sync has taken are aborted.           *)
LEMMA NodeFailsKeeps ==
  ASSUME Inv, NEW kind \in Kinds, NodeFails(kind), \A i \in Instructions : inst[i] \notin Active
  PROVE  Inv'
<1> USE DEF Inv
<1>1. /\ node' = "failing" /\ UNCHANGED <<block, inst, failure, blockReason, runSignal, outstanding>>
      /\ AbortGroups(outstanding, kind)
  BY DEF NodeFails
<1>2. /\ Damped
      /\ task' \in [Tasks -> Kinds \cup {"none", "queued", "running", "returned"}]
      /\ rejected' \in [Dispatches -> Kinds \cup {"none"}]
      /\ reason' \in [Dispatches -> Kinds \cup {"none"}]
  BY <1>1, AbortDamps, LinkedStarted
<1>3. TypeOK'
  BY <1>1, <1>2 DEF TypeOK
<1>4. InstExact'
  BY <1>1 DEF InstExact
<1>5. Quiet
  BY <1>1 DEF Quiet, Unstarted, Active, Dispatches
<1>6. GroupExact' /\ TaskExact' /\ WorkersKept'
  BY <1>2, <1>5, QuietKeeps
<1>7. BlockExact'
  <2>1. blockReason' # "none" =>
          \A t \in Tasks : Block[t[1]] = block' /\ Live(t)' => reason'[t[1]] # "none"
    BY <1>1, <1>2, ReachKept
  <2> QED
    BY <1>1, <2>1 DEF BlockExact
<1> QED
  BY <1>3, <1>4, <1>6, <1>7 DEF Inv

(* The first rejection of a task aborts its group.                          *)
LEMMA CatchKeeps ==
  ASSUME Inv, NEW g \in Dispatches, CatchTask(g)
  PROVE  Inv'
<1> USE DEF Inv
<1>1. /\ rejected[g] # "none" /\ reason[g] = "none" /\ AbortGroups({g}, rejected[g])
      /\ UNCHANGED <<node, block, inst, failure, blockReason, runSignal, outstanding>>
  BY DEF CatchTask
<1>2. rejected[g] \in Kinds /\ inst[g] \notin Unstarted /\ Failed(g, Own)
  BY <1>1 DEF TypeOK, GroupExact
<1>3. /\ Damped
      /\ task' \in [Tasks -> Kinds \cup {"none", "queued", "running", "returned"}]
      /\ rejected' \in [Dispatches -> Kinds \cup {"none"}]
      /\ reason' \in [Dispatches -> Kinds \cup {"none"}]
  BY <1>1, <1>2, AbortDamps
<1>4. TypeOK'
  BY <1>1, <1>3 DEF TypeOK
<1>5. InstExact'
  BY <1>1 DEF InstExact
<1>6. \A h \in Dispatches : h # g => reason'[h] = reason[h]
  BY <1>1 DEF AbortGroups
<1>7. Quiet
  BY <1>1, <1>2, <1>6 DEF Quiet
<1>8. GroupExact' /\ TaskExact' /\ WorkersKept'
  BY <1>3, <1>7, QuietKeeps
<1>9. BlockExact'
  <2>1. blockReason' # "none" =>
          \A t \in Tasks : Block[t[1]] = block' /\ Live(t)' => reason'[t[1]] # "none"
    BY <1>1, <1>3, ReachKept
  <2>2. \A h \in Dispatches : Settled(h) => Settled(h)'
    BY <1>3, DampedGroup
  <2>3. outstanding \subseteq Dispatches
    BY DEF TypeOK
  <2>4. node' = "failed" => \A h \in outstanding' : Settled(h)'
    BY <1>1, <2>2, <2>3 DEF BlockExact
  <2> QED
    BY <1>1, <2>1, <2>4 DEF BlockExact, Settled, TasksOf
<1> QED
  BY <1>4, <1>5, <1>8, <1>9 DEF Inv

(* The run is aborted: the controllers follow.                              *)
LEMMA AbortRunKeeps ==
  ASSUME Inv, AbortRun
  PROVE  Inv'
<1> USE DEF Inv
<1>1. /\ node = "running" /\ node # "returned" /\ node # "failed" /\ runSignal' = TRUE
      /\ UNCHANGED <<node, block, inst, failure, outstanding>>
  BY DEF AbortRun
<1>2. /\ Damped
      /\ task' \in [Tasks -> Kinds \cup {"none", "queued", "running", "returned"}]
      /\ rejected' \in [Dispatches -> Kinds \cup {"none"}]
      /\ reason' \in [Dispatches -> Kinds \cup {"none"}]
      /\ blockReason' \in Kinds \cup {"none"}
      /\ \/ UNCHANGED blockReason
         \/ \A g \in Linked : reason'[g] # "none"
  <2>1. CASE blockReason = "none"
    <3>1. AbortGroups(Linked, "aborted") /\ blockReason' = "aborted" /\ "aborted" \in Kinds
      BY <2>1 DEF AbortRun, Kinds
    <3> QED
      BY <3>1, AbortDamps, LinkedStarted
  <2>2. CASE blockReason # "none"
    <3>1. UNCHANGED <<blockReason, task, rejected, reason>>
      BY <2>2 DEF AbortRun
    <3> QED
      BY <3>1, StillDamps DEF TypeOK
  <2> QED
    BY <2>1, <2>2
<1>3. TypeOK'
  BY <1>1, <1>2 DEF TypeOK
<1>4. InstExact'
  BY <1>1 DEF InstExact
<1>5. Quiet
  BY <1>1 DEF Quiet
<1>6. GroupExact' /\ TaskExact' /\ WorkersKept'
  BY <1>2, <1>5, QuietKeeps
<1>7. BlockExact'
  <2>1. blockReason' # "none" =>
          \A t \in Tasks : Block[t[1]] = block' /\ Live(t)' => reason'[t[1]] # "none"
    BY <1>1, <1>2, LinkedReach, ReachKept
  <2> QED
    BY <1>1, <2>1 DEF BlockExact
<1> QED
  BY <1>3, <1>4, <1>6, <1>7 DEF Inv

-----------------------------------------------------------------------------
(* A block that is done has nothing active, and nothing has failed.         *)
LEMMA DoneBlock ==
  ASSUME Inv, BlockDone
  PROVE  \A i \in Instructions : inst[i] \notin Active
BY DEF Inv, InstExact, BlockDone, InBlock, Active

(* The next block starts, with a controller of its own.                     *)
LEMMA JumpKeeps ==
  ASSUME Inv, Jump
  PROVE  Inv'
<1> USE DEF Inv
<1>1. BlockDone /\ block < LastBlock /\ node = "running" /\ failure = "none"
      /\ node # "returned" /\ node # "failed"
  BY DEF Jump, BlockDone
<1>2. CASE runSignal
  <2>1. NodeFails("aborted") /\ "aborted" \in Kinds
    BY <1>2 DEF Jump, Kinds
  <2> QED
    BY <1>1, <2>1, DoneBlock, NodeFailsKeeps
<1>3. CASE ~runSignal
  <2>1. /\ block' = block + 1 /\ blockReason' = "none"
        /\ inst' = Launched(block + 1, {}, inst, FALSE)
        /\ UNCHANGED <<node, failure, runSignal, task, rejected, reason, outstanding>>
    BY <1>3 DEF Jump
  <2>2. ASSUME NEW i \in Instructions
        PROVE  \/ inst'[i] = inst[i]
               \/ /\ inst[i] = "idle" /\ Block[i] = block + 1 /\ Deps[i] = {}
                  /\ inst'[i] = "launched"
    BY <2>1 DEF Launched, InBlock, TypeOK
  <2>3. TypeOK'
    <3>1. block' \in 1..LastBlock
      BY <1>1, <2>1, ProgramAssumption DEF TypeOK
    <3>2. inst' \in [Instructions -> Active \cup {"idle", "done", "failed"}]
      BY <2>1 DEF Launched, TypeOK, Active
    <3> QED
      BY <2>1, <3>1, <3>2 DEF TypeOK
  <2>4. InstExact'
    <3> SUFFICES ASSUME NEW j \in Instructions
                 PROVE  /\ inst'[j] \in Active => node' = "running" /\ Block[j] = block'
                        /\ Block[j] > block' => inst'[j] = "idle"
                        /\ inst'[j] # "idle" => \A d \in Deps[j] : inst'[d] = "done"
                        /\ inst'[j] = "failed" => failure' # "none"
                        /\ inst'[j] = "started" => Op[j] = "dispatch"
                        /\ inst'[j] = "syncing" => Op[j] = "sync" /\ Group[j] \in Dispatches
                        /\ inst'[j] = "working" => Op[j] = "work"
      BY DEF InstExact
    <3>1. block \in Nat /\ Block[j] \in Nat
      BY ProgramAssumption DEF TypeOK
    <3>2. inst[j] \notin Active
      BY <1>1, DoneBlock
    <3>3. Deps[j] \subseteq Instructions /\ \A d \in Instructions : inst[d] = "done" => inst'[d] = "done"
      BY <2>2, ProgramAssumption
    <3>4. CASE inst'[j] = inst[j]
      <4>1. /\ Block[j] > block => inst[j] = "idle"
            /\ inst[j] # "idle" => \A d \in Deps[j] : inst[d] = "done"
            /\ inst[j] = "failed" => failure # "none"
            /\ inst[j] = "started" => Op[j] = "dispatch"
            /\ inst[j] = "syncing" => Op[j] = "sync" /\ Group[j] \in Dispatches
            /\ inst[j] = "working" => Op[j] = "work"
        BY DEF InstExact
      <4>2. Block[j] > block' => inst[j] = "idle"
        BY <2>1, <3>1, <4>1
      <4>3. inst'[j] # "idle" => \A d \in Deps[j] : inst'[d] = "done"
        BY <3>3, <3>4, <4>1
      <4> QED
        BY <2>1, <3>2, <3>4, <4>1, <4>2, <4>3
    <3>5. CASE inst[j] = "idle" /\ Block[j] = block + 1 /\ Deps[j] = {} /\ inst'[j] = "launched"
      <4>1. Block[j] = block' /\ ~(Block[j] > block')
        BY <2>1, <3>1, <3>5
      <4>2. \A d \in Deps[j] : inst'[d] = "done"
        BY <3>5
      <4> QED
        BY <1>1, <2>1, <3>5, <4>1, <4>2
    <3> QED
      BY <2>2, <3>4, <3>5
  <2>5. Damped
    BY <2>1, StillDamps
  <2>6. Quiet
    BY <2>1, <2>2 DEF Quiet, Unstarted, Dispatches
  <2>7. GroupExact' /\ TaskExact' /\ WorkersKept'
    BY <2>5, <2>6, QuietKeeps
  <2>8. BlockExact'
    BY <1>1, <2>1 DEF BlockExact
  <2> QED
    BY <2>3, <2>4, <2>7, <2>8 DEF Inv
<1> QED
  BY <1>2, <1>3

(* The node returns, or leaves groups behind and fails.                     *)
LEMMA RetKeeps ==
  ASSUME Inv, Ret
  PROVE  Inv'
<1> USE DEF Inv
<1>1. BlockDone /\ node = "running" /\ failure = "none"
  BY DEF Ret, BlockDone
<1>2. \A i \in Instructions : inst[i] \notin Active
  BY <1>1, DoneBlock
<1>3. CASE outstanding # {}
  <2>1. NodeFails("error") /\ "error" \in Kinds
    BY <1>3 DEF Ret, Kinds
  <2> QED
    BY <1>2, <2>1, NodeFailsKeeps
<1>4. CASE outstanding = {}
  <2>1. /\ node' = "returned"
        /\ UNCHANGED <<block, inst, failure, blockReason, runSignal, task, rejected, reason,
                       outstanding>>
    BY <1>4 DEF Ret
  <2>2. TypeOK'
    BY <2>1 DEF TypeOK
  <2>3. InstExact'
    BY <1>2, <2>1 DEF InstExact
  <2>4. Damped /\ Quiet
    BY <1>1, <2>1, StillDamps DEF Quiet, Unstarted, Dispatches
  <2>5. GroupExact' /\ TaskExact' /\ WorkersKept'
    BY <2>4, QuietKeeps
  <2>6. BlockExact'
    <3>1. blockReason' # "none" =>
            \A t \in Tasks : Block[t[1]] = block' /\ Live(t)' => reason'[t[1]] # "none"
      BY <2>1, <2>4, ReachKept
    <3> QED
      BY <1>1, <1>4, <2>1, <3>1 DEF BlockExact
  <2> QED
    BY <2>2, <2>3, <2>5, <2>6 DEF Inv
<1> QED
  BY <1>3, <1>4

(* The node has failed once its groups have settled.                        *)
LEMMA NodeFailedKeeps ==
  ASSUME Inv, NodeFailed
  PROVE  Inv'
<1> USE DEF Inv
<1>1. /\ node = "failing" /\ node' = "failed" /\ \A g \in outstanding : Settled(g)
      /\ UNCHANGED <<block, inst, failure, blockReason, runSignal, task, rejected, reason,
                     outstanding>>
  BY DEF NodeFailed
<1>2. TypeOK'
  BY <1>1 DEF TypeOK
<1>3. InstExact'
  BY <1>1 DEF InstExact
<1>4. Damped /\ Quiet
  BY <1>1, StillDamps DEF Quiet, Unstarted, Dispatches
<1>5. GroupExact' /\ TaskExact' /\ WorkersKept'
  BY <1>4, QuietKeeps
<1>6. BlockExact'
  <2>1. blockReason' # "none" =>
          \A t \in Tasks : Block[t[1]] = block' /\ Live(t)' => reason'[t[1]] # "none"
    BY <1>1, <1>4, ReachKept
  <2>2. node' = "failed" => \A g \in outstanding' : Settled(g)'
    BY <1>1 DEF Settled, TasksOf
  <2> QED
    BY <1>1, <2>1, <2>2 DEF BlockExact
<1> QED
  BY <1>2, <1>3, <1>5, <1>6 DEF Inv

(* An instruction that is neither dispatch nor sync starts its work.        *)
LEMMA WorkKeeps ==
  ASSUME Inv, NEW i \in Instructions, Work(i)
  PROVE  Inv'
<1> USE DEF Inv
<1>1. /\ inst[i] = "launched" /\ Op[i] = "work" /\ i \notin Dispatches
      /\ \A j \in Instructions : inst'[j] = IF j = i THEN "working" ELSE inst[j]
      /\ UNCHANGED <<node, block, failure, blockReason, runSignal, task, rejected, reason,
                     outstanding>>
  BY DEF Work, TypeOK, Dispatches
<1>2. TypeOK'
  BY DEF Work, TypeOK, Active
<1>3. InstExact'
  BY <1>1, ProgramAssumption DEF InstExact, Active
<1>4. Damped /\ Quiet
  BY <1>1, StillDamps DEF Quiet, Unstarted, Dispatches
<1>5. GroupExact' /\ TaskExact' /\ WorkersKept'
  BY <1>4, QuietKeeps
<1>6. BlockExact'
  <2>1. blockReason' # "none" =>
          \A t \in Tasks : Block[t[1]] = block' /\ Live(t)' => reason'[t[1]] # "none"
    BY <1>1, <1>4, ReachKept
  <2>2. node' # "failed"
    BY <1>1 DEF InstExact, Active
  <2> QED
    BY <1>1, <2>1, <2>2 DEF BlockExact
<1> QED
  BY <1>2, <1>3, <1>5, <1>6 DEF Inv

-----------------------------------------------------------------------------
(* A dispatch asks for workers: the first tasks get them.                   *)
LEMMA FirstWorkers ==
  ASSUME NEW g \in Dispatches
  PROVE  LET admitted == {t \in TasksOf(g) : Admitted(t)}
         IN  /\ Cardinality(admitted) <= maxDispatchWorkers
             /\ (\E t \in TasksOf(g) : ~Admitted(t)) => Cardinality(admitted) = maxDispatchWorkers
<1> DEFINE admitted == {t \in TasksOf(g) : Admitted(t)}
           least == IF Size[g] <= maxDispatchWorkers THEN Size[g] ELSE maxDispatchWorkers
<1>1. Size[g] \in Nat /\ maxDispatchWorkers \in Nat
  BY ProgramAssumption, WorkersAssumption
<1>2. least \in Nat /\ least <= maxDispatchWorkers /\ least <= Size[g]
      /\ (least < Size[g] => least = maxDispatchWorkers)
  BY <1>1
<1>3. admitted = {g} \X (1..least)
  BY <1>1, TasksOfGroup DEF Admitted
<1>4. \A t \in TasksOf(g) : ~Admitted(t) => least = maxDispatchWorkers
  BY <1>1, TasksOfGroup DEF Admitted
<1> HIDE DEF admitted, least
<1>5. IsFiniteSet(1..least) /\ Cardinality(1..least) = least
  BY <1>2, FS_Interval
<1>6. IsFiniteSet({g}) /\ Cardinality({g}) = 1
  BY FS_Singleton
<1>7. Cardinality({g} \X (1..least)) = 1 * least
  <2> DEFINE one == {g}
             positions == 1..least
  <2>1. IsFiniteSet(one) /\ IsFiniteSet(positions)
    BY <1>5, <1>6
  <2> HIDE DEF one, positions
  <2>2. Cardinality(one \X positions) = Cardinality(one) * Cardinality(positions)
    BY <2>1, FS_Product
  <2> QED
    BY <1>5, <1>6, <2>2 DEF one, positions
<1>8. Cardinality(admitted) = least
  BY <1>2, <1>3, <1>7
<1> QED
  BY <1>2, <1>4, <1>8 DEF admitted

(* A group starts.                                                          *)
LEMMA StartKeeps ==
  ASSUME Inv, NEW g \in Dispatches, StartTaskGroup(g)
  PROVE  Inv'
<1> USE DEF Inv
<1>1. /\ inst[g] = "launched" /\ g \in Instructions /\ Op[g] = "dispatch"
      /\ outstanding' = outstanding \cup {g}
      /\ UNCHANGED <<node, block, failure, blockReason, runSignal, rejected>>
  BY DEF StartTaskGroup, Dispatches
<1>2. /\ node = "running" /\ node # "returned" /\ node # "failed"
      /\ g \notin outstanding /\ reason[g] = "none" /\ rejected[g] = "none"
      /\ \A t \in TasksOf(g) : task[t] = "none"
  BY <1>1 DEF InstExact, Active, GroupExact, Unstarted
<1>3. \A i \in Instructions : inst'[i] = IF i = g THEN "started" ELSE inst[i]
  BY DEF StartTaskGroup, TypeOK
<1>4. \A h \in Dispatches : reason'[h] = IF h = g THEN blockReason ELSE reason[h]
  BY DEF StartTaskGroup, TypeOK
<1>5. \A t \in Tasks : task'[t] = IF t[1] # g THEN task[t]
                                  ELSE IF blockReason # "none" THEN blockReason
                                  ELSE IF Admitted(t) THEN "running" ELSE "queued"
  BY DEF StartTaskGroup
<1>6. blockReason \in Kinds \cup {"none"}
  BY DEF TypeOK
<1>7. TypeOK'
  BY <1>1 DEF StartTaskGroup, TypeOK, Active
<1>8. InstExact'
  BY <1>1, <1>3, ProgramAssumption DEF InstExact, Active
<1>9. \A h \in Dispatches : \A t \in TasksOf(h) : t \in Tasks /\ t[1] = h
  BY DEF TasksOf
<1>10. \A h \in Dispatches \ {g} : \A t \in TasksOf(h) : task'[t] = task[t]
  BY <1>5, <1>9
<1>11. GroupExact'
  <2> SUFFICES ASSUME NEW h \in Dispatches
               PROVE  /\ inst'[h] \in Unstarted =>
                           /\ h \notin outstanding' /\ reason'[h] = "none" /\ rejected'[h] = "none"
                           /\ \A t \in TasksOf(h) : task'[t] = "none"
                      /\ inst'[h] = "started" => h \in outstanding'
                      /\ inst'[h] = "done" =>
                           \/ h \in outstanding'
                           \/ \E i \in Instructions : /\ Op[i] = "sync" /\ Group[i] = h
                                                      /\ \/ inst'[i] \in {"syncing", "failed"}
                                                         \/ inst'[i] = "done" /\ Returned(h)'
                      /\ rejected'[h] # "none" => reason'[h] # "none" \/ Failed(h, Own)'
                      /\ reason'[h] # "none" =>
                           runSignal' \/ failure' # "none" \/ node' # "running" \/ Failed(h, Own)'
                      /\ reason'[h] # "none" => \A t \in TasksOf(h) : task'[t] # "queued"
    BY DEF GroupExact, TasksOf
  <2>1. CASE h = g
    <3>1. inst'[g] = "started" /\ inst'[g] \notin Unstarted /\ inst'[g] # "done" /\ g \in outstanding'
      BY <1>1, <1>3 DEF Unstarted
    <3>2. rejected'[g] = "none" /\ reason'[g] = blockReason
      BY <1>1, <1>2, <1>4
    <3>3. blockReason # "none" => runSignal' \/ failure' # "none"
      BY <1>1 DEF BlockExact
    <3>4. blockReason # "none" => \A t \in TasksOf(g) : task'[t] # "queued"
      BY <1>5, <1>6, <1>9 DEF Kinds
    <3> QED
      BY <2>1, <3>1, <3>2, <3>3, <3>4
  <2>2. CASE h # g
    <3>1. /\ inst'[h] = inst[h] /\ reason'[h] = reason[h] /\ rejected'[h] = rejected[h]
          /\ (h \in outstanding' <=> h \in outstanding)
          /\ \A t \in TasksOf(h) : task'[t] = task[t]
      BY <1>1, <1>3, <1>4, <1>10, <2>2 DEF Dispatches
    <3>2. (Failed(h, Own) => Failed(h, Own)') /\ (Returned(h) => Returned(h)')
      BY <3>1 DEF Failed, Returned, TasksOf
    <3>3. inst'[h] = "done" =>
            \/ h \in outstanding'
            \/ \E i \in Instructions : /\ Op[i] = "sync" /\ Group[i] = h
                                       /\ \/ inst'[i] \in {"syncing", "failed"}
                                          \/ inst'[i] = "done" /\ Returned(h)'
      <4> SUFFICES ASSUME inst[h] = "done", h \notin outstanding
                   PROVE  \E i \in Instructions : /\ Op[i] = "sync" /\ Group[i] = h
                                                  /\ \/ inst'[i] \in {"syncing", "failed"}
                                                     \/ inst'[i] = "done" /\ Returned(h)'
        BY <3>1
      <4>1. PICK i \in Instructions : /\ Op[i] = "sync" /\ Group[i] = h
                                      /\ \/ inst[i] \in {"syncing", "failed"}
                                         \/ inst[i] = "done" /\ Returned(h)
        BY DEF GroupExact
      <4>2. inst'[i] = inst[i]
        BY <1>1, <1>3, <4>1
      <4> QED
        BY <3>2, <4>1, <4>2
    <3> QED
      BY <1>1, <3>1, <3>2, <3>3 DEF GroupExact
  <2> QED
    BY <2>1, <2>2
<1>12. TaskExact'
  <2> SUFFICES ASSUME NEW t \in Tasks
               PROVE  /\ Live(t)' => Held(t[1])'
                      /\ task'[t] = "cancelled" => reason'[t[1]] # "none"
    BY DEF TaskExact
  <2>1. t[1] \in Dispatches
    BY TaskShape
  <2>2. CASE t[1] = g
    BY <1>1, <1>4, <1>5, <2>1, <2>2 DEF Held
  <2>3. CASE t[1] # g
    <3>1. task'[t] = task[t] /\ reason'[t[1]] = reason[t[1]]
      BY <1>4, <1>5, <2>1, <2>3
    <3>2. Held(t[1]) => Held(t[1])'
      BY <1>1, <1>3 DEF Held
    <3> QED
      BY <3>1, <3>2 DEF TaskExact, Live
  <2> QED
    BY <2>2, <2>3
<1>13. WorkersKept'
  <2> SUFFICES ASSUME NEW h \in Dispatches
               PROVE  /\ Cardinality(RunningOf(h)') <= maxDispatchWorkers
                      /\ (\E t \in TasksOf(h) : task'[t] = "queued") =>
                           Cardinality(RunningOf(h)') = maxDispatchWorkers
    BY DEF WorkersKept, TasksOf
  <2>1. RunningOf(h)' = {t \in TasksOf(h) : task'[t] = "running"}
    BY DEF RunningOf, TasksOf
  <2>2. CASE h # g
    <3>1. RunningOf(h)' = RunningOf(h)
      BY <1>10, <2>1, <2>2 DEF RunningOf
    <3> QED
      BY <1>10, <2>2, <3>1 DEF WorkersKept
  <2>3. CASE h = g /\ blockReason # "none"
    <3>1. RunningOf(h)' = {} /\ \A t \in TasksOf(h) : task'[t] # "queued"
      BY <1>5, <1>6, <1>9, <2>1, <2>3 DEF Kinds
    <3>2. Cardinality({}) = 0
      BY FS_EmptySet
    <3> QED
      BY <3>1, <3>2, WorkersAssumption
  <2>4. CASE h = g /\ blockReason = "none"
    <3>1. /\ RunningOf(h)' = {t \in TasksOf(g) : Admitted(t)}
          /\ \A t \in TasksOf(h) : task'[t] = "queued" => ~Admitted(t)
      BY <1>5, <1>9, <2>1, <2>4
    <3> QED
      BY <2>4, <3>1, FirstWorkers
  <2> QED
    BY <2>2, <2>3, <2>4
<1>14. BlockExact'
  <2>1. ASSUME blockReason' # "none", NEW t \in Tasks, Block[t[1]] = block', Live(t)'
        PROVE  reason'[t[1]] # "none"
    <3>1. t[1] \in Dispatches
      BY TaskShape
    <3>2. CASE t[1] = g
      BY <1>1, <1>4, <2>1, <3>1, <3>2
    <3>3. CASE t[1] # g
      <4>1. Live(t) /\ reason'[t[1]] = reason[t[1]]
        BY <1>4, <1>5, <2>1, <3>1, <3>3 DEF Live
      <4> QED
        BY <1>1, <2>1, <4>1 DEF BlockExact
    <3> QED
      BY <3>2, <3>3
  <2> QED
    BY <1>1, <1>2, <2>1 DEF BlockExact
<1> QED
  BY <1>7, <1>8, <1>11, <1>12, <1>13, <1>14 DEF Inv

-----------------------------------------------------------------------------
(* A sync takes its group and waits for it.                                 *)
LEMMA SyncKeeps ==
  ASSUME Inv, NEW i \in Instructions, Sync(i)
  PROVE  Inv'
<1> USE DEF Inv
<1>1. /\ inst[i] = "launched" /\ Op[i] = "sync" /\ inst[i] \in Active /\ i \notin Dispatches
      /\ node = "running" /\ node # "failed" /\ node # "returned"
  BY DEF Sync, Active, InstExact, Dispatches
<1>2. CASE Group[i] \notin outstanding
  <2>1. Fail(i, "error") /\ UNCHANGED outstanding /\ "error" \in Kinds /\ "error" # "cancelled"
    BY <1>2 DEF Sync, Kinds
  <2> QED
    BY <1>1, <2>1, FailKeeps
<1>3. CASE Group[i] \in outstanding
  <2>1. PICK g \in Dispatches : g = Group[i]
    BY <1>3 DEF TypeOK
  <2>2. /\ outstanding' = outstanding \ {g}
        /\ UNCHANGED <<node, block, failure, blockReason, runSignal, task, rejected, reason>>
        /\ \A j \in Instructions : inst'[j] = IF j = i THEN "syncing" ELSE inst[j]
        /\ g \in outstanding
    BY <1>3, <2>1 DEF Sync, TypeOK
  <2>3. TypeOK'
    BY <1>3, <2>1, <2>2 DEF Sync, TypeOK, Active
  <2>4. InstExact'
    BY <1>1, <2>1, <2>2, ProgramAssumption DEF InstExact, Active
  <2>5. inst[g] \notin Unstarted /\ inst[g] # "started"
    <3>1. inst[g] \notin Unstarted
      BY <2>2 DEF GroupExact
    <3>2. ASSUME inst[g] = "started" PROVE FALSE
      <4>1. Block[g] = block /\ Block[i] = block
        BY <1>1, <3>2 DEF InstExact, Active, Dispatches
      <4>2. g \in Deps[i]
        BY <1>1, <2>1, <4>1, SyncAssumption
      <4>3. inst[g] = "done"
        BY <1>1, <4>2 DEF InstExact
      <4> QED
        BY <3>2, <4>3
    <3> QED
      BY <3>1, <3>2
  <2>6. \A h \in Dispatches : inst'[h] = inst[h]
    BY <1>1, <2>2 DEF Dispatches
  <2>7. GroupExact'
    <3> SUFFICES ASSUME NEW h \in Dispatches
                 PROVE  /\ inst'[h] \in Unstarted =>
                             /\ h \notin outstanding' /\ reason'[h] = "none" /\ rejected'[h] = "none"
                             /\ \A t \in TasksOf(h) : task'[t] = "none"
                        /\ inst'[h] = "started" => h \in outstanding'
                        /\ inst'[h] = "done" =>
                             \/ h \in outstanding'
                             \/ \E j \in Instructions : /\ Op[j] = "sync" /\ Group[j] = h
                                                        /\ \/ inst'[j] \in {"syncing", "failed"}
                                                           \/ inst'[j] = "done" /\ Returned(h)'
                        /\ rejected'[h] # "none" => reason'[h] # "none" \/ Failed(h, Own)'
                        /\ reason'[h] # "none" =>
                             runSignal' \/ failure' # "none" \/ node' # "running" \/ Failed(h, Own)'
                        /\ reason'[h] # "none" => \A t \in TasksOf(h) : task'[t] # "queued"
      BY DEF GroupExact, TasksOf
    <3>1. (Failed(h, Own)' <=> Failed(h, Own)) /\ (Returned(h)' <=> Returned(h))
      BY <2>2 DEF Failed, Returned, TasksOf
    <3>2. inst'[h] \in Unstarted =>
            /\ h \notin outstanding' /\ reason'[h] = "none" /\ rejected'[h] = "none"
            /\ \A t \in TasksOf(h) : task'[t] = "none"
      BY <2>2, <2>6 DEF GroupExact
    <3>3. inst'[h] = "started" => h \in outstanding'
      BY <2>2, <2>5, <2>6 DEF GroupExact
    <3>4. inst'[h] = "done" =>
            \/ h \in outstanding'
            \/ \E j \in Instructions : /\ Op[j] = "sync" /\ Group[j] = h
                                       /\ \/ inst'[j] \in {"syncing", "failed"}
                                          \/ inst'[j] = "done" /\ Returned(h)'
      <4> SUFFICES ASSUME inst[h] = "done", h \notin outstanding'
                   PROVE  \E j \in Instructions : /\ Op[j] = "sync" /\ Group[j] = h
                                                  /\ \/ inst'[j] \in {"syncing", "failed"}
                                                     \/ inst'[j] = "done" /\ Returned(h)'
        BY <2>6
      <4>1. CASE h = g
        BY <1>1, <2>1, <2>2, <4>1
      <4>2. CASE h # g
        <5>1. PICK j \in Instructions : /\ Op[j] = "sync" /\ Group[j] = h
                                        /\ \/ inst[j] \in {"syncing", "failed"}
                                           \/ inst[j] = "done" /\ Returned(h)
          BY <2>2, <4>2 DEF GroupExact
        <5>2. inst'[j] = inst[j]
          BY <1>1, <2>2, <5>1
        <5> QED
          BY <3>1, <5>1, <5>2
      <4> QED
        BY <4>1, <4>2
    <3> QED
      BY <2>2, <3>1, <3>2, <3>3, <3>4 DEF GroupExact
  <2>8. TaskExact'
    <3> SUFFICES ASSUME NEW t \in Tasks
                 PROVE  /\ Live(t)' => Held(t[1])'
                        /\ task'[t] = "cancelled" => reason'[t[1]] # "none"
      BY DEF TaskExact
    <3>1. Held(t[1]) => Held(t[1])'
      BY <1>1, <2>1, <2>2 DEF Held
    <3> QED
      BY <2>2, <3>1 DEF TaskExact, Live
  <2>9. WorkersKept'
    BY <2>2 DEF WorkersKept, RunningOf, TasksOf
  <2>10. BlockExact'
    BY <1>1, <2>2 DEF BlockExact, Live
  <2> QED
    BY <2>3, <2>4, <2>7, <2>8, <2>9, <2>10 DEF Inv
<1> QED
  BY <1>2, <1>3

(* The failure of a group is that of one of its tasks; it is a cancellation *)
(* only if every task that failed was cancelled.                            *)
LEMMA SelectedFailure ==
  ASSUME TypeOK, NEW g \in Dispatches, Failed(g, Kinds)
  PROVE  /\ selectTaskGroupFailure(g) \in Kinds
         /\ selectTaskGroupFailure(g) = "cancelled" =>
              \A t \in TasksOf(g) : task[t] \in Kinds => task[t] = "cancelled"
<1> DEFINE K == Kinds \ {"cancelled"}
<1>1. CASE Failed(g, {"interrupted"})
  BY <1>1 DEF selectTaskGroupFailure, Kinds
<1>2. CASE ~Failed(g, {"interrupted"}) /\ Failed(g, K)
  <2>1. selectTaskGroupFailure(g) = FirstOf(g, K)
    BY <1>2 DEF selectTaskGroupFailure
  <2> DEFINE places == {t[2] : t \in {u \in TasksOf(g) : task[u] \in K}}
  <2>2. \A t \in TasksOf(g) : t[2] \in Nat
    BY TaskShape DEF TasksOf
  <2>3. places \in SUBSET Nat /\ places # {}
    BY <1>2, <2>2 DEF Failed
  <2>4. PICK n \in places : \A m \in places : n <= m
    <3> HIDE DEF places
    <3> QED
      BY <2>3, FirstPosition
  <2>5. PICK t \in TasksOf(g) : task[t] \in K /\ t[2] = n
    BY <2>4
  <2>6. \A u \in TasksOf(g) : task[u] \in K => t[2] <= u[2]
    BY <2>4, <2>5
  <2> HIDE DEF K
  <2>7. FirstOf(g, K) \in K
    BY <2>5, <2>6 DEF FirstOf
  <2> QED
    BY <2>1, <2>7 DEF K
<1>3. CASE ~Failed(g, {"interrupted"}) /\ ~Failed(g, K)
  BY <1>3 DEF selectTaskGroupFailure, Failed, Kinds
<1> QED
  BY <1>1, <1>2, <1>3

(* The tasks have settled, and the sync returns or fails as they have.      *)
LEMMA SyncEndsKeeps ==
  ASSUME Inv, NEW i \in Instructions, SyncEnds(i)
  PROVE  Inv'
<1> USE DEF Inv
<1>1. /\ inst[i] = "syncing" /\ inst[i] \in Active /\ Settled(Group[i]) /\ UNCHANGED outstanding
      /\ node = "running" /\ Group[i] \in Dispatches
  BY DEF SyncEnds, Active, InstExact
<1>2. PICK g \in Dispatches : g = Group[i]
  BY <1>1
<1>3. CASE Failed(g, Kinds) /\ Fail(i, selectTaskGroupFailure(g))
  <2>1. selectTaskGroupFailure(g) \in Kinds
    BY <1>3, SelectedFailure
  <2>2. ASSUME selectTaskGroupFailure(g) = "cancelled", failure = "none"
        PROVE  runSignal
    <3>1. \A t \in TasksOf(g) : task[t] \in Kinds => task[t] = "cancelled"
      BY <1>3, <2>2, SelectedFailure
    <3>2. PICK t \in TasksOf(g) : task[t] = "cancelled"
      BY <1>3, <3>1 DEF Failed
    <3>3. reason[g] # "none"
      BY <3>2 DEF TaskExact, TasksOf
    <3>4. ~Failed(g, Own)
      BY <3>1 DEF Failed, Own, Kinds
    <3> QED
      BY <1>1, <2>2, <3>3, <3>4 DEF GroupExact
  <2> QED
    BY <1>1, <1>2, <1>3, <2>1, <2>2, FailKeeps
<1>4. CASE ~Failed(g, Kinds) /\ Complete(i) /\ UNCHANGED <<task, rejected, reason>>
  <2>1. Returned(g)
    BY <1>1, <1>2, <1>4 DEF Settled, Failed, Returned
  <2> QED
    BY <1>1, <1>2, <1>4, <2>1, CompleteKeeps
<1>5. CASE Fail(i, "error")
  BY <1>1, <1>5, FailKeeps DEF Kinds
<1> QED
  BY <1>2, <1>3, <1>4, <1>5 DEF SyncEnds

(* A task settles, and its worker goes to the first that waits for one.     *)
LEMMA TaskEndsKeeps ==
  ASSUME Inv, NEW t \in Tasks, NEW outcome \in Kinds \cup {"returned"}, TaskEnds(t, outcome)
  PROVE  Inv'
<1> USE DEF Inv
<1>1. PICK g \in Dispatches : g = t[1] /\ t \in TasksOf(g)
  BY TaskShape
<1> DEFINE queue == {u \in TasksOf(g) : task[u] = "queued"}
<1>2. /\ task[t] = "running"
      /\ outcome \in Own \cup {"returned"} \/ reason[g] # "none"
      /\ task' = [u \in Tasks |-> IF u = t THEN outcome
                                  ELSE IF u \in queue /\ \A v \in queue : u[2] <= v[2] THEN "running"
                                  ELSE task[u]]
      /\ rejected' = [rejected EXCEPT ![g] = IF @ = "none" /\ outcome # "returned"
                                             THEN outcome ELSE @]
      /\ UNCHANGED <<node, block, inst, failure, blockReason, runSignal, reason, outstanding>>
  BY <1>1 DEF TaskEnds
<1>3. \A h \in Dispatches : \A u \in TasksOf(h) : u \in Tasks /\ u[1] = h
  BY DEF TasksOf
<1>4. t \notin queue /\ queue \subseteq TasksOf(g)
  BY <1>2
<1>5. \A u \in Tasks : \/ u = t /\ task'[u] = outcome
                       \/ u # t /\ task'[u] = task[u]
                       \/ u # t /\ u \in queue /\ task'[u] = "running"
  BY <1>2
<1>6. \A u \in queue : task[u] = "queued" /\ u[1] = g
  BY <1>3
<1> HIDE DEF queue
<1>7. /\ task' \in [Tasks -> Kinds \cup {"none", "queued", "running", "returned"}]
      /\ rejected' \in [Dispatches -> Kinds \cup {"none"}]
      /\ \A h \in Dispatches : rejected'[h] # "none" =>
           rejected[h] # "none" \/ (h = g /\ outcome # "returned")
  BY <1>2 DEF TypeOK
<1>8. TypeOK'
  BY <1>2, <1>7 DEF TypeOK
<1>9. InstExact'
  BY <1>2 DEF InstExact
<1>10. \A u \in Tasks : Live(u)' => Live(u)
  BY <1>2, <1>5, <1>6 DEF Live, Kinds
<1>11. \A u \in Tasks : task'[u] = "queued" => task[u] = "queued"
  BY <1>5 DEF Kinds
<1>12. \A u \in Tasks : task[u] \in Kinds \cup {"returned", "none"} => task'[u] = task[u]
  BY <1>2, <1>5, <1>6 DEF Kinds
<1>13. \A h \in Dispatches : /\ Failed(h, Own) => Failed(h, Own)'
                             /\ Returned(h) => Returned(h)'
  BY <1>3, <1>12 DEF Failed, Returned, TasksOf, Own, Kinds
<1>14. GroupExact'
  <2> SUFFICES ASSUME NEW h \in Dispatches
               PROVE  /\ inst'[h] \in Unstarted =>
                           /\ h \notin outstanding' /\ reason'[h] = "none" /\ rejected'[h] = "none"
                           /\ \A u \in TasksOf(h) : task'[u] = "none"
                      /\ inst'[h] = "started" => h \in outstanding'
                      /\ inst'[h] = "done" =>
                           \/ h \in outstanding'
                           \/ \E i \in Instructions : /\ Op[i] = "sync" /\ Group[i] = h
                                                      /\ \/ inst'[i] \in {"syncing", "failed"}
                                                         \/ inst'[i] = "done" /\ Returned(h)'
                      /\ rejected'[h] # "none" => reason'[h] # "none" \/ Failed(h, Own)'
                      /\ reason'[h] # "none" =>
                           runSignal' \/ failure' # "none" \/ node' # "running" \/ Failed(h, Own)'
                      /\ reason'[h] # "none" => \A u \in TasksOf(h) : task'[u] # "queued"
    BY DEF GroupExact, TasksOf
  <2>1. inst[g] \notin Unstarted
    BY <1>1, <1>2 DEF GroupExact
  <2>2. inst'[h] \in Unstarted =>
          /\ h \notin outstanding' /\ reason'[h] = "none" /\ rejected'[h] = "none"
          /\ \A u \in TasksOf(h) : task'[u] = "none"
    <3> SUFFICES ASSUME inst[h] \in Unstarted
                 PROVE  /\ h \notin outstanding' /\ reason'[h] = "none" /\ rejected'[h] = "none"
                        /\ \A u \in TasksOf(h) : task'[u] = "none"
      BY <1>2
    <3>1. /\ h # g /\ h \notin outstanding /\ reason[h] = "none" /\ rejected[h] = "none"
          /\ \A u \in TasksOf(h) : task[u] = "none"
      BY <2>1 DEF GroupExact
    <3> QED
      BY <1>2, <1>3, <1>7, <1>12, <3>1
  <2>3. inst'[h] = "done" =>
          \/ h \in outstanding'
          \/ \E i \in Instructions : /\ Op[i] = "sync" /\ Group[i] = h
                                     /\ \/ inst'[i] \in {"syncing", "failed"}
                                        \/ inst'[i] = "done" /\ Returned(h)'
    BY <1>2, <1>13 DEF GroupExact
  <2>4. rejected'[h] # "none" => reason'[h] # "none" \/ Failed(h, Own)'
    <3>1. CASE rejected[h] # "none"
      BY <1>2, <1>13, <3>1 DEF GroupExact
    <3>2. CASE h = g /\ outcome # "returned" /\ reason[g] = "none"
      <4>1. task'[t] \in Own
        BY <1>2, <1>5, <3>2
      <4> QED
        BY <1>1, <3>2, <4>1 DEF Failed, TasksOf
    <3> QED
      BY <1>2, <1>7, <3>1, <3>2
  <2>5. reason'[h] # "none" => \A u \in TasksOf(h) : task'[u] # "queued"
    BY <1>2, <1>3, <1>11 DEF GroupExact
  <2> QED
    BY <1>2, <1>13, <2>2, <2>3, <2>4, <2>5 DEF GroupExact
<1>15. TaskExact'
  <2> SUFFICES ASSUME NEW u \in Tasks
               PROVE  /\ Live(u)' => Held(u[1])'
                      /\ task'[u] = "cancelled" => reason'[u[1]] # "none"
    BY DEF TaskExact
  <2>1. Live(u)' => Held(u[1])'
    BY <1>2, <1>10 DEF TaskExact, Held
  <2>2. ASSUME task'[u] = "cancelled" PROVE reason'[u[1]] # "none"
    <3>1. CASE u = t
      BY <1>1, <1>2, <1>5, <2>2, <3>1 DEF Own
    <3>2. CASE u # t
      BY <1>2, <1>5, <2>2, <3>2 DEF TaskExact
    <3> QED
      BY <3>1, <3>2
  <2> QED
    BY <2>1, <2>2
<1>16. WorkersKept'
  <2> SUFFICES ASSUME NEW h \in Dispatches
               PROVE  /\ Cardinality(RunningOf(h)') <= maxDispatchWorkers
                      /\ (\E u \in TasksOf(h) : task'[u] = "queued") =>
                           Cardinality(RunningOf(h)') = maxDispatchWorkers
    BY DEF WorkersKept, TasksOf
  <2>1. RunningOf(h)' = {u \in TasksOf(h) : task'[u] = "running"}
    BY DEF RunningOf, TasksOf
  <2>2. CASE h # g
    <3>1. \A u \in TasksOf(h) : task'[u] = task[u]
      BY <1>1, <1>3, <1>5, <1>6, <2>2
    <3>2. RunningOf(h)' = RunningOf(h)
      BY <2>1, <3>1 DEF RunningOf
    <3> QED
      BY <3>1, <3>2 DEF WorkersKept
  <2>3. CASE h = g
    <3>1. IsFiniteSet(RunningOf(g)) /\ t \in RunningOf(g)
      BY <1>1, <1>2, TasksFinite, FS_Subset DEF RunningOf
    <3>2. /\ IsFiniteSet(RunningOf(g) \ {t})
          /\ Cardinality(RunningOf(g) \ {t}) = Cardinality(RunningOf(g)) - 1
          /\ Cardinality(RunningOf(g)) \in Nat
      BY <3>1, FS_RemoveElement, FS_CardinalityType
    <3>3. Cardinality(RunningOf(g)) <= maxDispatchWorkers /\ maxDispatchWorkers \in Nat
      BY WorkersAssumption DEF WorkersKept
    <3>4. CASE queue = {}
      <4>1. \A u \in TasksOf(g) : task'[u] # "queued"
        BY <1>3, <1>11, <3>4 DEF queue
      <4>2. RunningOf(g)' = RunningOf(g) \ {t}
        BY <1>3, <1>5, <2>1, <2>3, <3>4 DEF RunningOf, Kinds
      <4> QED
        BY <2>3, <3>2, <3>3, <4>1, <4>2
    <3>5. CASE queue # {}
      <4> DEFINE places == {u[2] : u \in queue}
      <4>1. \A u \in queue : u[2] \in Nat
        BY <1>3, <1>4, TaskShape
      <4>2. PICK n \in places : \A m \in places : n <= m
        <5>1. places \in SUBSET Nat /\ places # {}
          BY <3>5, <4>1
        <5> HIDE DEF places
        <5> QED
          BY <5>1, FirstPosition
      <4>3. PICK first \in queue : \A v \in queue : first[2] <= v[2]
        BY <4>2
      <4>4. \A u \in queue : (\A v \in queue : u[2] <= v[2]) <=> u = first
        <5> SUFFICES ASSUME NEW u \in queue, \A v \in queue : u[2] <= v[2] PROVE u = first
          BY <4>3
        <5>1. u[2] <= first[2] /\ first[2] <= u[2]
          BY <4>3
        <5>2. u[2] = first[2]
          BY <4>1, <5>1
        <5>3. u = <<u[1], u[2]>> /\ first = <<first[1], first[2]>>
          BY <1>3, <1>4, TaskShape
        <5> QED
          BY <1>6, <5>2, <5>3
      <4>5. first # t /\ first \in TasksOf(g) /\ first \notin RunningOf(g)
        BY <1>4, <1>6 DEF RunningOf
      <4>6. RunningOf(g)' = (RunningOf(g) \ {t}) \cup {first}
        <5>1. \A u \in TasksOf(g) : task'[u] = IF u = t THEN outcome
                                               ELSE IF u = first THEN "running"
                                               ELSE task[u]
          BY <1>2, <1>3, <4>4
        <5> QED
          BY <2>1, <2>3, <4>5, <5>1 DEF RunningOf, Kinds
      <4>7. Cardinality(RunningOf(g)') = Cardinality(RunningOf(g))
        <5> DEFINE others == RunningOf(g) \ {t}
        <5>1. first \notin others /\ IsFiniteSet(others) /\ RunningOf(g)' = others \cup {first}
              /\ Cardinality(others) = Cardinality(RunningOf(g)) - 1
          BY <3>2, <4>5, <4>6
        <5> HIDE DEF others
        <5>2. Cardinality(others \cup {first}) = Cardinality(others) + 1
          BY <5>1, FS_AddElement
        <5> QED
          BY <3>2, <5>1, <5>2
      <4>8. Cardinality(RunningOf(g)) = maxDispatchWorkers
        BY <3>5, <1>4, <1>6 DEF WorkersKept
      <4> QED
        BY <2>3, <3>3, <4>7, <4>8
    <3> QED
      BY <3>4, <3>5
  <2> QED
    BY <2>2, <2>3
<1>17. BlockExact'
  <2>1. node # "failed"
    <3> SUFFICES ASSUME node = "failed" PROVE FALSE
      OBVIOUS
    <3>1. Held(g)
      BY <1>1, <1>2 DEF TaskExact, Live
    <3>2. g \in outstanding
      BY <3>1 DEF Held, InstExact, Active
    <3>3. task[t] \in Kinds \cup {"returned"}
      BY <1>1, <3>2 DEF BlockExact, Settled
    <3> QED
      BY <1>2, <3>3 DEF Kinds
  <2>2. blockReason' # "none" =>
          \A u \in Tasks : Block[u[1]] = block' /\ Live(u)' => reason'[u[1]] # "none"
    BY <1>2, <1>10 DEF BlockExact
  <2> QED
    BY <1>2, <2>1, <2>2 DEF BlockExact
<1> QED
  BY <1>8, <1>9, <1>14, <1>15, <1>16, <1>17 DEF Inv

-----------------------------------------------------------------------------
(* The invariant holds when the node starts.                                *)
LEMMA InitInv == Init => Inv
<1> SUFFICES ASSUME Init PROVE Inv
  OBVIOUS
<1>1. /\ node = "running" /\ block = 1 /\ failure = "none" /\ blockReason = "none"
      /\ runSignal = FALSE /\ outstanding = {}
      /\ \A t \in Tasks : task[t] = "none"
      /\ \A g \in Dispatches : rejected[g] = "none" /\ reason[g] = "none"
  BY DEF Init
<1>2. ASSUME NEW i \in Instructions
      PROVE  \/ inst[i] = "idle"
             \/ inst[i] = "launched" /\ Block[i] = 1 /\ Deps[i] = {}
  BY DEF Init, Launched, InBlock
<1>3. 1 \in 1..LastBlock
  BY ProgramAssumption
<1>4. TypeOK
  <2>1. inst \in [Instructions -> Active \cup {"idle", "done", "failed"}]
    BY DEF Init, Launched, Active
  <2> QED
    BY <1>1, <1>3, <2>1 DEF Init, TypeOK
<1>5. InstExact
  BY <1>1, <1>2, ProgramAssumption DEF InstExact, Active
<1>6. \A g \in Dispatches : \A t \in TasksOf(g) : task[t] = "none"
  BY <1>1 DEF TasksOf
<1>7. GroupExact
  BY <1>1, <1>2, <1>6 DEF GroupExact, Unstarted, Dispatches
<1>8. TaskExact
  BY <1>1 DEF TaskExact, Live
<1>9. WorkersKept
  <2> SUFFICES ASSUME NEW g \in Dispatches
               PROVE  /\ Cardinality(RunningOf(g)) <= maxDispatchWorkers
                      /\ ~ \E t \in TasksOf(g) : task[t] = "queued"
    BY DEF WorkersKept
  <2>1. RunningOf(g) = {} /\ ~ \E t \in TasksOf(g) : task[t] = "queued"
    BY <1>6 DEF RunningOf
  <2>2. Cardinality({}) = 0
    BY FS_EmptySet
  <2> QED
    BY <2>1, <2>2, WorkersAssumption
<1>10. BlockExact
  BY <1>1 DEF BlockExact
<1> QED
  BY <1>4, <1>5, <1>7, <1>8, <1>9, <1>10 DEF Inv

(* Every step keeps it.                                                     *)
LEMMA NextInv == Inv /\ [Next]_vars => Inv'
<1> SUFFICES ASSUME Inv, [Next]_vars PROVE Inv'
  OBVIOUS
<1>1. ASSUME NEW i \in Instructions, Refuse(i) PROVE Inv'
  <2>1. inst[i] \in Active /\ inst[i] # "syncing" /\ UNCHANGED outstanding
    BY <1>1 DEF Refuse, Active
  <2>2. \E kind \in {"aborted", "error"} : Fail(i, kind)
    BY <1>1 DEF Refuse
  <2> QED
    BY <2>1, <2>2, FailKeeps DEF Kinds
<1>2. ASSUME NEW i \in Instructions, WorkEnds(i) PROVE Inv'
  <2>1. inst[i] = "working" /\ inst[i] \in Active /\ UNCHANGED outstanding
    BY <1>2 DEF WorkEnds, Active
  <2>2. CASE Complete(i) /\ UNCHANGED <<task, rejected, reason>>
    BY <2>1, <2>2, CompleteKeeps
  <2>3. CASE \E kind \in Own : Fail(i, kind)
    BY <2>1, <2>3, FailKeeps DEF Own, Kinds
  <2>4. CASE blockReason # "none" /\ Fail(i, "cancelled")
    <3>1. failure = "none" => runSignal
      BY <2>4 DEF Inv, BlockExact
    <3> QED
      BY <2>1, <2>4, <3>1, FailKeeps DEF Kinds
  <2> QED
    BY <1>2, <2>2, <2>3, <2>4 DEF WorkEnds
<1>3. ASSUME NEW g \in Dispatches, DispatchEnds(g) PROVE Inv'
  <2>1. g \in Instructions /\ inst[g] = "started" /\ inst[g] \in Active /\ UNCHANGED outstanding
    BY <1>3 DEF DispatchEnds, Active, Dispatches
  <2>2. CASE Complete(g) /\ UNCHANGED <<task, rejected, reason>>
    BY <2>1, <2>2, CompleteKeeps
  <2>3. CASE Fail(g, "error")
    BY <2>1, <2>3, FailKeeps DEF Kinds
  <2> QED
    BY <1>3, <2>2, <2>3 DEF DispatchEnds
<1>4. CASE BlockFails
  <2>1. NodeFails(failure) /\ failure \in Kinds
    BY <1>4 DEF BlockFails, Inv, TypeOK
  <2>2. \A i \in Instructions : inst[i] \notin Active
    BY <1>4 DEF BlockFails, Inv, InstExact, InBlock
  <2> QED
    BY <2>1, <2>2, NodeFailsKeeps
<1>5. CASE FailTerminator
  BY <1>5, DoneBlock, NodeFailsKeeps DEF FailTerminator, Kinds
<1>6. CASE UNCHANGED vars
  BY <1>6 DEF vars, Inv, TypeOK, InstExact, GroupExact, TaskExact, WorkersKept, BlockExact,
              Held, Returned, RunningOf, Live, Settled, Failed, TasksOf
<1> QED
  BY <1>1, <1>2, <1>3, <1>4, <1>5, <1>6, WorkKeeps, SyncKeeps, SyncEndsKeeps, StartKeeps,
     CatchKeeps, TaskEndsKeeps, JumpKeeps, RetKeeps, NodeFailedKeeps, AbortRunKeeps DEF Next

-----------------------------------------------------------------------------
(* The variables have their types.                                          *)
THEOREM TypeCorrect == Spec => []TypeOK
<1>1. Inv => TypeOK
  BY DEF Inv
<1> QED
  BY <1>1, InitInv, NextInv, PTL DEF Spec

(* Structured concurrency: when executeNode has returned or thrown, nothing *)
(* that it started still runs, however many groups and workers there are.   *)
THEOREM NothingIsLeft == Spec => []NothingOutlivesNode
<1>1. Inv => NothingOutlivesNode
  <2> SUFFICES ASSUME Inv, node \in {"returned", "failed"}
               PROVE  /\ \A i \in Instructions : inst[i] \notin Active
                      /\ \A t \in Tasks : ~Live(t)
    BY DEF NothingOutlivesNode, Inv
  <2>1. \A i \in Instructions : inst[i] \notin Active
    BY DEF Inv, InstExact
  <2>2. ASSUME NEW t \in Tasks, Live(t) PROVE FALSE
    <3>1. t \in TasksOf(t[1])
      BY TaskShape
    <3>2. t[1] \in outstanding
      BY <2>1, <2>2 DEF Inv, TaskExact, Held, Active
    <3>3. Settled(t[1])
      BY <3>2 DEF Inv, BlockExact
    <3> QED
      BY <2>2, <3>1, <3>3 DEF Settled, Live, Kinds
  <2> QED
    BY <2>1, <2>2
<1> QED
  BY <1>1, InitInv, NextInv, PTL DEF Spec

(* A node returns only over groups that were synced and whose tasks all     *)
(* returned; and a failure that only follows from a cancellation surfaces   *)
(* only if the run was aborted.                                             *)
THEOREM OutcomeKept == Spec => []OutcomeIsTheTasks
<1>1. Inv => OutcomeIsTheTasks
  <2> SUFFICES ASSUME Inv PROVE OutcomeIsTheTasks
    OBVIOUS
  <2>1. ASSUME node = "returned", NEW g \in Dispatches, inst[g] = "done"
        PROVE  /\ \E i \in Instructions : Op[i] = "sync" /\ Group[i] = g /\ inst[i] = "done"
               /\ \A t \in TasksOf(g) : task[t] = "returned"
    <3>1. failure = "none" /\ outstanding = {}
      BY <2>1 DEF Inv, BlockExact
    <3>2. PICK i \in Instructions : /\ Op[i] = "sync" /\ Group[i] = g
                                    /\ \/ inst[i] \in {"syncing", "failed"}
                                       \/ inst[i] = "done" /\ Returned(g)
      BY <2>1, <3>1 DEF Inv, GroupExact
    <3>3. inst[i] # "syncing" /\ inst[i] # "failed"
      BY <2>1, <3>1 DEF Inv, InstExact, Active
    <3> QED
      BY <3>2, <3>3 DEF Returned
  <2> QED
    BY <2>1 DEF OutcomeIsTheTasks, Inv, BlockExact
<1> QED
  BY <1>1, InitInv, NextInv, PTL DEF Spec

(* When the controller of a block is aborted, so is every live group that   *)
(* the block dispatched.                                                    *)
THEOREM AbortsReach == Spec => []BlockAbortReachesGroups
<1>1. Inv => BlockAbortReachesGroups
  BY DEF BlockAbortReachesGroups, Inv, BlockExact, TasksOf
<1> QED
  BY <1>1, InitInv, NextInv, PTL DEF Spec

-----------------------------------------------------------------------------
(* A failed block launches nothing more.                                    *)
LEMMA NothingLaunched ==
  ASSUME Inv, Next, failure # "none", NEW i \in Instructions, inst[i] = "idle"
  PROVE  inst'[i] = "idle"
<1> USE DEF Inv, TypeOK
<1>1. ASSUME NEW j \in Instructions, NEW kind, Fail(j, kind), inst[j] # "idle" PROVE inst'[i] = "idle"
  BY <1>1 DEF Fail
<1>2. ASSUME NEW j \in Instructions, Complete(j), inst[j] # "idle" PROVE inst'[i] = "idle"
  BY <1>2 DEF Complete
<1>3. ASSUME NEW j \in Instructions,
             Refuse(j) \/ Work(j) \/ WorkEnds(j) \/ Sync(j) \/ SyncEnds(j)
      PROVE  inst'[i] = "idle"
  BY <1>1, <1>2, <1>3 DEF Refuse, Work, WorkEnds, Sync, SyncEnds
<1>4. ASSUME NEW g \in Dispatches, StartTaskGroup(g) \/ DispatchEnds(g) \/ CatchTask(g)
      PROVE  inst'[i] = "idle"
  BY <1>1, <1>2, <1>4 DEF StartTaskGroup, DispatchEnds, CatchTask, Dispatches
<1>5. ASSUME NEW t \in Tasks, NEW outcome, TaskEnds(t, outcome) PROVE inst'[i] = "idle"
  BY <1>5 DEF TaskEnds
<1>6. CASE BlockFails \/ Jump \/ Ret \/ FailTerminator \/ NodeFailed \/ AbortRun
  BY <1>6 DEF BlockFails, Jump, Ret, FailTerminator, NodeFailed, AbortRun, NodeFails, BlockDone
<1> QED
  BY <1>3, <1>4, <1>5, <1>6 DEF Next

(* An aborted group starts no task.                                         *)
LEMMA NothingStarted ==
  ASSUME Inv, Next, NEW t \in Tasks, reason[t[1]] # "none", task[t] # "running"
  PROVE  task'[t] # "running"
<1> USE DEF Inv
<1>1. t[1] \in Dispatches /\ t \in TasksOf(t[1]) /\ task[t] # "queued"
  BY TaskShape DEF GroupExact
<1>2. CASE UNCHANGED task
  BY <1>2
<1>3. ASSUME NEW groups, NEW kind, AbortGroups(groups, kind) PROVE task'[t] # "running"
  BY <1>1, <1>3 DEF AbortGroups, Dropped
<1>4. ASSUME NEW j, NEW kind, Fail(j, kind) PROVE task'[t] # "running"
  BY <1>2, <1>3, <1>4 DEF Fail
<1>5. ASSUME NEW j \in Instructions,
             Refuse(j) \/ Work(j) \/ WorkEnds(j) \/ Sync(j) \/ SyncEnds(j)
      PROVE  task'[t] # "running"
  BY <1>2, <1>4, <1>5 DEF Refuse, Work, WorkEnds, Sync, SyncEnds
<1>6. ASSUME NEW g \in Dispatches, StartTaskGroup(g) PROVE task'[t] # "running"
  <2>1. t[1] # g
    BY <1>6 DEF StartTaskGroup, GroupExact, Unstarted
  <2> QED
    BY <1>6, <2>1 DEF StartTaskGroup
<1>7. ASSUME NEW g \in Dispatches, DispatchEnds(g) \/ CatchTask(g) PROVE task'[t] # "running"
  BY <1>2, <1>3, <1>4, <1>7 DEF DispatchEnds, CatchTask
<1>8. ASSUME NEW u \in Tasks, NEW outcome \in Kinds \cup {"returned"}, TaskEnds(u, outcome)
      PROVE  task'[t] # "running"
  BY <1>1, <1>8 DEF TaskEnds, Kinds
<1>9. CASE BlockFails \/ Jump \/ Ret \/ FailTerminator \/ NodeFailed \/ AbortRun
  BY <1>2, <1>3, <1>9 DEF BlockFails, Jump, Ret, FailTerminator, NodeFailed, AbortRun, NodeFails
<1> QED
  BY <1>5, <1>6, <1>7, <1>8, <1>9 DEF Next

(* Each group keeps to its workers and queues a task only when all of them  *)
(* are at work; a failed block launches nothing, and an aborted group       *)
(* starts no task.                                                          *)
THEOREM WorkersAreExact == Spec => WorkersExact
<1> DEFINE Step ==
      /\ \A g \in Dispatches :
           LET running == Cardinality({t \in TasksOf(g) : task[t] = "running"})
           IN  /\ running <= maxDispatchWorkers
               /\ (\E t \in TasksOf(g) : task[t] = "queued") => running = maxDispatchWorkers
      /\ failure # "none" => \A i \in Instructions : inst[i] = "idle" => inst'[i] = "idle"
      /\ \A t \in Tasks : reason[t[1]] # "none" /\ task[t] # "running" => task'[t] # "running"
<1>1. Inv /\ [Next]_vars => [Step]_vars
  <2> SUFFICES ASSUME Inv, Next PROVE Step
    OBVIOUS
  <2>1. WorkersKept
    BY DEF Inv
  <2> QED
    BY <2>1, NothingLaunched, NothingStarted DEF WorkersKept, RunningOf
<1> QED
  BY <1>1, InitInv, NextInv, PTL DEF Spec, WorkersExact
=============================================================================
