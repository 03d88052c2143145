----------------------------- MODULE ExternalLease -----------------------------
(***************************************************************************)
(* The permits that bound how many Agent executors run at once: class      *)
(* Semaphore of src/src/concurrency.ts and the SuspendableSemaphoreLease   *)
(* that src/src/vm.ts wraps around one permit of it.                       *)
(*                                                                         *)
(* An executor runs under a lease.  While one of its host calls is in the  *)
(* VM (a control call, an approval, a nested effect) the lease is          *)
(* suspended: it gives its permit back, so that a child activation can     *)
(* run, and takes one again when its last call leaves.  The transitions of *)
(* one lease form a chain of promises: each runs after the one before it   *)
(* has settled, and a re-acquisition settles when a permit is granted.     *)
(***************************************************************************)
EXTENDS Naturals, SequencesExt

CONSTANTS Agents,    \* agent activations
          Nobody,    \* not an agent
          Parent,    \* the activation whose host call runs a, or Nobody
          Limit,     \* Semaphore.limit: VmPolicy.maxConcurrency
          MaxCalls   \* MaxCalls[a] bounds the host calls of activation a

ASSUME AgentsFinite == IsFiniteSet(Agents) /\ Nobody \notin Agents
ASSUME ParentAssumption == Parent \in [Agents -> Agents \cup {Nobody}]
ASSUME LimitAssumption == Limit \in Nat \ {0} /\ MaxCalls \in [Agents -> Nat]

VARIABLES active,      \* Semaphore.active
          waiters,     \* Semaphore.waiters: agents, oldest first
          lease,       \* progress of runAgent: none, opening, open, closing, over
          holding,     \* agents whose lease has its release function
          suspended,   \* SuspendableSemaphoreLease.suspended
          closed,      \* agents whose lease has run close()
          chain,       \* transitions of each lease that have not settled
          inside,      \* host calls whose operation runs in the VM
          calls,       \* host calls made so far
          aborted      \* agents whose signal has fired

vars == <<active, waiters, lease, holding, suspended, closed, chain, inside, calls, aborted>>

Transition == {"enter", "leave", "regain", "close"}

-----------------------------------------------------------------------------
Init == /\ active = 0
        /\ waiters = <<>>
        /\ lease = [a \in Agents |-> "none"]
        /\ holding = {}
        /\ suspended = [a \in Agents |-> 0]
        /\ closed = {}
        /\ chain = [a \in Agents |-> <<>>]
        /\ inside = [a \in Agents |-> 0]
        /\ calls = [a \in Agents |-> 0]
        /\ aborted = {}

\* The transition of a that may run now.
Next1(a, kind) == chain[a] # <<>> /\ Head(chain[a]) = kind

Children(p) == {c \in Agents : Parent[c] = p /\ lease[c] \notin {"none", "over"}}

\* A host call of Parent[a] that no other child occupies can run a.
CanStart(a) == Parent[a] # Nobody =>
                 inside[Parent[a]] > Cardinality(Children(Parent[a]))

\* Semaphore.acquire() finds a permit.
Take(a) == /\ active < Limit
           /\ active' = active + 1
           /\ holding' = holding \cup {a}
           /\ UNCHANGED waiters

\* Semaphore.acquire() has to wait.
Wait(a) == /\ active >= Limit
           /\ waiters' = Append(waiters, a)
           /\ UNCHANGED <<active, holding>>

\* a's release function, if it has one, and the drain: the first waiter, if
\* any, has the permit from here on.
Granted(a) == IF a \in holding /\ waiters # <<>> THEN {Head(waiters)} ELSE {}

Release(a) ==
  /\ holding' = (holding \ {a}) \cup Granted(a)
  /\ active' = IF a \in holding /\ waiters = <<>> THEN active - 1 ELSE active
  /\ waiters' = IF a \in holding /\ waiters # <<>> THEN Tail(waiters) ELSE waiters
  /\ lease' = [b \in Agents |-> IF b \in Granted(a) /\ lease[b] = "opening"
                                THEN "open" ELSE lease[b]]
  /\ chain' = [b \in Agents |->
       IF b = a \/ (b \in Granted(a) /\ Next1(b, "regain")) THEN Tail(chain[b]) ELSE chain[b]]

-----------------------------------------------------------------------------
\* SuspendableSemaphoreLease.open() in runAgent.
Open(a) == /\ lease[a] = "none" /\ CanStart(a)
           /\ \/ /\ a \in aborted
                 /\ lease' = [lease EXCEPT ![a] = "over"]
                 /\ UNCHANGED <<active, waiters, holding>>
              \/ /\ a \notin aborted /\ Take(a)
                 /\ lease' = [lease EXCEPT ![a] = "open"]
              \/ /\ a \notin aborted /\ Wait(a)
                 /\ lease' = [lease EXCEPT ![a] = "opening"]
           /\ UNCHANGED <<suspended, closed, chain, inside, calls, aborted>>

\* The executor, or a tool that outlives it, makes a host call: suspend() queues
\* its first transition.
Call(a) == /\ lease[a] \in {"open", "closing"} /\ calls[a] < MaxCalls[a]
           /\ calls' = [calls EXCEPT ![a] = @ + 1]
           /\ chain' = [chain EXCEPT ![a] = Append(@, "enter")]
           /\ UNCHANGED <<active, waiters, lease, holding, suspended, closed, inside, aborted>>

\* The first transition of suspend(): it gives up the permit of an executor
\* that has no other call in the VM, and the operation starts.
Enter(a) ==
  /\ Next1(a, "enter") /\ a \notin closed
  /\ suspended' = [suspended EXCEPT ![a] = @ + 1]
  /\ inside' = [inside EXCEPT ![a] = @ + 1]
  /\ IF suspended[a] = 0 THEN Release(a)
     ELSE chain' = [chain EXCEPT ![a] = Tail(@)] /\ UNCHANGED <<active, waiters, lease, holding>>
  /\ UNCHANGED <<closed, calls, aborted>>

\* A call after close() is refused with RUN_CLOSED.
EnterClosed(a) ==
  /\ Next1(a, "enter") /\ a \in closed
  /\ chain' = [chain EXCEPT ![a] = Tail(@)]
  /\ UNCHANGED <<active, waiters, lease, holding, suspended, closed, inside, calls, aborted>>

\* The operation of a call that is not busy with a child settles.
Return(a) ==
  /\ inside[a] > Cardinality(Children(a))
  /\ inside' = [inside EXCEPT ![a] = @ - 1]
  /\ chain' = [chain EXCEPT ![a] = Append(@, "leave")]
  /\ UNCHANGED <<active, waiters, lease, holding, suspended, closed, calls, aborted>>

\* Defect: the count is compared before it is decremented, with 0.
Regains_OffByOne(a) == suspended[a] = 0 /\ a \notin closed /\ a \notin aborted

\* Defect: the first call to leave takes the permit back, whatever the others do.
Regains_First(a) == a \notin holding /\ a \notin closed /\ a \notin aborted

\* The last call to leave an open lease takes the permit back.
Regains(a) == suspended[a] = 1 /\ a \notin closed /\ a \notin aborted

\* The last transition of suspend(): the last call to leave an open lease
\* acquires a permit, and its transition lasts until it has one.
Leave(a) ==
  /\ Next1(a, "leave")
  /\ suspended' = [suspended EXCEPT ![a] = @ - 1]
  /\ \/ /\ ~Regains(a)
        /\ chain' = [chain EXCEPT ![a] = Tail(@)]
        /\ UNCHANGED <<active, waiters, holding>>
     \/ Regains(a) /\ Take(a) /\ chain' = [chain EXCEPT ![a] = Tail(@)]
     \/ Regains(a) /\ Wait(a) /\ chain' = [chain EXCEPT ![a][1] = "regain"]
  /\ UNCHANGED <<lease, closed, inside, calls, aborted>>

\* execute() returns or throws, whatever its calls are doing: close() queues.
ExecutorEnds(a) ==
  /\ lease[a] = "open"
  /\ lease' = [lease EXCEPT ![a] = "closing"]
  /\ chain' = [chain EXCEPT ![a] = Append(@, "close")]
  /\ UNCHANGED <<active, waiters, holding, suspended, closed, inside, calls, aborted>>

\* The transition of close(): the awaiting runAgent goes on.
Close(a) ==
  /\ Next1(a, "close")
  /\ closed' = closed \cup {a}
  /\ Release(a)
  /\ UNCHANGED <<suspended, inside, calls, aborted>>

\* runAgent is past its finally block.
Settle(a) ==
  /\ lease[a] = "closing" /\ a \in closed
  /\ lease' = [lease EXCEPT ![a] = "over"]
  /\ UNCHANGED <<active, waiters, holding, suspended, closed, chain, inside, calls, aborted>>

\* a's signal fires: onAbort takes a out of the queue and the acquisition it
\* waits for fails, which ends open(), or the transition that re-acquires.
Abort(a) ==
  /\ a \notin aborted
  /\ aborted' = aborted \cup {a}
  /\ waiters' = RemoveFirst(waiters, a)
  /\ lease' = [lease EXCEPT ![a] = IF @ = "opening" THEN "over" ELSE @]
  /\ chain' = [chain EXCEPT ![a] = IF Next1(a, "regain") THEN Tail(@) ELSE @]
  /\ UNCHANGED <<active, holding, suspended, closed, inside, calls>>

Next == \E a \in Agents :
          \/ Open(a) \/ Call(a) \/ Enter(a) \/ EnterClosed(a) \/ Return(a)
          \/ Leave(a) \/ ExecutorEnds(a) \/ Close(a) \/ Settle(a) \/ Abort(a)

Spec == Init /\ [][Next]_vars

\* Promise continuations run, and the operation of a call ends when no child
\* occupies it.
Progress(a) == \/ Open(a) \/ Enter(a) \/ EnterClosed(a) \/ Return(a)
               \/ Leave(a) \/ Close(a) \/ Settle(a)

\* execute() awaits its host calls: it is sure to end only when all of them have
\* left the VM and have the permit back.  With a call inside, or one whose
\* transition still waits, nothing makes it end.
ExecutorDone(a) == inside[a] = 0 /\ chain[a] = <<>> /\ ExecutorEnds(a)

FairSpec == Spec /\ \A a \in Agents : WF_vars(Progress(a)) /\ WF_vars(ExecutorDone(a))

-----------------------------------------------------------------------------
TypeOK == /\ active \in Nat
          /\ waiters \in Seq(Agents)
          /\ lease \in [Agents -> {"none", "opening", "open", "closing", "over"}]
          /\ holding \in SUBSET Agents
          /\ suspended \in [Agents -> Nat]
          /\ closed \in SUBSET Agents
          /\ chain \in [Agents -> Seq(Transition)]
          /\ inside \in [Agents -> Nat]
          /\ calls \in [Agents -> Nat]
          /\ aborted \in SUBSET Agents
          /\ \A a \in Agents : calls[a] <= MaxCalls[a]

Running(a) == lease[a] \in {"open", "closing"}

(* Permits are neither leaked nor handed out twice: Semaphore.active counts  *)
(* the leases that own one, at most Limit do, and nobody waits while a       *)
(* permit is free (no lost wakeup).  An executor computes only under one:    *)
(* when all its calls have left the VM and its lease is open it owns one,    *)
(* unless it was aborted.  What is given back stays given back: a call       *)
(* inside the VM does not block its own children, and a call that leaves     *)
(* after close() takes nothing.                                              *)
PermitsExact ==
  /\ TypeOK
  /\ active = Cardinality(holding) /\ active <= Limit
  /\ waiters # <<>> => active = Limit
  /\ \A a \in Agents :
       /\ lease[a] = "open" /\ chain[a] = <<>> /\ inside[a] = 0 /\ a \notin aborted
          => a \in holding
       /\ suspended[a] > 0 => a \notin holding
       /\ a \in closed => a \notin holding /\ \A i \in DOMAIN waiters : waiters[i] # a

(* Every activation ends, with as little as one permit for a parent and the  *)
(* children its calls run: a parent that awaits a child never holds the      *)
(* permit the child waits for, and gets one again when the child is done.    *)
(* No executor is assumed to end while a call of its own is under way.       *)
EveryLeaseEnds == \A a \in Agents : Running(a) \/ lease[a] = "opening" ~> lease[a] = "over"
=============================================================================
