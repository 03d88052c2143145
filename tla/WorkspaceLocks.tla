----------------------------- MODULE WorkspaceLocks -----------------------------
(***************************************************************************)
(* The lock on workspace directories: class WorkspaceLocks of              *)
(* src/src/concurrency.ts.                                                 *)
(*                                                                         *)
(* Unlike ResourceLocks it grants a whole request at once: a lease is made *)
(* when it conflicts with no active lease and nobody waits; otherwise the  *)
(* caller joins one FIFO queue that only ever serves its head.  Paths      *)
(* conflict when one contains the other and one of the two is written.     *)
(*                                                                         *)
(* A signal that fires runs the listeners of its waiters one by one, and   *)
(* nothing else in between; each of them drains the queue, in which there  *)
(* still are waiters whose own listeners have to come.                     *)
(***************************************************************************)
EXTENDS Naturals, Sequences, FiniteSets, SequencesExt

CONSTANTS Tasks,         \* concurrent callers of use()
          Signals,       \* the AbortSignals they pass
          SignalOf,      \* SignalOf[t]; tasks of one block share a signal
          Paths,         \* workspace directories
          Overlap,       \* the pairs of paths of which one contains the other
          RequestLists   \* the request lists the VM passes to use()

Mode == {"read", "write"}

ASSUME TasksFinite == IsFiniteSet(Tasks)
ASSUME SignalsAssumption == SignalOf \in [Tasks -> Signals]
ASSUME OverlapSymmetric == \A pq \in Overlap : <<pq[2], pq[1]>> \in Overlap
ASSUME RequestsAssumption == RequestLists \subseteq SUBSET [path : Paths, mode : Mode]

VARIABLES active,   \* tasks that own a lease (WorkspaceLocks.active)
          waiters,  \* waiting tasks, oldest first
          need,     \* normalised request of each task: a mode or "none" for every path
          fired     \* signals that have fired

vars == <<active, waiters, need, fired>>

-----------------------------------------------------------------------------
NoRequest == [p \in Paths |-> "none"]

\* Duplicate paths are merged, and write wins.
normalizeWorkspaceRequests(requests) ==
  [p \in Paths |-> IF [path |-> p, mode |-> "write"] \in requests THEN "write"
                   ELSE IF [path |-> p, mode |-> "read"] \in requests THEN "read"
                   ELSE "none"]

\* Defect: a directory inside another one does not conflict with it.
workspaceRequestsConflict_Equal(left, right) ==
  \E p \in Paths : /\ left[p] # "none" /\ right[p] # "none"
                   /\ left[p] = "write" \/ right[p] = "write"

workspaceRequestsConflict(left, right) ==
  \E pq \in Overlap : /\ left[pq[1]] # "none" /\ right[pq[2]] # "none"
                      /\ left[pq[1]] = "write" \/ right[pq[2]] = "write"

canActivate(request, leases) ==
  \A t \in leases : ~workspaceRequestsConflict(need[t], request)

Waiting(t) == \E i \in DOMAIN waiters : waiters[i] = t
Idle(t) == t \notin active /\ ~Waiting(t)

\* A waiter whose signal has fired is in the queue until its listener has run, or
\* a drain has met it.  The dispatch of the signal is not over then.
Aborted(t) == SignalOf[t] \in fired
Dispatching == \E i \in DOMAIN waiters : Aborted(waiters[i])

\* Defect: a drain does not look at the signals of the waiters.
Rejects_None(t) == FALSE
\* A drain takes an aborted waiter out of the queue, and its listener away.
Rejects(t) == Aborted(t)

\* The leases that a drain over the first n waiters of q makes, ...
Served(q, n) == {q[i] : i \in {j \in 1..n : ~Rejects(q[j])}}
\* ... if none of these waiters blocks it.
CanServe(q, leases, n) ==
  \A i \in 1..n : Rejects(q[i]) \/ canActivate(need[q[i]], leases \cup Served(q, i - 1))

\* How many waiters drainWorkspaceWaiters() passes before its head is blocked.
ServedCount(q, leases) ==
  CHOOSE n \in 0..Len(q) : /\ CanServe(q, leases, n)
                           /\ n < Len(q) => ~CanServe(q, leases, n + 1)

\* drainWorkspaceWaiters(), started with this queue and these leases.
Drain(q, leases) ==
  LET n == ServedCount(q, leases)
  IN  /\ active' = leases \cup Served(q, n)
      /\ waiters' = SubSeq(q, n + 1, Len(q))

\* Whoever has neither a lease nor a place in the queue asks for nothing.
Forgets == need' = [t \in Tasks |-> IF Idle(t)' THEN NoRequest ELSE need[t]]

-----------------------------------------------------------------------------
Init == /\ active = {}
        /\ waiters = <<>>
        /\ need = [t \in Tasks |-> NoRequest]
        /\ fired = {}

\* Defect: whoever fits gets a lease at once, also when others wait.
Acquire_Barging(t, requests) ==
  LET request == normalizeWorkspaceRequests(requests)
  IN  /\ ~Dispatching /\ Idle(t) /\ ~Aborted(t)
      /\ need' = [need EXCEPT ![t] = request]
      /\ IF canActivate(request, active)
         THEN active' = active \cup {t} /\ UNCHANGED waiters
         ELSE waiters' = Append(waiters, t) /\ UNCHANGED active
      /\ UNCHANGED fired

\* use() calls acquire() with the given requests; throwIfAborted() comes first.
Acquire(t, requests) ==
  LET request == normalizeWorkspaceRequests(requests)
  IN  /\ ~Dispatching /\ Idle(t) /\ ~Aborted(t)
      /\ need' = [need EXCEPT ![t] = request]
      /\ IF waiters = <<>> /\ canActivate(request, active)
         THEN active' = active \cup {t} /\ UNCHANGED waiters
         ELSE waiters' = Append(waiters, t) /\ UNCHANGED active
      /\ UNCHANGED fired

\* Defect: a release does not drain the queue.
Finish_NoDrain(t) == /\ ~Dispatching /\ t \in active
                     /\ active' = active \ {t}
                     /\ UNCHANGED <<waiters, fired>>
                     /\ Forgets

\* The operation under the lease returns or throws: the release in finally.
Finish(t) == /\ ~Dispatching /\ t \in active
             /\ Drain(waiters, active \ {t})
             /\ Forgets
             /\ UNCHANGED fired

\* A signal fires.  Signals are linked: it can do so while another one is dispatched.
Abort(s) == /\ s \notin fired /\ fired' = fired \cup {s}
            /\ UNCHANGED <<active, waiters, need>>

\* Waiters of one signal have added their listeners in the order of the queue.
NextListener(i) == /\ Aborted(waiters[i])
                   /\ \A j \in 1..(i - 1) : SignalOf[waiters[j]] # SignalOf[waiters[i]]

\* Defect: an aborted waiter leaves the queue without draining it.
onAbort_NoDrain(i) ==
  /\ NextListener(i)
  /\ waiters' = RemoveAt(waiters, i)
  /\ UNCHANGED <<active, fired>>
  /\ Forgets

\* The listener of a waiter: it leaves the queue, and drains it.
onAbort(i) ==
  /\ NextListener(i)
  /\ Drain(RemoveAt(waiters, i), active)
  /\ Forgets
  /\ UNCHANGED fired

Next == \/ \E t \in Tasks, requests \in RequestLists : Acquire(t, requests)
        \/ \E t \in Tasks : Finish(t)
        \/ \E s \in Signals : Abort(s)
        \/ \E i \in DOMAIN waiters : onAbort(i)

Spec == Init /\ [][Next]_vars

\* Operations under a lease end, and so does the dispatch of a signal.  Nobody has
\* to abort, or to ask for a lease.
FairSpec == /\ Spec
            /\ \A t \in Tasks : WF_vars(Finish(t))
            /\ WF_vars(\E i \in DOMAIN waiters : onAbort(i))

-----------------------------------------------------------------------------
TypeOK == /\ active \in SUBSET Tasks
          /\ waiters \in Seq(Tasks)
          /\ need \in [Tasks -> [Paths -> Mode \cup {"none"}]]
          /\ fired \in SUBSET Signals

\* Each task is in one place: it owns one lease or waits once.
QueueExact == \A i \in DOMAIN waiters :
                /\ waiters[i] \notin active
                /\ \A j \in DOMAIN waiters : waiters[i] = waiters[j] => i = j

(* Two agents never work in overlapping directories when one of them writes. *)
Exclusion == \A t, u \in active :
               t # u => ~workspaceRequestsConflict(need[t], need[u])

(* No lost wakeup: the head of the queue waits for an active lease, so a     *)
(* release that drains the queue is still to come, also after the waiter in  *)
(* front of it has been aborted.  Or it has been aborted itself, and its own *)
(* listener is still to run.                                                 *)
HeadBlocked == waiters # <<>> => \/ Aborted(waiters[1])
                                 \/ ~canActivate(need[waiters[1]], active)

(* Nobody whose signal has fired gets a lease any more, whichever listener   *)
(* of that signal, or of another one, drains the queue first.                *)
NoLeaseForTheAborted ==
  [][\A t \in Tasks : t \notin active /\ t \in active' => ~Aborted(t)']_vars

(* First come, first served: whoever gets a lease while t stays in the queue *)
(* was in front of t.                                                        *)
FirstComeFirstServed ==
  [][\A t, u \in Tasks :
       /\ Waiting(t) /\ Waiting(t)'
       /\ u \notin active /\ u \in active'
       => \E i, j \in DOMAIN waiters : i < j /\ waiters[i] = u /\ waiters[j] = t]_vars

(* A waiter is served, or its signal fires.                                  *)
EveryWaitEnds == \A t \in Tasks : Waiting(t) ~> ~Waiting(t)

-----------------------------------------------------------------------------
\* The same abstract lock service as the one ResourceLocks implements.
Claims == [path : Paths, mode : Mode]
Conflicts == {cd \in Claims \X Claims :
                /\ <<cd[1].path, cd[2].path>> \in Overlap
                /\ cd[1].mode = "write" \/ cd[2].mode = "write"}
holds == [t \in Tasks |-> IF t \in active
                          THEN {c \in Claims : need[t][c.path] = c.mode} ELSE {}]

Lease == INSTANCE LeaseTable

(* What a caller of use() may rely on: the abstract lease table.             *)
TwoPhase == Lease!Spec
=============================================================================
