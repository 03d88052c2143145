----------------------------- MODULE ResourceLocks -----------------------------
(***************************************************************************)
(* The readers/writer locks that serialise work on Agent and Memory        *)
(* handles: class ResourceLocks of src/src/concurrency.ts.                 *)
(*                                                                         *)
(* A call of use() first merges its requests to one mode per key, then     *)
(* acquires the keys one after another in key order, awaiting each grant,  *)
(* runs the operation, and releases everything in a finally block.         *)
(*                                                                         *)
(* Steps that the event loop cannot interleave are one action: a release   *)
(* with the drain it triggers, an abort with the listener it runs.         *)
(***************************************************************************)
EXTENDS Naturals, Sequences, FiniteSets

CONSTANTS Tasks,        \* concurrent callers of use(), each with its own AbortSignal
          Keys,         \* handle ids, as numbers in the order localeCompare sorts them
          RequestLists  \* the request lists the VM passes to use()

Mode == {"read", "write"}

ASSUME TasksFinite == IsFiniteSet(Tasks)
ASSUME KeysOrdered == Keys \subseteq Nat
ASSUME RequestsAssumption ==
  /\ RequestLists \subseteq SUBSET [key : Keys, mode : Mode]
  /\ {} \notin RequestLists

VARIABLES readers,  \* LockState.readers of each key
          writer,   \* LockState.writer of each key
          queue,    \* LockState.queue of each key: the waiting tasks, oldest first
          need,     \* normalised requests of each task: a mode or "none" for every key
          held,     \* keys each task has been granted and must release
          pc,       \* where each task is in use()
          aborted   \* tasks whose AbortSignal has fired

vars == <<readers, writer, queue, need, held, pc, aborted>>

-----------------------------------------------------------------------------
NoRequest == [k \in Keys |-> "none"]

\* Duplicate keys are merged, and write wins.
normalizeRequests(requests) ==
  [k \in Keys |-> IF [key |-> k, mode |-> "write"] \in requests THEN "write"
                  ELSE IF [key |-> k, mode |-> "read"] \in requests THEN "read"
                  ELSE "none"]

Wanted(t) == {k \in Keys : need[t][k] # "none"}

\* Defect: the keys are acquired in the order of the request list.
IsNextKey_Unsorted(t, k) == k \in Wanted(t) \ held[t]

\* The key the for-loop of use() acquires next: the least one not yet granted.
IsNextKey(t, k) == /\ k \in Wanted(t) \ held[t]
                   /\ \A j \in Wanted(t) \ held[t] : k <= j

\* Defect: a newcomer overtakes the queue.
canAcquireImmediately_Barging(k, mode) == ~writer[k] /\ (mode = "read" \/ readers[k] = 0)

canAcquireImmediately(k, mode) ==
  /\ ~writer[k]
  /\ queue[k] = <<>>
  /\ mode = "read" \/ readers[k] = 0

WaiterMode(k, i) == need[queue[k][i]][k]

\* How many waiters drain() serves once key k is idle: one writer, or every
\* reader in front of the first writer.  The queue holds no aborted waiter
\* (WaitersAreLive), so drain()'s skipping of aborted ones never happens.
LeadingReads(k) ==
  CHOOSE n \in 1..Len(queue[k]) :
    /\ \A i \in 1..n : WaiterMode(k, i) = "read"
    /\ n < Len(queue[k]) => WaiterMode(k, n + 1) = "write"

\* Defect: drain() serves everybody who waits.
ServedCount_Everybody(k) == Len(queue[k])

ServedCount(k) == IF queue[k] = <<>> THEN 0
                  ELSE IF WaiterMode(k, 1) = "write" THEN 1
                  ELSE LeadingReads(k)

Served(k) == {queue[k][i] : i \in 1..ServedCount(k)}

-----------------------------------------------------------------------------
Init == /\ readers = [k \in Keys |-> 0]
        /\ writer = [k \in Keys |-> FALSE]
        /\ queue = [k \in Keys |-> <<>>]
        /\ need = [t \in Tasks |-> NoRequest]
        /\ held = [t \in Tasks |-> {}]
        /\ pc = [t \in Tasks |-> "idle"]
        /\ aborted = {}

\* use() is called with some request list.
Use(t) == /\ pc[t] = "idle"
          /\ \E requests \in RequestLists :
               need' = [need EXCEPT ![t] = normalizeRequests(requests)]
          /\ pc' = [pc EXCEPT ![t] = "acquiring"]
          /\ UNCHANGED <<readers, writer, queue, held, aborted>>

\* acquire() finds the key free: activate() and an already resolved promise.
AcquireNow(t, k) ==
  /\ pc[t] = "acquiring" /\ t \notin aborted
  /\ IsNextKey(t, k)
  /\ canAcquireImmediately(k, need[t][k])
  /\ IF need[t][k] = "read"
     THEN readers' = [readers EXCEPT ![k] = @ + 1] /\ UNCHANGED writer
     ELSE writer' = [writer EXCEPT ![k] = TRUE] /\ UNCHANGED readers
  /\ held' = [held EXCEPT ![t] = @ \cup {k}]
  /\ UNCHANGED <<queue, need, pc, aborted>>

\* acquire() has to wait: the waiter goes to the end of the key's queue.
Enqueue(t, k) ==
  /\ pc[t] = "acquiring" /\ t \notin aborted
  /\ IsNextKey(t, k)
  /\ ~canAcquireImmediately(k, need[t][k])
  /\ queue' = [queue EXCEPT ![k] = Append(@, t)]
  /\ pc' = [pc EXCEPT ![t] = "waiting"]
  /\ UNCHANGED <<readers, writer, need, held, aborted>>

\* Every key is granted: the operation starts.
Enter(t) == /\ pc[t] = "acquiring"
            /\ Wanted(t) \subseteq held[t]
            /\ pc' = [pc EXCEPT ![t] = "using"]
            /\ UNCHANGED <<readers, writer, queue, need, held, aborted>>

\* Defect: only a writer's release drains.
Freed_WritersOnly(t, k) == k \in held[t] /\ need[t][k] = "write"

\* Releasing t's keys leaves key k idle, so drain() passes its guard.
Freed(t, k) == k \in held[t] /\ (need[t][k] = "write" \/ readers[k] = 1)

\* The finally block of use(): every release() and the drain() of its key.  A
\* granted waiter holds the key from here on, before its own code resumes.
ReleaseAll(t) ==
  LET served == [k \in Keys |-> IF Freed(t, k) THEN Served(k) ELSE {}]
  IN  /\ readers' = [k \in Keys |->
           IF Freed(t, k) THEN Cardinality({u \in served[k] : need[u][k] = "read"})
           ELSE IF k \in held[t] THEN readers[k] - 1
           ELSE readers[k]]
      /\ writer' = [k \in Keys |->
           IF Freed(t, k) THEN \E u \in served[k] : need[u][k] = "write" ELSE writer[k]]
      /\ queue' = [k \in Keys |->
           IF Freed(t, k) THEN SubSeq(queue[k], ServedCount(k) + 1, Len(queue[k]))
           ELSE queue[k]]
      /\ held' = [u \in Tasks |-> IF u = t THEN {}
                                  ELSE held[u] \cup {k \in Keys : u \in served[k]}]
      /\ pc' = [u \in Tasks |-> IF u = t THEN "idle"
                                ELSE IF \E k \in Keys : u \in served[k] THEN "acquiring"
                                ELSE pc[u]]
      /\ need' = [need EXCEPT ![t] = NoRequest]
      /\ UNCHANGED aborted

\* The operation returns or throws.
Finish(t) == pc[t] = "using" /\ ReleaseAll(t)

\* throwIfAborted() in acquire(): keys granted so far are released.
ThrowIfAborted(t) == /\ pc[t] = "acquiring" /\ t \in aborted
                     /\ ~ (Wanted(t) \subseteq held[t])
                     /\ ReleaseAll(t)

\* Defect: acquire() is outside the try, so a rejection skips the finally block.
Unwind_Leaks(t) == /\ pc[t] = "rejected"
                   /\ pc' = [pc EXCEPT ![t] = "idle"]
                   /\ need' = [need EXCEPT ![t] = NoRequest]
                   /\ held' = [held EXCEPT ![t] = {}]
                   /\ UNCHANGED <<readers, writer, queue, aborted>>

\* The await of a rejected waiter resumes and throws.
Unwind(t) == pc[t] = "rejected" /\ ReleaseAll(t)

\* The signal of t fires.  A waiting t leaves the queue through onAbort, which
\* cleans up but does not drain the key.
Abort(t) ==
  /\ t \notin aborted
  /\ aborted' = aborted \cup {t}
  /\ \/ /\ pc[t] # "waiting"
        /\ UNCHANGED <<queue, pc>>
     \/ /\ pc[t] = "waiting"
        /\ \E k \in Keys, i \in 1..Cardinality(Tasks) :
             /\ i <= Len(queue[k]) /\ queue[k][i] = t
             /\ queue' = [queue EXCEPT
                  ![k] = SubSeq(@, 1, i - 1) \o SubSeq(@, i + 1, Len(@))]
        /\ pc' = [pc EXCEPT ![t] = "rejected"]
  /\ UNCHANGED <<readers, writer, need, held>>

Next == \E t \in Tasks :
          \/ Use(t)
          \/ \E k \in Keys : AcquireNow(t, k) \/ Enqueue(t, k)
          \/ Enter(t)
          \/ Finish(t)
          \/ ThrowIfAborted(t)
          \/ Unwind(t)
          \/ Abort(t)

Spec == Init /\ [][Next]_vars

\* The event loop runs every continuation that is ready, and the operations
\* under the locks end.
Progress(t) == \/ \E k \in Keys : AcquireNow(t, k) \/ Enqueue(t, k)
               \/ Enter(t) \/ Finish(t) \/ ThrowIfAborted(t) \/ Unwind(t)

FairSpec == Spec /\ \A t \in Tasks : WF_vars(Progress(t))

-----------------------------------------------------------------------------
PC == {"idle", "acquiring", "waiting", "rejected", "using"}

TypeOK == /\ readers \in [Keys -> Nat]
          /\ writer \in [Keys -> BOOLEAN]
          /\ queue \in [Keys -> Seq(Tasks)]
          /\ need \in [Tasks -> [Keys -> Mode \cup {"none"}]]
          /\ held \in [Tasks -> SUBSET Keys]
          /\ pc \in [Tasks -> PC]
          /\ aborted \in SUBSET Tasks

Readers(k) == {t \in Tasks : k \in held[t] /\ need[t][k] = "read"}
Writers(k) == {t \in Tasks : k \in held[t] /\ need[t][k] = "write"}

(* The two-field LockState is exactly the set of releases still owed: a     *)
(* grant that lost the race with its caller's abort, or a rejected waiter,  *)
(* leaks no reader and no writer flag.                                      *)
LockStateExact == \A k \in Keys : /\ readers[k] = Cardinality(Readers(k))
                                  /\ writer[k] <=> Writers(k) # {}

(* A task that writes a handle is alone on it.                              *)
Exclusion == \A k \in Keys : \A t \in Writers(k) : \A u \in Tasks :
               k \in held[u] => u = t

(* No lost wakeup: somebody waits on a key only while somebody holds it, so *)
(* a release that drains the queue is still to come.                        *)
NoLostWakeup == \A k \in Keys : queue[k] # <<>> => writer[k] \/ readers[k] > 0

(* An aborted waiter never stays queued.                                    *)
WaitersAreLive == \A k \in Keys : \A i \in DOMAIN queue[k] :
                    /\ queue[k][i] \notin aborted
                    /\ pc[queue[k][i]] = "waiting"

InQueue(t, k) == \E i \in DOMAIN queue[k] : queue[k][i] = t
AheadOf(u, t, k) == \E i, j \in DOMAIN queue[k] : i < j /\ queue[k][i] = u /\ queue[k][j] = t

(* First come, first served per key: whoever gains a key while t is queued  *)
(* for it, and stays queued, was in front of t.  Readers that keep arriving *)
(* cannot starve a writer.                                                  *)
FirstComeFirstServed ==
  [][\A k \in Keys, t, u \in Tasks :
       /\ InQueue(t, k) /\ InQueue(t, k)'
       /\ k \notin held[u] /\ k \in held'[u]
       => AheadOf(u, t, k)]_vars

(* Every call of use() ends: acquiring in key order cannot deadlock, and no *)
(* queued task is forgotten.                                                *)
EveryUseEnds == \A t \in Tasks : pc[t] # "idle" ~> pc[t] = "idle"

-----------------------------------------------------------------------------
\* The lock table implements strict two-phase locking.
Claims == [key : Keys, mode : Mode]
Conflicts == {cd \in Claims \X Claims :
                cd[1].key = cd[2].key /\ (cd[1].mode = "write" \/ cd[2].mode = "write")}
holds == [t \in Tasks |-> {[key |-> k, mode |-> need[t][k]] : k \in held[t]}]

Lease == INSTANCE LeaseTable

(* What a caller of use() may rely on: the abstract lease table.            *)
TwoPhase == Lease!Spec
=============================================================================
