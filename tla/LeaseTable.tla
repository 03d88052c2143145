------------------------------ MODULE LeaseTable ------------------------------
(***************************************************************************)
(* What the lock services of src/src/concurrency.ts promise to the VM: a   *)
(* task owns a growing set of claims while its operation runs and gives    *)
(* them all back at once (strict two-phase locking), and no two tasks ever *)
(* own conflicting claims.  ResourceLocks and WorkspaceLocks implement it. *)
(***************************************************************************)
CONSTANTS Tasks,     \* the callers of use()
          Claims,    \* what a caller can own: a key or a path, with a mode
          Conflicts  \* the pairs of claims that exclude each other

VARIABLE holds       \* holds[t] is the set of claims task t owns

Compatible(h) ==
  \A t, u \in Tasks : t # u => \A c \in h[t], d \in h[u] : <<c, d>> \notin Conflicts

Init == holds = [t \in Tasks |-> {}]

\* One step of the service: some tasks gain claims, some give up all of theirs.
Step == /\ holds' \in [Tasks -> SUBSET Claims]
        /\ \A t \in Tasks : holds[t] \subseteq holds'[t] \/ holds'[t] = {}
        /\ Compatible(holds')

Spec == Init /\ [][Step]_holds
=============================================================================
