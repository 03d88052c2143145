------------------------- MODULE ResourceLocksProofs -------------------------
(***************************************************************************)
(* Mutual exclusion of ResourceLocks, for every set of tasks, keys and     *)
(* request lists.  The lock state is two numbers per key, so exclusion is  *)
(* only inductive together with the fact that the numbers count the        *)
(* releases still owed (LockStateExact), and that needs to know who can    *)
(* be in a queue (QueueInv).                                               *)
(***************************************************************************)
EXTENDS ResourceLocks, SequencesExt, FiniteSetTheorems, SequenceTheorems, FunctionTheorems,
        WellFoundedInduction, TLAPS

\* A queued task waits for its next key, and once.
QueueInv ==
  \A k \in Keys : \A i \in 1..Len(queue[k]) :
    /\ pc[queue[k][i]] = "waiting"
    /\ IsNextKey(queue[k][i], k)
    /\ \A j \in 1..Len(queue[k]) : queue[k][i] = queue[k][j] => i = j

\* A task holds only what it asked for, and nothing outside use().
HeldInv == \A t \in Tasks : /\ held[t] \subseteq Wanted(t)
                            /\ pc[t] = "idle" => held[t] = {}

IInv == TypeOK /\ QueueInv /\ HeldInv /\ LockStateExact /\ Exclusion

-----------------------------------------------------------------------------
(* Every nonempty set of positions has a first one.                         *)
LEMMA FirstPosition ==
  ASSUME NEW S \in SUBSET Nat, S # {}
  PROVE  \E i \in S : \A j \in S : i <= j
<1>1. PICK i \in S : \A j \in S : <<j, i>> \notin OpToRel(<, Nat)
  BY NatLessThanWellFounded, WFMin
<1>2. \A j \in S : ~ (j < i)
  BY <1>1 DEF OpToRel
<1> QED
  BY <1>2

(* What splice(index, 1) leaves of a queue.                                 *)
LEMMA SpliceOne ==
  ASSUME NEW S, NEW q \in Seq(S), NEW n \in 1..Len(q)
  PROVE  LET r == SubSeq(q, 1, n - 1) \o SubSeq(q, n + 1, Len(q))
         IN  /\ r \in Seq(S)
             /\ Len(r) = Len(q) - 1
             /\ \A i \in 1..Len(q) - 1 : i < n => r[i] = q[i]
             /\ \A i \in 1..Len(q) - 1 : n <= i => r[i] = q[i + 1]
<1> DEFINE front == SubSeq(q, 1, n - 1)
           back == SubSeq(q, n + 1, Len(q))
           r == front \o back
<1>1. Len(q) \in Nat /\ n \in Nat
  BY LenProperties
<1>2. /\ front \in Seq(S) /\ Len(front) = n - 1
      /\ \A i \in 1..n - 1 : front[i] = q[i]
  BY <1>1, ElementOfSeq
<1>3. /\ back \in Seq(S) /\ Len(back) = Len(q) - n
      /\ \A i \in 1..Len(q) - n : back[i] = q[n + i]
  BY <1>1, ElementOfSeq
<1> HIDE DEF front, back
<1>4. /\ r \in Seq(S) /\ Len(r) = Len(front) + Len(back)
      /\ \A i \in 1..Len(front) + Len(back) :
           r[i] = IF i <= Len(front) THEN front[i] ELSE back[i - Len(front)]
  BY <1>2, <1>3, ConcatProperties
<1> HIDE DEF r
<1>5. Len(r) = Len(q) - 1
  BY <1>1, <1>2, <1>3, <1>4
<1>6. ASSUME NEW i \in 1..Len(q) - 1, i < n
      PROVE  r[i] = q[i]
  <2>1. i \in 1..n - 1
    BY <1>1, <1>6
  <2>2. i \in 1..Len(front) + Len(back) /\ i <= Len(front)
    BY <1>1, <1>2, <1>3, <2>1
  <2>3. r[i] = front[i]
    BY <1>4, <2>2
  <2> QED
    BY <1>2, <2>1, <2>3
<1>7. ASSUME NEW i \in 1..Len(q) - 1, n <= i
      PROVE  r[i] = q[i + 1]
  <2> DEFINE m == i - (n - 1)
  <2>1. m \in 1..Len(q) - n /\ n + m = i + 1
    BY <1>1, <1>7
  <2>2. /\ i \in 1..Len(front) + Len(back) /\ ~ (i <= Len(front))
        /\ i - Len(front) = m
    BY <1>1, <1>2, <1>3, <1>7
  <2> HIDE DEF m
  <2>3. r[i] = back[m]
    BY <1>4, <2>2
  <2>4. back[m] = q[n + m]
    BY <1>3, <2>1
  <2> QED
    BY <2>1, <2>3, <2>4
<1> QED
  BY <1>4, <1>5, <1>6, <1>7 DEF r, front, back

-----------------------------------------------------------------------------
(* drain() finds the end of the leading readers.                            *)
LEMMA LeadingReadsExists ==
  ASSUME TypeOK, NEW k \in Keys, queue[k] # <<>>, WaiterMode(k, 1) = "read",
         \A i \in 1..Len(queue[k]) : WaiterMode(k, i) \in Mode
  PROVE  /\ LeadingReads(k) \in 1..Len(queue[k])
         /\ \A i \in 1..LeadingReads(k) : WaiterMode(k, i) = "read"
<1> DEFINE q == queue[k]
           W == {i \in 1..Len(q) : WaiterMode(k, i) = "write"}
           Ends(n) == /\ \A i \in 1..n : WaiterMode(k, i) = "read"
                      /\ n < Len(q) => WaiterMode(k, n + 1) = "write"
<1>1. q \in Seq(Tasks) /\ Len(q) \in Nat /\ Len(q) >= 1
  BY EmptySeq, LenProperties DEF TypeOK
<1>2. \E n \in 1..Len(q) : Ends(n)
  <2>1. CASE W = {}
    <3>1. Ends(Len(q))
      BY <1>1, <2>1 DEF Mode
    <3> QED
      BY <1>1, <3>1
  <2>2. CASE W # {}
    <3>0. W \in SUBSET Nat
      BY <1>1
    <3>1. PICK w \in W : \A j \in W : w <= j
      <4> HIDE DEF W
      <4> QED
        BY <2>2, <3>0, FirstPosition
    <3>2. w \in 2..Len(q)
      BY <1>1, <3>1
    <3>3. Ends(w - 1)
      BY <1>1, <3>1, <3>2 DEF Mode
    <3>4. w - 1 \in 1..Len(q)
      BY <1>1, <3>2
    <3> HIDE DEF Ends
    <3> QED
      BY <3>3, <3>4
  <2> QED
    BY <2>1, <2>2
<1>3. LeadingReads(k) = CHOOSE n \in 1..Len(q) : Ends(n)
  BY DEF LeadingReads
<1> HIDE DEF Ends
<1>4. LeadingReads(k) \in 1..Len(q) /\ Ends(LeadingReads(k))
  BY <1>2, <1>3
<1> QED
  BY <1>4 DEF Ends

(* What drain() serves when key k becomes idle: a prefix of the queue, made *)
(* of one writer or of readers only.                                        *)
LEMMA ServedPrefix ==
  ASSUME IInv, NEW k \in Keys
  PROVE  /\ queue[k] \in Seq(Tasks)
         /\ Len(queue[k]) \in Nat
         /\ queue[k] # <<>> => Served(k) # {}
         /\ ServedCount(k) \in 0..Len(queue[k])
         /\ Served(k) \subseteq Tasks
         /\ \A u \in Served(k) : pc[u] = "waiting" /\ IsNextKey(u, k)
         /\ \/ \A u \in Served(k) : need[u][k] = "read"
            \/ \E u \in Served(k) : Served(k) = {u} /\ need[u][k] = "write"
<1>1. queue[k] \in Seq(Tasks) /\ Len(queue[k]) \in Nat /\ (queue[k] # <<>> => Len(queue[k]) >= 1)
  BY EmptySeq, LenProperties DEF IInv, TypeOK
<1>2. \A i \in 1..Len(queue[k]) : queue[k][i] \in Tasks
  BY <1>1, ElementOfSeq
<1>3. \A i \in 1..Len(queue[k]) : WaiterMode(k, i) \in Mode
  BY <1>1, <1>2 DEF IInv, TypeOK, QueueInv, IsNextKey, Wanted, WaiterMode
<1>4. CASE queue[k] = <<>>
  BY <1>1, <1>4 DEF ServedCount, Served
<1>5. CASE queue[k] # <<>> /\ WaiterMode(k, 1) = "write"
  <2>1. ServedCount(k) = 1 /\ Served(k) = {queue[k][1]}
    BY <1>5 DEF ServedCount, Served
  <2> QED
    BY <1>1, <1>2, <1>5, <2>1 DEF IInv, QueueInv, WaiterMode
<1>6. CASE queue[k] # <<>> /\ WaiterMode(k, 1) = "read"
  <2>1. ServedCount(k) = LeadingReads(k)
    BY <1>6 DEF ServedCount
  <2>2. /\ ServedCount(k) \in 1..Len(queue[k])
        /\ \A i \in 1..ServedCount(k) : WaiterMode(k, i) = "read"
    BY <1>3, <1>6, <2>1, LeadingReadsExists DEF IInv
  <2>3. \A u \in Served(k) : need[u][k] = "read"
    BY <1>1, <2>2 DEF Served, WaiterMode
  <2> QED
    BY <1>1, <1>2, <2>2, <2>3 DEF IInv, QueueInv, Served
<1> QED
  BY <1>1, <1>3, <1>4, <1>5, <1>6 DEF Mode

(* Finite reader sets make the counter arithmetic meaningful.               *)
LEMMA ReadersFinite ==
  ASSUME NEW k \in Keys
  PROVE  IsFiniteSet(Readers(k))
BY TasksFinite, FS_Subset DEF Readers

(* use() is called: the caller holds nothing, so the lock states are exact. *)
LEMMA UseStep ==
  ASSUME IInv, NEW t \in Tasks, Use(t)
  PROVE  IInv'
<1> USE DEF IInv, Use
<1>1. held[t] = {}
  BY DEF HeldInv
<1>2. PICK requests \in RequestLists : need' = [need EXCEPT ![t] = normalizeRequests(requests)]
  OBVIOUS
<1>3. TypeOK'
  BY <1>2 DEF TypeOK, normalizeRequests, Mode, PC
<1>4. \A k \in Keys : Readers(k)' = Readers(k) /\ Writers(k)' = Writers(k)
  BY <1>1, <1>2 DEF TypeOK, Readers, Writers
<1>5. LockStateExact' /\ Exclusion'
  <2>1. \A k \in Keys : Cardinality(Readers(k)') = Cardinality(Readers(k))
    BY <1>4
  <2> QED
    BY <1>4, <2>1 DEF LockStateExact, Exclusion
<1>6. QueueInv'
  <2> SUFFICES ASSUME NEW k \in Keys, NEW i \in 1..Len(queue[k])
               PROVE  /\ pc'[queue[k][i]] = "waiting"
                      /\ IsNextKey(queue[k][i], k)'
    BY DEF QueueInv
  <2>1. queue[k][i] \in Tasks /\ queue[k][i] # t
    BY ElementOfSeq DEF TypeOK, QueueInv
  <2> QED
    BY <2>1 DEF TypeOK, QueueInv, IsNextKey, Wanted
<1>7. HeldInv'
  BY <1>1, <1>2 DEF HeldInv, Wanted, TypeOK
<1> QED
  BY <1>3, <1>5, <1>6, <1>7

(* acquire() finds the key free and the caller becomes one more holder.     *)
LEMMA AcquireNowStep ==
  ASSUME IInv, NEW t \in Tasks, NEW k \in Keys, AcquireNow(t, k)
  PROVE  IInv'
<1>1. TypeOK'
  <2>1. readers' \in [Keys -> Nat]
    <3>1. readers \in [Keys -> Nat]
      BY DEF IInv, TypeOK
    <3>2. readers' = readers \/ readers' = [readers EXCEPT ![k] = @ + 1]
      BY DEF AcquireNow
    <3> QED
      BY <3>1, <3>2
  <2>2. writer' \in [Keys -> BOOLEAN]
    BY DEF IInv, AcquireNow, TypeOK
  <2>3. held' \in [Tasks -> SUBSET Keys]
    BY DEF IInv, AcquireNow, TypeOK
  <2> QED
    BY <2>1, <2>2, <2>3 DEF IInv, AcquireNow, TypeOK
<1>2. k \notin held[t] /\ need[t][k] \in Mode /\ writer[k] = FALSE /\ Writers(k) = {}
  BY DEF IInv, AcquireNow, TypeOK, IsNextKey, Wanted, canAcquireImmediately,
         LockStateExact, Mode
<1>3. \A j \in Keys \ {k} : Readers(j)' = Readers(j) /\ Writers(j)' = Writers(j)
  BY DEF IInv, AcquireNow, TypeOK, Readers, Writers
<1>4. \A j \in Keys \ {k} : readers'[j] = readers[j] /\ writer'[j] = writer[j]
  BY DEF IInv, AcquireNow, TypeOK
<1>5. QueueInv' /\ HeldInv'
  BY <1>2 DEF IInv, AcquireNow, TypeOK, QueueInv, HeldInv, IsNextKey, Wanted, Mode
<1>6. \A j \in Keys \ {k} : /\ readers'[j] = Cardinality(Readers(j)')
                            /\ writer'[j] <=> Writers(j)' # {}
  BY <1>3, <1>4 DEF IInv, LockStateExact
<1>7. \A j \in Keys \ {k} : \A v \in Writers(j)' : \A u \in Tasks : j \in held'[u] => u = v
  BY <1>3 DEF IInv, AcquireNow, TypeOK, Exclusion
<1>8. CASE need[t][k] = "read"
  <2>1. Readers(k)' = Readers(k) \cup {t} /\ Writers(k)' = {} /\ t \notin Readers(k)
    BY <1>2, <1>8 DEF IInv, AcquireNow, TypeOK, Readers, Writers
  <2>2. Cardinality(Readers(k) \cup {t}) = readers[k] + 1
    <3>1. IsFiniteSet(Readers(k)) /\ Cardinality(Readers(k)) = readers[k]
      BY ReadersFinite DEF IInv, LockStateExact
    <3> QED
      BY <2>1, <3>1, FS_AddElement
  <2>3. readers'[k] = readers[k] + 1 /\ writer'[k] = FALSE
    BY <1>2, <1>8 DEF IInv, AcquireNow, TypeOK
  <2> QED
    BY <1>1, <1>5, <1>6, <1>7, <2>1, <2>2, <2>3 DEF IInv, LockStateExact, Exclusion
<1>9. CASE need[t][k] = "write"
  <2>1. readers[k] = 0 /\ Readers(k) = {}
    BY <1>9, ReadersFinite, FS_EmptySet
       DEF IInv, AcquireNow, canAcquireImmediately, LockStateExact
  <2>2. Readers(k)' = {} /\ Writers(k)' = {t}
    BY <1>2, <1>9, <2>1 DEF IInv, AcquireNow, TypeOK, Readers, Writers
  <2>3. readers'[k] = 0 /\ writer'[k] = TRUE
    BY <1>9, <2>1 DEF IInv, AcquireNow, TypeOK
  <2>4. \A u \in Tasks : k \in held'[u] => u = t
    BY <1>2, <2>1 DEF IInv, AcquireNow, TypeOK, Readers, Writers, Mode, HeldInv, Wanted
  <2> QED
    BY <1>1, <1>5, <1>6, <1>7, <2>2, <2>3, <2>4, FS_EmptySet
       DEF IInv, LockStateExact, Exclusion
<1> QED
  BY <1>2, <1>8, <1>9 DEF Mode

(* acquire() puts its caller, who is in no queue, at the end of one.        *)
LEMMA EnqueueStep ==
  ASSUME IInv, NEW t \in Tasks, NEW k \in Keys, Enqueue(t, k)
  PROVE  IInv'
<1>1. TypeOK'
  BY DEF IInv, Enqueue, TypeOK, PC
<1>2. HeldInv' /\ LockStateExact' /\ Exclusion'
  <2>1. \A j \in Keys : Readers(j)' = Readers(j) /\ Writers(j)' = Writers(j)
    BY DEF Enqueue, Readers, Writers
  <2> QED
    BY <2>1 DEF IInv, Enqueue, TypeOK, HeldInv, Wanted, LockStateExact, Exclusion
<1>3. QueueInv'
  <2>1. queue[k] \in Seq(Tasks) /\ Len(queue[k]) \in Nat
    BY LenProperties DEF IInv, TypeOK
  <2>2. \A j \in Keys : \A i \in 1..Len(queue[j]) : queue[j][i] # t
    BY DEF IInv, Enqueue, QueueInv
  <2>3. /\ Len(queue'[k]) = Len(queue[k]) + 1
        /\ queue'[k][Len(queue[k]) + 1] = t
        /\ \A i \in 1..Len(queue[k]) : queue'[k][i] = queue[k][i]
    BY <2>1 DEF IInv, Enqueue, TypeOK
  <2>4. \A j \in Keys \ {k} : queue'[j] = queue[j]
    BY DEF IInv, Enqueue, TypeOK
  <2>5. pc'[t] = "waiting" /\ \A u \in Tasks \ {t} : pc'[u] = pc[u]
    BY DEF IInv, Enqueue, TypeOK
  <2>6. \A u, j : IsNextKey(u, j)' <=> IsNextKey(u, j)
    BY DEF Enqueue, IsNextKey, Wanted
  <2>7. \A j \in Keys : \A i \in 1..Len(queue[j]) : queue[j][i] \in Tasks \ {t}
    BY <2>2, ElementOfSeq DEF IInv, TypeOK
  <2>8. ASSUME NEW j \in Keys, NEW i \in 1..Len(queue'[j])
        PROVE  (/\ pc[queue[j][i]] = "waiting"
                /\ IsNextKey(queue[j][i], j)
                /\ \A m \in 1..Len(queue[j]) : queue[j][i] = queue[j][m] => i = m)'
    <3>1. CASE j # k
      BY <2>4, <2>5, <2>6, <2>7, <2>8, <3>1 DEF IInv, QueueInv
    <3>2. CASE j = k /\ i = Len(queue[k]) + 1
      BY <2>1, <2>2, <2>3, <2>5, <2>6, <3>2 DEF Enqueue
    <3>3. CASE j = k /\ i \in 1..Len(queue[k])
      <4>1. /\ pc[queue[k][i]] = "waiting" /\ IsNextKey(queue[k][i], k)
            /\ \A m \in 1..Len(queue[k]) : queue[k][i] = queue[k][m] => i = m
        BY <3>3 DEF IInv, QueueInv
      <4>2. queue[k][i] \in Tasks \ {t} /\ queue'[k][i] = queue[k][i]
        BY <2>3, <2>7, <3>3
      <4>3. pc'[queue'[k][i]] = "waiting" /\ IsNextKey(queue[k][i], k)'
        BY <2>5, <2>6, <4>1, <4>2
      <4>4. ASSUME NEW m \in 1..Len(queue'[k]), queue'[k][i] = queue'[k][m]
            PROVE  i = m
        <5>1. CASE m \in 1..Len(queue[k])
          BY <2>3, <4>1, <4>2, <4>4, <5>1
        <5>2. CASE m = Len(queue[k]) + 1
          BY <2>3, <4>2, <4>4, <5>2
        <5> QED
          BY <2>1, <2>3, <4>4, <5>1, <5>2
      <4> QED
        BY <2>6, <3>3, <4>2, <4>3, <4>4
    <3> QED
      BY <2>1, <2>3, <2>8, <3>1, <3>2, <3>3
  <2> QED
    BY <2>8 DEF QueueInv
<1> QED
  BY <1>1, <1>2, <1>3 DEF IInv

(* onAbort takes its waiter out of the only queue it is in.                 *)
LEMMA AbortStep ==
  ASSUME IInv, NEW t \in Tasks, Abort(t)
  PROVE  IInv'
<1>1. HeldInv' /\ LockStateExact' /\ Exclusion'
  <2>1. \A j \in Keys : Readers(j)' = Readers(j) /\ Writers(j)' = Writers(j)
    BY DEF Abort, Readers, Writers
  <2>2. \A u \in Tasks : pc'[u] = "idle" => pc[u] = "idle"
    BY DEF IInv, Abort, TypeOK
  <2>3. HeldInv'
    BY <2>2 DEF IInv, Abort, HeldInv, Wanted
  <2> QED
    BY <2>1, <2>3 DEF IInv, Abort, LockStateExact, Exclusion
<1>2. CASE pc[t] # "waiting"
  <2>1. queue' = queue /\ pc' = pc /\ need' = need /\ held' = held
    BY <1>2 DEF Abort
  <2>2. QueueInv'
    BY <2>1 DEF IInv, QueueInv, IsNextKey, Wanted
  <2>3. TypeOK'
    BY <2>1 DEF IInv, TypeOK, Abort
  <2> QED
    BY <1>1, <2>2, <2>3 DEF IInv
<1>3. CASE pc[t] = "waiting"
  <2>1. PICK k \in Keys, n \in 1..Cardinality(Tasks) :
          /\ n <= Len(queue[k]) /\ queue[k][n] = t
          /\ queue' = [queue EXCEPT ![k] = SubSeq(@, 1, n - 1) \o SubSeq(@, n + 1, Len(@))]
    BY <1>3 DEF Abort
  <2>2. queue[k] \in Seq(Tasks) /\ Len(queue[k]) \in Nat /\ n \in 1..Len(queue[k])
    BY <2>1, LenProperties DEF IInv, TypeOK
  <2>3. queue'[k] = SubSeq(queue[k], 1, n - 1) \o SubSeq(queue[k], n + 1, Len(queue[k]))
    BY <2>1 DEF IInv, TypeOK
  <2>4. /\ queue'[k] \in Seq(Tasks)
        /\ Len(queue'[k]) = Len(queue[k]) - 1
        /\ \A i \in 1..Len(queue[k]) - 1 : i < n => queue'[k][i] = queue[k][i]
        /\ \A i \in 1..Len(queue[k]) - 1 : n <= i => queue'[k][i] = queue[k][i + 1]
    BY <2>2, <2>3, SpliceOne
  <2>5. \A j \in Keys \ {k} : queue'[j] = queue[j]
    BY <2>1 DEF IInv, TypeOK
  <2>6. pc'[t] = "rejected" /\ \A u \in Tasks \ {t} : pc'[u] = pc[u]
    BY <1>3 DEF IInv, Abort, TypeOK
  <2>7. \A u, j : IsNextKey(u, j)' <=> IsNextKey(u, j)
    BY DEF Abort, IsNextKey, Wanted
  <2>8. \A j \in Keys : \A i \in 1..Len(queue[j]) :
          queue[j][i] \in Tasks /\ (queue[j][i] = t => j = k /\ i = n)
    <3> SUFFICES ASSUME NEW j \in Keys, NEW i \in 1..Len(queue[j])
                 PROVE  queue[j][i] \in Tasks /\ (queue[j][i] = t => j = k /\ i = n)
      OBVIOUS
    <3>1. queue[j][i] \in Tasks
      BY ElementOfSeq DEF IInv, TypeOK
    <3>2. queue[j][i] = t => IsNextKey(t, j) /\ IsNextKey(t, k)
      BY <2>1, <2>2 DEF IInv, QueueInv
    <3>3. queue[j][i] = t => j = k
      BY <3>2, KeysOrdered DEF IsNextKey, Wanted
    <3> QED
      BY <2>1, <2>2, <3>1, <3>3 DEF IInv, QueueInv
  <2>9. TypeOK'
    <3>1. \A j \in Keys : queue'[j] \in Seq(Tasks)
      BY <2>4, <2>5 DEF IInv, TypeOK
    <3>2. queue' \in [Keys -> Seq(Tasks)]
      BY <2>1, <3>1 DEF IInv, TypeOK
    <3> QED
      BY <1>3, <3>2 DEF IInv, Abort, TypeOK, PC
  <2>10. ASSUME NEW j \in Keys, NEW i \in 1..Len(queue'[j])
         PROVE  (/\ pc[queue[j][i]] = "waiting"
                 /\ IsNextKey(queue[j][i], j)
                 /\ \A m \in 1..Len(queue[j]) : queue[j][i] = queue[j][m] => i = m)'
    <3>1. CASE j # k
      BY <2>5, <2>6, <2>7, <2>8, <2>10, <3>1 DEF IInv, QueueInv
    <3>2. CASE j = k
      <4> DEFINE At(x) == IF x < n THEN x ELSE x + 1
      <4>1. \A x \in 1..Len(queue'[k]) : /\ At(x) \in 1..Len(queue[k]) /\ At(x) # n
                                         /\ queue'[k][x] = queue[k][At(x)]
        <5> TAKE x \in 1..Len(queue'[k])
        <5>1. CASE x < n
          BY <2>2, <2>4, <5>1
        <5>2. CASE ~(x < n)
          <6>1. At(x) = x + 1 /\ x \in 1..Len(queue[k]) - 1
            BY <2>4, <5>2
          <6>2. n <= x
            BY <2>2, <5>2, <6>1
          <6>3. queue'[k][x] = queue[k][x + 1]
            BY <2>4, <6>1, <6>2
          <6> QED
            BY <2>2, <6>1, <6>2, <6>3
        <5> QED
          BY <5>1, <5>2
      <4>2. \A x, y \in 1..Len(queue'[k]) : At(x) = At(y) => x = y
        BY <2>2, <2>4
      <4> HIDE DEF At
      <4>3. i \in 1..Len(queue'[k]) /\ At(i) \in 1..Len(queue[k])
        BY <2>10, <3>2, <4>1
      <4>4. /\ pc[queue[k][At(i)]] = "waiting" /\ IsNextKey(queue[k][At(i)], k)
            /\ \A m \in 1..Len(queue[k]) : queue[k][At(i)] = queue[k][m] => At(i) = m
        BY <4>3 DEF IInv, QueueInv
      <4>5. queue'[k][i] \in Tasks \ {t} /\ queue'[k][i] = queue[k][At(i)]
        BY <2>8, <4>1, <4>3
      <4>6. pc'[queue'[k][i]] = "waiting"
        BY <2>6, <4>4, <4>5
      <4>8. IsNextKey(queue[k][i], k)'
        <5>1. IsNextKey(queue[k][At(i)], k) /\ queue'[k][i] = queue[k][At(i)]
          BY <4>4, <4>5
        <5>2. need' = need /\ held' = held
          BY DEF Abort
        <5> QED
          BY <5>1, <5>2 DEF IsNextKey, Wanted
      <4>7. ASSUME NEW m \in 1..Len(queue'[k]), queue'[k][i] = queue'[k][m]
            PROVE  i = m
        BY <4>1, <4>2, <4>3, <4>4, <4>7
      <4> QED
        BY <3>2, <4>6, <4>7, <4>8
    <3> QED
      BY <3>1, <3>2
  <2> QED
    BY <1>1, <2>9, <2>10 DEF IInv, QueueInv
<1> QED
  BY <1>2, <1>3

(* The operation starts once every key is granted.                          *)
LEMMA EnterStep ==
  ASSUME IInv, NEW t \in Tasks, Enter(t)
  PROVE  IInv'
<1>1. \A k \in Keys : Readers(k)' = Readers(k) /\ Writers(k)' = Writers(k)
  BY DEF Enter, Readers, Writers
<1>2. TypeOK'
  BY DEF IInv, Enter, TypeOK, PC
<1>3. \A u \in Tasks : /\ pc'[u] = "idle" => pc[u] = "idle"
                       /\ pc[u] = "waiting" => pc'[u] = "waiting"
  BY DEF IInv, Enter, TypeOK
<1>4. HeldInv'
  BY <1>3 DEF IInv, Enter, HeldInv, Wanted
<1>5. \A k \in Keys : \A i \in 1..Len(queue[k]) : queue[k][i] \in Tasks
  BY ElementOfSeq DEF IInv, TypeOK
<1>6. QueueInv'
  BY <1>3, <1>5 DEF IInv, Enter, QueueInv, IsNextKey, Wanted
<1> QED
  BY <1>1, <1>2, <1>4, <1>6 DEF IInv, Enter, LockStateExact, Exclusion

(* The finally block: what becomes of the released keys.                    *)
LEMMA ReleaseStep ==
  ASSUME IInv, NEW t \in Tasks, ReleaseAll(t), pc[t] # "waiting"
  PROVE  IInv'
<1> DEFINE served(k) == IF Freed(t, k) THEN Served(k) ELSE {}
<1>1. \A k \in Keys :
        /\ readers'[k] = IF Freed(t, k) THEN Cardinality({u \in served(k) : need[u][k] = "read"})
                         ELSE IF k \in held[t] THEN readers[k] - 1 ELSE readers[k]
        /\ writer'[k] = IF Freed(t, k) THEN \E u \in served(k) : need[u][k] = "write"
                        ELSE writer[k]
        /\ queue'[k] = IF Freed(t, k) THEN SubSeq(queue[k], ServedCount(k) + 1, Len(queue[k]))
                       ELSE queue[k]
  BY DEF ReleaseAll
<1>2. \A u \in Tasks :
        /\ held'[u] = IF u = t THEN {} ELSE held[u] \cup {k \in Keys : u \in served(k)}
        /\ pc'[u] = IF u = t THEN "idle"
                    ELSE IF \E k \in Keys : u \in served(k) THEN "acquiring" ELSE pc[u]
  BY DEF ReleaseAll
<1>3. need' = [need EXCEPT ![t] = NoRequest] /\ aborted' = aborted
  BY DEF ReleaseAll
<1>4. \A k \in Keys : /\ served(k) \subseteq Tasks \ {t}
                      /\ \A u \in served(k) : pc[u] = "waiting" /\ IsNextKey(u, k)
  BY ServedPrefix
<1>5. \A u \in Tasks \ {t} : need'[u] = need[u]
  BY <1>3 DEF IInv, TypeOK
<1> HIDE DEF served
<1>6. \A k \in Keys, u \in Tasks :
        k \in held'[u] <=> u # t /\ (k \in held[u] \/ u \in served(k))
  BY <1>2
<1>7. \A k \in Keys : ~Freed(t, k) => served(k) = {}
  BY DEF served
<1>8. \A k \in Keys : k \in held[t] => need[t][k] \in Mode
  BY DEF IInv, TypeOK, HeldInv, Wanted, Mode
<1>9. ASSUME NEW k \in Keys
      PROVE  /\ readers'[k] = Cardinality(Readers(k)')
             /\ writer'[k] <=> Writers(k)' # {}
             /\ \A v \in Writers(k)' : \A u \in Tasks : k \in held'[u] => u = v
  <2>1. /\ Readers(k)' = {u \in Tasks \ {t} : (k \in held[u] \/ u \in served(k)) /\ need[u][k] = "read"}
        /\ Writers(k)' = {u \in Tasks \ {t} : (k \in held[u] \/ u \in served(k)) /\ need[u][k] = "write"}
    BY <1>5, <1>6 DEF Readers, Writers
  <2>2. /\ readers[k] = Cardinality(Readers(k))
        /\ writer[k] <=> Writers(k) # {}
        /\ \A v \in Writers(k) : \A u \in Tasks : k \in held[u] => u = v
        /\ IsFiniteSet(Readers(k))
    BY ReadersFinite DEF IInv, LockStateExact, Exclusion
  <2>3. CASE k \notin held[t]
    <3>1. ~Freed(t, k) /\ served(k) = {}
      BY <2>3, <1>7 DEF Freed
    <3>2. Readers(k)' = Readers(k) /\ Writers(k)' = Writers(k)
      BY <2>1, <2>3, <3>1 DEF Readers, Writers
    <3>3. readers'[k] = readers[k] /\ writer'[k] = writer[k]
      BY <1>1, <2>3, <3>1
    <3> QED
      BY <1>6, <2>2, <3>1, <3>2, <3>3
  <2>4. CASE k \in held[t] /\ ~Freed(t, k)
    <3>1. need[t][k] = "read" /\ served(k) = {} /\ t \in Readers(k)
      BY <1>7, <1>8, <2>4 DEF Freed, Mode, Readers
    <3>2. Writers(k) = {}
      BY <2>2, <2>4, <3>1 DEF Writers
    <3>3. Readers(k)' = Readers(k) \ {t} /\ Writers(k)' = {}
      <4>1. Readers(k)' = Readers(k) \ {t}
        BY <2>1, <3>1 DEF Readers
      <4>2. Writers(k)' = {}
        BY <2>1, <3>1, <3>2 DEF Writers
      <4> QED
        BY <4>1, <4>2
    <3>4. Cardinality(Readers(k) \ {t}) = readers[k] - 1
      <4>1. Cardinality(Readers(k) \ {t}) = Cardinality(Readers(k)) - 1
        BY <2>2, <3>1, FS_RemoveElement
      <4> QED
        BY <2>2, <4>1
    <3>5. readers'[k] = readers[k] - 1 /\ writer'[k] = writer[k]
      BY <1>1, <2>4
    <3> QED
      BY <2>2, <3>2, <3>3, <3>4, <3>5
  <2>5. CASE Freed(t, k)
    <3>1. \A u \in Tasks : k \in held[u] => u = t
      <4>1. CASE need[t][k] = "write"
        BY <2>2, <2>5, <4>1 DEF Freed, Writers
      <4>2. CASE need[t][k] # "write"
        <5>1. need[t][k] = "read" /\ t \in Readers(k) /\ readers[k] = 1
          BY <1>8, <2>5, <4>2 DEF Freed, Mode, Readers
        <5>2. PICK x : Readers(k) = {x}
          BY <2>2, <5>1, FS_Singleton
        <5>3. Readers(k) = {t}
          BY <5>1, <5>2
        <5>4. Writers(k) = {}
          BY <2>2, <2>5, <5>1 DEF Freed, Writers
        <5>5. \A u \in Tasks : k \in held[u] => need[u][k] \in Mode
          BY DEF IInv, TypeOK, HeldInv, Wanted, Mode
        <5> QED
          BY <5>3, <5>4, <5>5 DEF Mode, Readers, Writers
      <4> QED
        BY <4>1, <4>2
    <3>2. served(k) = Served(k)
      BY <2>5 DEF served
    <3>3. /\ Readers(k)' = {u \in served(k) : need[u][k] = "read"}
          /\ Writers(k)' = {u \in served(k) : need[u][k] = "write"}
      BY <1>4, <2>1, <3>1
    <3>4. /\ readers'[k] = Cardinality({u \in served(k) : need[u][k] = "read"})
          /\ writer'[k] <=> \E u \in served(k) : need[u][k] = "write"
      BY <1>1, <2>5
    <3>5. \A u \in Tasks : k \in held'[u] => u \in served(k)
      BY <1>6, <3>1
    <3>6. \A v \in Writers(k)' : \A u \in served(k) : u = v
      BY <3>2, <3>3, ServedPrefix
    <3> QED
      BY <3>3, <3>4, <3>5, <3>6
  <2> QED
    BY <2>3, <2>4, <2>5
<1>10. TypeOK'
  <2>1. ASSUME NEW k \in Keys
        PROVE  /\ readers'[k] \in Nat
               /\ writer'[k] \in BOOLEAN
               /\ queue'[k] \in Seq(Tasks)
    <3>1. IsFiniteSet(Readers(k)')
      BY TasksFinite, FS_Subset DEF Readers
    <3>2. readers'[k] \in Nat
      BY <1>9, <3>1, FS_CardinalityType
    <3>3. writer[k] \in BOOLEAN /\ queue[k] \in Seq(Tasks)
      BY DEF IInv, TypeOK
    <3>4. writer'[k] \in BOOLEAN
      BY <1>1, <3>3
    <3>5. queue'[k] \in Seq(Tasks)
      <4> DEFINE m == ServedCount(k) + 1
                 n == Len(queue[k])
      <4>1. m \in Int /\ n \in Int /\ \A i \in m..n : queue[k][i] \in Tasks
        BY <3>3, ServedPrefix, ElementOfSeq
      <4>2. SubSeq(queue[k], m, n) \in Seq(Tasks)
        BY <4>1, SubSeqProperties
      <4> QED
        BY <1>1, <3>3, <4>2
    <3> QED
      BY <3>2, <3>4, <3>5
  <2>2. readers' \in [Keys -> Nat] /\ writer' \in [Keys -> BOOLEAN] /\ queue' \in [Keys -> Seq(Tasks)]
    BY <2>1 DEF ReleaseAll
  <2>3. held' \in [Tasks -> SUBSET Keys]
    BY DEF ReleaseAll, IInv, TypeOK
  <2>4. pc' \in [Tasks -> PC]
    BY DEF ReleaseAll, IInv, TypeOK, PC
  <2>5. need' \in [Tasks -> [Keys -> Mode \cup {"none"}]]
    BY <1>3 DEF IInv, TypeOK, NoRequest
  <2> QED
    BY <1>3, <2>2, <2>3, <2>4, <2>5 DEF IInv, TypeOK
<1>11. HeldInv'
  <2> SUFFICES ASSUME NEW u \in Tasks
               PROVE  held'[u] \subseteq Wanted(u)' /\ (pc'[u] = "idle" => held'[u] = {})
    BY DEF HeldInv
  <2>1. CASE u = t
    BY <1>2, <2>1
  <2>2. CASE u # t
    <3>1. Wanted(u)' = Wanted(u)
      BY <1>5, <2>2 DEF Wanted
    <3>2. \A k \in Keys : u \in served(k) => k \in Wanted(u) /\ pc[u] = "waiting"
      BY <1>4 DEF IsNextKey
    <3>3. held[u] \subseteq Wanted(u) /\ (pc[u] = "idle" => held[u] = {})
      BY DEF IInv, HeldInv
    <3> QED
      BY <1>2, <2>2, <3>1, <3>2, <3>3
  <2> QED
    BY <2>1, <2>2
<1>12. QueueInv'
  <2> DEFINE off(k) == IF Freed(t, k) THEN ServedCount(k) ELSE 0
  <2>1. ASSUME NEW k \in Keys
        PROVE  /\ off(k) \in 0..Len(queue[k]) /\ Len(queue[k]) \in Nat
               /\ Len(queue'[k]) = Len(queue[k]) - off(k)
               /\ \A i \in 1..Len(queue[k]) - off(k) : queue'[k][i] = queue[k][off(k) + i]
    <3>1. /\ queue[k] \in Seq(Tasks) /\ Len(queue[k]) \in Nat
          /\ ServedCount(k) \in 0..Len(queue[k])
      BY ServedPrefix
    <3>2. CASE Freed(t, k)
      <4>1. queue'[k] = SubSeq(queue[k], ServedCount(k) + 1, Len(queue[k]))
        BY <1>1, <3>2
      <4>2. off(k) = ServedCount(k)
        BY <3>2
      <4> HIDE DEF off
      <4> QED
        BY <3>1, <4>1, <4>2
    <3>3. CASE ~Freed(t, k)
      <4>1. off(k) = 0 /\ queue'[k] = queue[k]
        BY <1>1, <3>3
      <4> HIDE DEF off
      <4> QED
        BY <3>1, <4>1
    <3> QED
      BY <3>2, <3>3
  <2>2. ASSUME NEW k \in Keys, NEW i \in 1..Len(queue[k]) - off(k)
        PROVE  /\ off(k) + i \in 1..Len(queue[k])
               /\ queue[k][off(k) + i] \in Tasks \ {t}
               /\ \A j \in Keys : queue[k][off(k) + i] \notin served(j)
    <3> DEFINE x == off(k) + i
               u == queue[k][x]
    <3>1. x \in 1..Len(queue[k])
      BY <2>1
    <3> HIDE DEF x
    <3>2. u \in Tasks /\ pc[u] = "waiting" /\ IsNextKey(u, k)
      BY <3>1, ElementOfSeq DEF IInv, TypeOK, QueueInv
    <3>3. ASSUME NEW j \in Keys, u \in served(j)
          PROVE  FALSE
      <4>1. IsNextKey(u, j)
        BY <1>4, <3>3
      <4>2. j = k
        BY <3>2, <4>1, KeysOrdered DEF IsNextKey, Wanted
      <4>3. Freed(t, k) /\ u \in Served(k)
        BY <3>3, <4>2 DEF served
      <4>4. PICK y \in 1..ServedCount(k) : queue[k][y] = u
        BY <4>3 DEF Served
      <4>5. y \in 1..Len(queue[k]) /\ y < x
        <5>1. off(k) = ServedCount(k) /\ ServedCount(k) \in 0..Len(queue[k]) /\ Len(queue[k]) \in Nat
          BY <4>3, ServedPrefix
        <5> HIDE DEF off
        <5> QED
          BY <5>1, <2>1 DEF x
      <4> QED
        BY <3>1, <4>4, <4>5 DEF IInv, QueueInv
    <3> QED
      BY <3>1, <3>2, <3>3 DEF x
  <2> HIDE DEF off
  <2>3. ASSUME NEW u \in Tasks \ {t}, \A j \in Keys : u \notin served(j)
        PROVE  pc'[u] = pc[u] /\ held'[u] = held[u] /\ need'[u] = need[u]
    BY <1>2, <1>5, <2>3
  <2> SUFFICES ASSUME NEW k \in Keys, NEW i \in 1..Len(queue'[k])
               PROVE  (/\ pc[queue[k][i]] = "waiting"
                       /\ IsNextKey(queue[k][i], k)
                       /\ \A j \in 1..Len(queue[k]) : queue[k][i] = queue[k][j] => i = j)'
    BY DEF QueueInv
  <2>4. i \in 1..Len(queue[k]) - off(k)
    BY <2>1
  <2> DEFINE u == queue[k][off(k) + i]
  <2>5. u = queue'[k][i] /\ u \in Tasks \ {t} /\ pc[u] = "waiting" /\ IsNextKey(u, k)
    BY <2>1, <2>2, <2>4 DEF IInv, QueueInv
  <2>6. pc'[u] = pc[u] /\ held'[u] = held[u] /\ need'[u] = need[u]
    BY <2>2, <2>3, <2>4
  <2>7. \A j \in 1..Len(queue'[k]) : queue'[k][i] = queue'[k][j] => i = j
    <3> SUFFICES ASSUME NEW j \in 1..Len(queue'[k]), queue'[k][i] = queue'[k][j]
                 PROVE  i = j
      OBVIOUS
    <3>1. j \in 1..Len(queue[k]) - off(k) /\ queue'[k][j] = queue[k][off(k) + j]
      BY <2>1
    <3>2. off(k) + i = off(k) + j
      BY <2>2, <2>4, <2>5, <3>1 DEF IInv, QueueInv
    <3> QED
      BY <2>1, <2>4, <3>1, <3>2
  <2>8. (IsNextKey(queue[k][i], k))'
    BY <2>5, <2>6 DEF IsNextKey, Wanted
  <2> QED
    BY <2>5, <2>6, <2>7, <2>8
<1> QED
  BY <1>9, <1>10, <1>11, <1>12 DEF IInv, LockStateExact, Exclusion
-----------------------------------------------------------------------------
(* IInv is inductive.                                                       *)
LEMMA InitIInv == Init => IInv
<1> SUFFICES ASSUME Init PROVE IInv
  OBVIOUS
<1>1. TypeOK
  BY EmptySeq DEF Init, TypeOK, NoRequest, PC
<1>2. \A k \in Keys : Readers(k) = {} /\ Writers(k) = {}
  BY DEF Init, Readers, Writers
<1>3. LockStateExact /\ Exclusion
  BY <1>2, FS_EmptySet DEF Init, LockStateExact, Exclusion
<1>4. QueueInv /\ HeldInv
  BY DEF Init, QueueInv, HeldInv
<1> QED
  BY <1>1, <1>3, <1>4 DEF IInv

(* Every step preserves IInv: one case for each action.                     *)
LEMMA NextIInv == IInv /\ [Next]_vars => IInv'
<1> SUFFICES ASSUME IInv, [Next]_vars PROVE IInv'
  OBVIOUS
<1>1. CASE UNCHANGED vars
  <2>1. \A k \in Keys : Readers(k)' = Readers(k) /\ Writers(k)' = Writers(k)
    BY <1>1 DEF vars, Readers, Writers
  <2> QED
    BY <1>1, <2>1 DEF vars, IInv, TypeOK, QueueInv, HeldInv, IsNextKey, Wanted,
                      LockStateExact, Exclusion
<1>2. CASE Next
  <2>1. PICK t \in Tasks :
          \/ Use(t)
          \/ \E k \in Keys : AcquireNow(t, k) \/ Enqueue(t, k)
          \/ Enter(t) \/ Finish(t) \/ ThrowIfAborted(t) \/ Unwind(t) \/ Abort(t)
    BY <1>2 DEF Next
  <2>2. Finish(t) \/ ThrowIfAborted(t) \/ Unwind(t) => ReleaseAll(t) /\ pc[t] # "waiting"
    BY DEF Finish, ThrowIfAborted, Unwind
  <2> QED
    BY <2>1, <2>2, UseStep, AcquireNowStep, EnqueueStep, EnterStep, ReleaseStep, AbortStep
<1> QED
  BY <1>1, <1>2

(* The lock state is always well formed.                                    *)
THEOREM TypeCorrect == Spec => []TypeOK
<1>1. IInv => TypeOK
  BY DEF IInv
<1> QED
  BY <1>1, InitIInv, NextIInv, PTL DEF Spec

(* Writers are alone, and the two numbers of a LockState count exactly the  *)
(* releases still owed, for any number of tasks, keys and request lists.    *)
THEOREM MutualExclusion == Spec => [](LockStateExact /\ Exclusion)
<1>1. IInv => LockStateExact /\ Exclusion
  BY DEF IInv
<1> QED
  BY <1>1, InitIInv, NextIInv, PTL DEF Spec

(* The lock state shows whether anybody holds the key.                      *)
LEMMA HolderVisible ==
  ASSUME IInv, NEW k \in Keys
  PROVE  (writer[k] \/ readers[k] > 0) <=> \E u \in Tasks : k \in held[u]
<1>1. \A u \in Tasks : k \in held[u] => u \in Readers(k) \cup Writers(k)
  BY DEF IInv, TypeOK, HeldInv, Wanted, Mode, Readers, Writers
<1>2. /\ IsFiniteSet(Readers(k)) /\ readers[k] = Cardinality(Readers(k))
      /\ readers[k] \in Nat /\ (writer[k] <=> Writers(k) # {})
  BY ReadersFinite DEF IInv, TypeOK, LockStateExact
<1>3. readers[k] > 0 <=> Readers(k) # {}
  BY <1>2, FS_EmptySet
<1> QED
  BY <1>1, <1>2, <1>3 DEF Readers, Writers

(* A queue becomes non-empty only behind a holder, and the release of the   *)
(* last holder drains it.                                                   *)
LEMMA NextNoLostWakeup == IInv /\ IInv' /\ NoLostWakeup /\ [Next]_vars => NoLostWakeup'
<1> SUFFICES ASSUME IInv, IInv', NoLostWakeup, [Next]_vars, NEW k \in Keys, queue'[k] # <<>>
             PROVE  writer'[k] \/ readers'[k] > 0
  BY DEF NoLostWakeup
<1>1. SUFFICES \E u \in Tasks : k \in held'[u]
  <2> SUFFICES ASSUME NEW u \in Tasks, k \in held'[u]
               PROVE  writer'[k] \/ readers'[k] > 0
    OBVIOUS
  <2>1. u \in Readers(k)' \/ u \in Writers(k)'
    BY DEF IInv, TypeOK, HeldInv, Wanted, Mode, Readers, Writers
  <2>2. IsFiniteSet(Readers(k)')
    BY TasksFinite, FS_Subset DEF Readers
  <2>3. /\ readers'[k] = Cardinality(Readers(k)') /\ readers'[k] \in Nat
        /\ writer'[k] <=> Writers(k)' # {}
    BY DEF IInv, TypeOK, LockStateExact
  <2> QED
    BY <2>1, <2>2, <2>3, FS_EmptySet
<1>2. queue[k] # <<>> => \E u \in Tasks : k \in held[u]
  BY HolderVisible DEF NoLostWakeup
<1>3. CASE UNCHANGED vars
  BY <1>2, <1>3 DEF vars
<1>4. ASSUME NEW t \in Tasks, Use(t) \/ Enter(t)
      PROVE  \E u \in Tasks : k \in held'[u]
  BY <1>2, <1>4 DEF Use, Enter
<1>5. ASSUME NEW t \in Tasks, NEW j \in Keys, AcquireNow(t, j)
      PROVE  \E u \in Tasks : k \in held'[u]
  BY <1>2, <1>5 DEF AcquireNow, IInv, TypeOK
<1>6. ASSUME NEW t \in Tasks, NEW j \in Keys, Enqueue(t, j)
      PROVE  \E u \in Tasks : k \in held'[u]
  <2>1. CASE j = k
    <3>1. writer[k] \/ queue[k] # <<>> \/ readers[k] # 0
      BY <1>6, <2>1 DEF Enqueue, canAcquireImmediately
    <3>2. readers[k] \in Nat
      BY DEF IInv, TypeOK
    <3>3. \E u \in Tasks : k \in held[u]
      BY <1>2, <3>1, <3>2, HolderVisible
    <3> QED
      BY <1>6, <3>3 DEF Enqueue
  <2>2. CASE j # k
    BY <1>2, <1>6, <2>2 DEF Enqueue, IInv, TypeOK
  <2> QED
    BY <2>1, <2>2
<1>7. ASSUME NEW t \in Tasks, Abort(t)
      PROVE  \E u \in Tasks : k \in held'[u]
  <2>1. queue[k] # <<>>
    <3>1. CASE UNCHANGED queue
      BY <3>1
    <3>2. CASE \E j \in Keys, i \in 1..Cardinality(Tasks) :
                 /\ i <= Len(queue[j]) /\ queue[j][i] = t
                 /\ queue' = [queue EXCEPT
                      ![j] = SubSeq(@, 1, i - 1) \o SubSeq(@, i + 1, Len(@))]
      <4>1. PICK j \in Keys, i \in 1..Cardinality(Tasks) :
                 /\ i <= Len(queue[j])
                 /\ queue' = [queue EXCEPT
                      ![j] = SubSeq(@, 1, i - 1) \o SubSeq(@, i + 1, Len(@))]
        BY <3>2
      <4>2. i \in Nat /\ i >= 1
        <5>1. Cardinality(Tasks) \in Nat
          BY TasksFinite, FS_CardinalityType
        <5> QED
          BY <5>1
      <4>3. queue[j] # <<>>
        BY <4>1, <4>2, EmptySeq
      <4> QED
        BY <4>1, <4>3 DEF IInv, TypeOK
    <3> QED
      BY <1>7, <3>1, <3>2 DEF Abort
  <2> QED
    BY <1>2, <1>7, <2>1 DEF Abort
<1>8. ASSUME NEW t \in Tasks, ReleaseAll(t), pc[t] # "waiting"
      PROVE  \E u \in Tasks : k \in held'[u]
  <2> DEFINE served(j) == IF Freed(t, j) THEN Served(j) ELSE {}
  <2>1. \A u \in Tasks : held'[u] = IF u = t THEN {} ELSE held[u] \cup {j \in Keys : u \in served(j)}
    BY <1>8 DEF ReleaseAll
  <2>2. CASE Freed(t, k)
    <3>1. queue'[k] = SubSeq(queue[k], ServedCount(k) + 1, Len(queue[k]))
      BY <1>8, <2>2 DEF ReleaseAll
    <3>2. queue[k] # <<>>
      <4> SUFFICES ASSUME queue[k] = <<>> PROVE FALSE
        OBVIOUS
      <4>1. ServedCount(k) = 0 /\ Len(queue[k]) = 0
        BY EmptySeq DEF ServedCount
      <4>2. SubSeq(queue[k], 1, 0) = <<>>
        BY SubSeqEmpty
      <4> QED
        BY <3>1, <4>1, <4>2
    <3>3. PICK u \in Served(k) : u \in Tasks /\ pc[u] = "waiting"
      BY <3>2, ServedPrefix
    <3> QED
      BY <1>8, <2>1, <2>2, <3>3
  <2>3. CASE k \in held[t] /\ ~Freed(t, k)
    <3>1. need[t][k] = "read" /\ readers[k] # 1
      BY <2>3 DEF Freed, IInv, TypeOK, HeldInv, Wanted, Mode
    <3>2. /\ IsFiniteSet(Readers(k)) /\ t \in Readers(k)
          /\ Cardinality(Readers(k)) # 1
      BY <2>3, <3>1, ReadersFinite DEF IInv, LockStateExact, Readers
    <3>3. PICK u \in Readers(k) : u # t
      BY <3>2, FS_Singleton
    <3> QED
      BY <2>1, <3>3 DEF Readers
  <2>4. CASE k \notin held[t]
    <3>1. queue'[k] = queue[k]
      BY <1>8, <2>4 DEF ReleaseAll, Freed
    <3> QED
      BY <1>2, <2>1, <2>4, <3>1
  <2> QED
    BY <2>2, <2>3, <2>4
<1>9. CASE Next
  <2>1. PICK t \in Tasks :
          \/ Use(t)
          \/ \E j \in Keys : AcquireNow(t, j) \/ Enqueue(t, j)
          \/ Enter(t) \/ Finish(t) \/ ThrowIfAborted(t) \/ Unwind(t) \/ Abort(t)
    BY <1>9 DEF Next
  <2>2. Finish(t) \/ ThrowIfAborted(t) \/ Unwind(t) => ReleaseAll(t) /\ pc[t] # "waiting"
    BY DEF Finish, ThrowIfAborted, Unwind
  <2> QED
    BY <2>1, <2>2, <1>4, <1>5, <1>6, <1>7, <1>8
<1> QED
  BY <1>3, <1>9

(* A queue is only ever non-empty behind a holder.                          *)
THEOREM LostWakeupFreedom == Spec => []NoLostWakeup
<1>1. Init => NoLostWakeup
  BY DEF Init, NoLostWakeup
<1> QED
  BY <1>1, NextNoLostWakeup, InitIInv, NextIInv, PTL DEF Spec

(* Who gains a key while t is queued for it, and stays queued, was in front *)
(* of t: acquire() takes a key only when nobody waits for it, and drain()   *)
(* takes from the front.                                                    *)
LEMMA NextFirstComeFirstServed ==
  ASSUME IInv, IInv', [Next]_vars, NEW k \in Keys, NEW t \in Tasks, NEW u \in Tasks,
         InQueue(t, k), InQueue(t, k)', k \notin held[u], k \in held'[u]
  PROVE  AheadOf(u, t, k)
<1>1. queue[k] \in Seq(Tasks) /\ Len(queue[k]) \in Nat /\ DOMAIN queue[k] = 1..Len(queue[k])
  BY LenProperties DEF IInv, TypeOK
<1>2. PICK x \in DOMAIN queue'[k] : queue'[k][x] = t
  BY DEF InQueue
<1>3. queue[k] # <<>>
  BY <1>1, EmptySeq DEF InQueue
<1>4. ASSUME NEW v \in Tasks, ReleaseAll(v)
      PROVE  AheadOf(u, t, k)
  <2> DEFINE served == IF Freed(v, k) THEN Served(k) ELSE {}
  <2>1. k \in held'[u] => u # v /\ (k \in held[u] \/ u \in served)
    BY <1>4 DEF ReleaseAll
  <2>2. Freed(v, k) /\ u \in Served(k)
    BY <2>1
  <2>3. queue'[k] = SubSeq(queue[k], ServedCount(k) + 1, Len(queue[k]))
    BY <1>4, <2>2 DEF ReleaseAll
  <2>4. ServedCount(k) \in 0..Len(queue[k])
    BY ServedPrefix
  <2> DEFINE n == ServedCount(k)
             rest == SubSeq(queue[k], n + 1, Len(queue[k]))
  <2>5. n \in Nat /\ n <= Len(queue[k])
    BY <1>1, <2>4
  <2> HIDE DEF n
  <2>6. /\ rest \in Seq(Tasks) /\ Len(rest) = Len(queue[k]) - n
        /\ \A i \in 1..Len(queue[k]) - n : rest[i] = queue[k][n + i]
    <3>1. \A i \in n + 1..Len(queue[k]) : queue[k][i] \in Tasks
      BY <1>1, <2>5, ElementOfSeq
    <3>2. /\ rest \in Seq(Tasks)
          /\ Len(rest) = IF n + 1 <= Len(queue[k]) THEN Len(queue[k]) - (n + 1) + 1 ELSE 0
          /\ \A i \in 1..Len(queue[k]) - (n + 1) + 1 : rest[i] = queue[k][(n + 1) + i - 1]
      BY <1>1, <2>5, <3>1, SubSeqProperties
    <3>3. Len(rest) = Len(queue[k]) - n
      BY <1>1, <2>5, <3>2
    <3>4. ASSUME NEW i \in 1..Len(queue[k]) - n PROVE rest[i] = queue[k][n + i]
      <4>1. i \in 1..Len(queue[k]) - (n + 1) + 1 /\ (n + 1) + i - 1 = n + i
        BY <1>1, <2>5
      <4> QED
        BY <3>2, <4>1
    <3> QED
      BY <3>2, <3>3, <3>4
  <2>7. x \in 1..Len(queue[k]) - n /\ queue[k][n + x] = t
    <3>1. queue'[k] = rest
      BY <2>3 DEF n
    <3>2. DOMAIN rest = 1..Len(rest)
      BY <2>6, LenProperties
    <3> QED
      BY <1>2, <2>6, <3>1, <3>2
  <2>8. PICK y \in 1..n : queue[k][y] = u
    BY <2>2 DEF Served, n
  <2>9. y \in DOMAIN queue[k] /\ n + x \in DOMAIN queue[k] /\ y < n + x
    BY <1>1, <2>5, <2>7
  <2> QED
    BY <2>7, <2>8, <2>9 DEF AheadOf
<1>5. CASE UNCHANGED vars
  BY <1>5 DEF vars
<1>6. ASSUME NEW v \in Tasks, NEW j \in Keys, AcquireNow(v, j)
      PROVE  FALSE
  <2>1. u = v /\ k = j
    BY <1>6 DEF AcquireNow, IInv, TypeOK
  <2> QED
    BY <1>3, <1>6, <2>1 DEF AcquireNow, canAcquireImmediately
<1>7. CASE Next
  <2>1. PICK v \in Tasks :
          \/ Use(v)
          \/ \E j \in Keys : AcquireNow(v, j) \/ Enqueue(v, j)
          \/ Enter(v) \/ Finish(v) \/ ThrowIfAborted(v) \/ Unwind(v) \/ Abort(v)
    BY <1>7 DEF Next
  <2>2. Finish(v) \/ ThrowIfAborted(v) \/ Unwind(v) => ReleaseAll(v)
    BY DEF Finish, ThrowIfAborted, Unwind
  <2>3. ~(Use(v) \/ Enter(v) \/ Abort(v) \/ \E j \in Keys : Enqueue(v, j))
    BY DEF Use, Enter, Abort, Enqueue
  <2> QED
    BY <2>1, <2>2, <2>3, <1>4, <1>6
<1> QED
  BY <1>5, <1>7

(* Readers that keep arriving cannot starve a writer: each key is granted   *)
(* in the order of its queue.                                               *)
THEOREM InQueueOrder == Spec => FirstComeFirstServed
<1>1. IInv /\ IInv' /\ [Next]_vars
        => [\A k \in Keys, t, u \in Tasks :
              /\ InQueue(t, k) /\ InQueue(t, k)'
              /\ k \notin held[u] /\ k \in held'[u]
              => AheadOf(u, t, k)]_vars
  BY NextFirstComeFirstServed
<1> QED
  BY <1>1, InitIInv, NextIInv, PTL DEF Spec, FirstComeFirstServed

(* Every step of the locks is a step of the lease table.                    *)
LEMMA NextImplementsStep == IInv /\ IInv' /\ [Next]_vars => [Lease!Step]_holds
<1> SUFFICES ASSUME IInv, IInv', [Next]_vars PROVE [Lease!Step]_holds
  OBVIOUS
<1>1. holds' \in [Tasks -> SUBSET Claims]
  <2>1. \A t \in Tasks, k \in Keys : k \in held'[t] => need'[t][k] \in Mode
    BY DEF IInv, TypeOK, HeldInv, Wanted, Mode
  <2> QED
    BY <2>1 DEF IInv, TypeOK, holds, Claims
<1>2. Lease!Compatible(holds')
  <2> SUFFICES ASSUME NEW t \in Tasks, NEW u \in Tasks, t # u,
                      NEW c \in holds'[t], NEW d \in holds'[u], <<c, d>> \in Conflicts
               PROVE  FALSE
    BY DEF Lease!Compatible
  <2>1. PICK k \in held'[t] : c = [key |-> k, mode |-> need'[t][k]]
    BY DEF holds
  <2>2. PICK j \in held'[u] : d = [key |-> j, mode |-> need'[u][j]]
    BY DEF holds
  <2>3. k = j /\ k \in Keys /\ (need'[t][k] = "write" \/ need'[u][k] = "write")
    BY <2>1, <2>2 DEF Conflicts, IInv, TypeOK
  <2> QED
    BY <2>1, <2>2, <2>3 DEF IInv, Exclusion, Writers
<1>3. ASSUME NEW t \in Tasks
      PROVE  holds[t] \subseteq holds'[t] \/ holds'[t] = {}
  <2>1. holds'[t] = {[key |-> k, mode |-> need'[t][k]] : k \in held'[t]}
    BY DEF holds
  <2>2. holds[t] = {[key |-> k, mode |-> need[t][k]] : k \in held[t]}
    BY DEF holds
  <2>3. \/ held'[t] = {} \/ held[t] = {}
        \/ held[t] \subseteq held'[t] /\ need'[t] = need[t]
    <3>1. CASE UNCHANGED vars
      BY <3>1 DEF vars
    <3>2. CASE Next
      <4>1. PICK u \in Tasks :
              \/ Use(u)
              \/ \E k \in Keys : AcquireNow(u, k) \/ Enqueue(u, k)
              \/ Enter(u) \/ Finish(u) \/ ThrowIfAborted(u) \/ Unwind(u) \/ Abort(u)
        BY <3>2 DEF Next
      <4>2. CASE Use(u)
        BY <4>2 DEF Use, IInv, TypeOK, HeldInv
      <4>3. CASE \E k \in Keys : AcquireNow(u, k) \/ Enqueue(u, k)
        <5>1. PICK k \in Keys : AcquireNow(u, k) \/ Enqueue(u, k)
          BY <4>3
        <5>2. need' = need /\ (held' = held \/ held' = [held EXCEPT ![u] = @ \cup {k}])
          BY <5>1 DEF AcquireNow, Enqueue
        <5>3. held \in [Tasks -> SUBSET Keys]
          BY DEF IInv, TypeOK
        <5> QED
          BY <5>2, <5>3
      <4>4. CASE Enter(u) \/ Abort(u)
        BY <4>4 DEF Enter, Abort
      <4>5. CASE Finish(u) \/ ThrowIfAborted(u) \/ Unwind(u)
        <5>1. ReleaseAll(u)
          BY <4>5 DEF Finish, ThrowIfAborted, Unwind
        <5> QED
          BY <5>1 DEF ReleaseAll, IInv, TypeOK
      <4> QED
        BY <4>1, <4>2, <4>3, <4>4, <4>5
    <3> QED
      BY <3>1, <3>2
  <2> QED
    BY <2>1, <2>2, <2>3
<1> QED
  BY <1>1, <1>2, <1>3 DEF Lease!Step

(* The locks are a strict two-phase lock table: LeaseTable with the held    *)
(* keys as claims.                                                          *)
THEOREM ImplementsLeaseTable == Spec => TwoPhase
<1>1. Init => Lease!Init
  BY DEF Init, Lease!Init, holds
<1> QED
  BY <1>1, NextImplementsStep, InitIInv, NextIInv, PTL DEF Spec, TwoPhase, Lease!Spec
=============================================================================
