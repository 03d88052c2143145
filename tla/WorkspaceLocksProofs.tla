------------------------- MODULE WorkspaceLocksProofs -------------------------
(***************************************************************************)
(* WorkspaceLocks for every set of tasks, paths and request lists: leases  *)
(* never conflict, the head of the queue is always blocked by a lease, and *)
(* the class implements the lease table.  The drain is the heart: it must  *)
(* re-establish both, whatever the release or the abort before it left.    *)
(***************************************************************************)
EXTENDS WorkspaceLocks, SequencesExt, FiniteSetTheorems, SequenceTheorems, FunctionTheorems,
        WellFoundedInduction, TLAPS

IInv == TypeOK /\ QueueExact /\ Exclusion /\ HeadBlocked

Clash(t, u) == workspaceRequestsConflict(need[t], need[u])

-----------------------------------------------------------------------------
(* Every nonempty set of positions has a first one.                         *)
LEMMA FirstPosition ==
  ASSUME NEW S \in SUBSET Nat, S # {}
  PROVE  \E i \in S : \A j \in S : i <= j
<1>1. PICK i \in S : \A j \in S : <<j, i>> \notin OpToRel(<, Nat)
  BY NatLessThanWellFounded, WFMin
<1>2. \A j \in S : ~ (j < i)
  BY <1>1 DEF OpToRel
<1> QED
  BY <1>2

-----------------------------------------------------------------------------
(* A request conflicts with another exactly when the other conflicts with   *)
(* it, because paths overlap symmetrically.                                 *)
LEMMA ClashSymmetric ==
  ASSUME NEW t, NEW u, Clash(t, u)
  PROVE  Clash(u, t)
<1>1. PICK pq \in Overlap :
        /\ need[t][pq[1]] # "none" /\ need[u][pq[2]] # "none"
        /\ need[t][pq[1]] = "write" \/ need[u][pq[2]] = "write"
  BY DEF Clash, workspaceRequestsConflict
<1>2. <<pq[2], pq[1]>> \in Overlap
  BY OverlapSymmetric
<1> QED
  BY <1>1, <1>2 DEF Clash, workspaceRequestsConflict

(* The loop of drainWorkspaceWaiters() stops somewhere.                      *)
LEMMA ServedCountExists ==
  ASSUME NEW q \in Seq(Tasks), NEW leases
  PROVE  /\ ServedCount(q, leases) \in 0..Len(q)
         /\ CanServe(q, leases, ServedCount(q, leases))
         /\ ServedCount(q, leases) < Len(q)
              => ~CanServe(q, leases, ServedCount(q, leases) + 1)
<1> DEFINE Stops(n) == /\ CanServe(q, leases, n)
                       /\ n < Len(q) => ~CanServe(q, leases, n + 1)
           B == {i \in 1..Len(q) : ~CanServe(q, leases, i)}
<1>1. Len(q) \in Nat
  BY LenProperties
<1>2. CanServe(q, leases, 0)
  BY DEF CanServe
<1>3. \E n \in 0..Len(q) : Stops(n)
  <2>1. CASE B = {}
    <3>1. CanServe(q, leases, Len(q))
      <4>1. CASE Len(q) = 0
        BY <1>2, <4>1
      <4>2. CASE Len(q) # 0
        BY <1>1, <2>1, <4>2
      <4> QED
        BY <4>1, <4>2
    <3> QED
      BY <1>1, <3>1
  <2>2. CASE B # {}
    <3>1. B \in SUBSET Nat
      BY <1>1
    <3>2. PICK b \in B : \A j \in B : b <= j
      <4> HIDE DEF B
      <4> QED
        BY <2>2, <3>1, FirstPosition
    <3>3. b \in 1..Len(q) /\ ~CanServe(q, leases, b)
      BY <3>2
    <3>4. CanServe(q, leases, b - 1)
      <4>1. CASE b = 1
        BY <1>2, <4>1
      <4>2. CASE b # 1
        <5>1. b - 1 \in 1..Len(q) /\ ~(b <= b - 1)
          BY <1>1, <3>3, <4>2
        <5>2. b - 1 \notin B
          BY <3>2, <5>1
        <5> QED
          BY <5>1, <5>2
      <4> QED
        BY <4>1, <4>2
    <3>5. (b - 1) + 1 = b /\ b - 1 \in 0..Len(q)
      BY <1>1, <3>3
    <3>6. Stops(b - 1)
      BY <3>3, <3>4, <3>5
    <3> HIDE DEF Stops
    <3> QED
      BY <3>5, <3>6
  <2> QED
    BY <2>1, <2>2
<1>4. ServedCount(q, leases) = CHOOSE n \in 0..Len(q) : Stops(n)
  BY DEF ServedCount
<1> HIDE DEF Stops
<1>5. ServedCount(q, leases) \in 0..Len(q) /\ Stops(ServedCount(q, leases))
  BY <1>3, <1>4
<1> QED
  BY <1>5 DEF Stops

(* Whatever the queue q and the leases that start a drain: afterwards the    *)
(* leases are compatible, the head is blocked, and the tasks are split       *)
(* between leases and queue as they were.                                    *)
LEMMA DrainCorrect ==
  ASSUME NEW q \in Seq(Tasks), NEW leases \in SUBSET Tasks,
         \A t, u \in leases : t # u => ~Clash(t, u),
         \A i \in 1..Len(q) : q[i] \notin leases,
         \A i, j \in 1..Len(q) : q[i] = q[j] => i = j,
         Drain(q, leases)
  PROVE  /\ leases \subseteq active' /\ active' \subseteq Tasks
         /\ \A t \in active' : t \in leases \/ (~Rejects(t) /\ \E i \in 1..Len(q) : q[i] = t)
         /\ \A t, u \in active' : t # u => ~Clash(t, u)
         /\ waiters' \in Seq(Tasks)
         /\ \A i \in 1..Len(waiters') : \E j \in 1..Len(q) : waiters'[i] = q[j]
         /\ \A i \in 1..Len(waiters') : waiters'[i] \notin active'
         /\ \A i, j \in 1..Len(waiters') : waiters'[i] = waiters'[j] => i = j
         /\ waiters' # <<>> => \E t \in active' : Clash(t, waiters'[1])
<1> DEFINE n == ServedCount(q, leases)
<1>1. /\ Len(q) \in Nat
      /\ \A i \in 1..Len(q) : q[i] \in Tasks
  BY LenProperties, ElementOfSeq
<1>2. n \in 0..Len(q) /\ CanServe(q, leases, n) /\ (n < Len(q) => ~CanServe(q, leases, n + 1))
  BY ServedCountExists
<1>3. active' = leases \cup Served(q, n) /\ waiters' = SubSeq(q, n + 1, Len(q))
  BY DEF Drain
<1> HIDE DEF n
<1>15. /\ \A i \in 1..n : i \in 1..Len(q)
       /\ \A m, t : t \in Served(q, m) <=> \E i \in 1..m : ~Rejects(q[i]) /\ t = q[i]
  BY <1>1, <1>2 DEF Served
<1>4. /\ waiters' \in Seq(Tasks)
      /\ Len(waiters') = Len(q) - n
      /\ \A i \in 1..(Len(q) - n) : waiters'[i] = q[n + i]
  <2>1. n + 1 \in Int /\ Len(q) \in Int /\ \A i \in (n + 1)..Len(q) : q[i] \in Tasks
    BY <1>1, <1>2
  <2>2. /\ SubSeq(q, n + 1, Len(q)) \in Seq(Tasks)
        /\ Len(SubSeq(q, n + 1, Len(q))) = IF n + 1 <= Len(q) THEN Len(q) - (n + 1) + 1 ELSE 0
        /\ \A i \in 1..(Len(q) - (n + 1) + 1) : SubSeq(q, n + 1, Len(q))[i] = q[(n + 1) + i - 1]
    BY <2>1, SubSeqProperties
  <2>3. Len(q) - (n + 1) + 1 = Len(q) - n
    BY <1>1, <1>2
  <2>4. \A i \in 1..(Len(q) - n) : (n + 1) + i - 1 = n + i
    BY <1>1, <1>2
  <2> DEFINE w == SubSeq(q, n + 1, Len(q))
  <2>5. w \in Seq(Tasks)
    BY <2>2
  <2>6. Len(w) = Len(q) - n
    BY <1>1, <1>2, <2>2
  <2>7. \A i \in 1..(Len(q) - n) : w[i] = q[n + i]
    <3> HIDE DEF w
    <3>1. \A i \in 1..(Len(q) - n) : w[i] = q[(n + 1) + i - 1]
      BY <2>2, <2>3 DEF w
    <3> QED
      BY <2>4, <3>1
  <2>8. waiters' = w
    BY <1>3
  <2> HIDE DEF w
  <2> QED
    BY <2>5, <2>6, <2>7, <2>8
<1>5. \A i \in 1..n, t \in leases : ~Rejects(q[i]) => ~Clash(t, q[i])
  BY <1>1, <1>2 DEF CanServe, canActivate, Clash
<1>6. \A i \in 1..n : \A j \in 1..(i - 1) : ~Rejects(q[i]) /\ ~Rejects(q[j]) => ~Clash(q[j], q[i])
  BY <1>1, <1>2, <1>15 DEF CanServe, canActivate, Clash
<1>7. \A t, u \in active' : t # u => ~Clash(t, u)
  <2> SUFFICES ASSUME NEW t \in active', NEW u \in active', t # u, Clash(t, u)
               PROVE  FALSE
    OBVIOUS
  <2>0. Clash(u, t)
    BY ClashSymmetric
  <2>1. CASE t \in leases /\ u \in leases
    BY <2>1
  <2>2. CASE t \in leases /\ u \notin leases
    BY <1>3, <1>5, <1>15, <2>2
  <2>3. CASE t \notin leases /\ u \in leases
    BY <1>3, <1>5, <1>15, <2>0, <2>3
  <2>4. CASE t \notin leases /\ u \notin leases
    <3>1. PICK i \in 1..n, j \in 1..n : t = q[i] /\ u = q[j] /\ ~Rejects(q[i]) /\ ~Rejects(q[j])
      BY <1>3, <1>15, <2>4
    <3>2. i # j
      BY <3>1
    <3>3. i \in 1..(j - 1) \/ j \in 1..(i - 1)
      BY <1>1, <1>2, <3>2
    <3> QED
      BY <1>6, <2>0, <3>1, <3>3
  <2> QED
    BY <2>1, <2>2, <2>3, <2>4
<1>8. waiters' # <<>> => \E t \in active' : Clash(t, waiters'[1])
  <2> SUFFICES ASSUME waiters' # <<>>
               PROVE  \E t \in active' : Clash(t, waiters'[1])
    OBVIOUS
  <2>1. n < Len(q)
    BY <1>1, <1>2, <1>4, EmptySeq
  <2>2. PICK i \in 1..(n + 1) : /\ ~Rejects(q[i])
                                /\ ~canActivate(need[q[i]], leases \cup Served(q, i - 1))
    BY <1>2, <2>1 DEF CanServe
  <2>3. i = n + 1
    <3>1. i \notin 1..n
      BY <1>2, <2>2 DEF CanServe
    <3> QED
      BY <1>1, <1>2, <3>1
  <2>4. leases \cup Served(q, i - 1) = active'
    <3>1. i - 1 = n
      BY <1>1, <1>2, <2>3
    <3> QED
      BY <1>3, <3>1
  <2>5. waiters'[1] = q[n + 1]
    BY <1>1, <1>2, <1>4, <2>1
  <2> QED
    BY <2>2, <2>3, <2>4, <2>5 DEF canActivate, Clash
<1>9. \A i \in 1..Len(waiters') : waiters'[i] \notin active'
  <2> SUFFICES ASSUME NEW i \in 1..Len(waiters'), waiters'[i] \in active'
               PROVE  FALSE
    OBVIOUS
  <2>1. n + i \in 1..Len(q) /\ waiters'[i] = q[n + i]
    BY <1>1, <1>2, <1>4
  <2>2. PICK j \in 1..n : q[n + i] = q[j]
    BY <1>3, <1>15, <2>1
  <2>3. j \in 1..Len(q) /\ j # n + i
    BY <1>1, <1>2, <1>4
  <2> QED
    BY <2>1, <2>2, <2>3
<1>10. \A i, j \in 1..Len(waiters') : waiters'[i] = waiters'[j] => i = j
  <2> SUFFICES ASSUME NEW i \in 1..Len(waiters'), NEW j \in 1..Len(waiters'),
                      waiters'[i] = waiters'[j]
               PROVE  i = j
    OBVIOUS
  <2>1. n + i \in 1..Len(q) /\ n + j \in 1..Len(q) /\ q[n + i] = q[n + j]
    BY <1>1, <1>2, <1>4
  <2>2. n + i = n + j
    BY <2>1
  <2> QED
    BY <1>1, <1>2, <1>4, <2>2
<1>11. \A i \in 1..Len(waiters') : \E j \in 1..Len(q) : waiters'[i] = q[j]
  <2> TAKE i \in 1..Len(waiters')
  <2>1. n + i \in 1..Len(q) /\ waiters'[i] = q[n + i]
    BY <1>1, <1>2, <1>4
  <2> QED
    BY <2>1
<1>13. leases \subseteq active' /\ active' \subseteq Tasks
  BY <1>1, <1>3, <1>15
<1>14. \A t \in active' : t \in leases \/ (~Rejects(t) /\ \E i \in 1..Len(q) : q[i] = t)
  BY <1>3, <1>15
<1> QED
  BY <1>4, <1>7, <1>8, <1>9, <1>10, <1>11, <1>13, <1>14

(* A drain leaves a good state when it starts from compatible leases, and    *)
(* gives none to a task whose signal has fired.                              *)
LEMMA AfterDrain ==
  ASSUME TypeOK,
         NEW q \in Seq(Tasks), NEW leases \in SUBSET Tasks,
         \A t, u \in leases : t # u => ~Clash(t, u),
         \A i \in 1..Len(q) : q[i] \notin leases,
         \A i, j \in 1..Len(q) : q[i] = q[j] => i = j,
         Drain(q, leases), Forgets, fired' = fired
  PROVE  /\ IInv' /\ \A t \in active' : need'[t] = need[t]
         /\ \A t \in active' : t \in leases \/ ~Aborted(t)'
<1>1. /\ leases \subseteq active' /\ active' \subseteq Tasks
      /\ \A t \in active' : t \in leases \/ (~Rejects(t) /\ \E i \in 1..Len(q) : q[i] = t)
      /\ \A t, u \in active' : t # u => ~Clash(t, u)
      /\ waiters' \in Seq(Tasks)
      /\ \A i \in 1..Len(waiters') : \E j \in 1..Len(q) : waiters'[i] = q[j]
      /\ \A i \in 1..Len(waiters') : waiters'[i] \notin active'
      /\ \A i, j \in 1..Len(waiters') : waiters'[i] = waiters'[j] => i = j
      /\ waiters' # <<>> => \E t \in active' : Clash(t, waiters'[1])
  BY DrainCorrect
<1>4. /\ Len(waiters') \in Nat /\ DOMAIN waiters' = 1..Len(waiters')
      /\ \A i \in 1..Len(waiters') : waiters'[i] \in Tasks
  BY <1>1, LenProperties, ElementOfSeq
<1>2. \A t \in active' : need'[t] = need[t]
  BY <1>1 DEF Forgets, Idle
<1>3. \A i \in 1..Len(waiters') : need'[waiters'[i]] = need[waiters'[i]]
  BY <1>4 DEF Forgets, Idle, Waiting
<1>5. TypeOK'
  BY <1>1 DEF TypeOK, Forgets, NoRequest
<1>6. QueueExact'
  BY <1>1, <1>4 DEF QueueExact
<1>7. Exclusion'
  BY <1>1, <1>2 DEF Exclusion, Clash
<1>8. HeadBlocked'
  <2> SUFFICES ASSUME waiters' # <<>> PROVE ~canActivate(need[waiters[1]], active)'
    BY DEF HeadBlocked
  <2>1. 1 \in 1..Len(waiters')
    BY <1>1, <1>4, EmptySeq
  <2>2. PICK t \in active' : Clash(t, waiters'[1])
    BY <1>1
  <2>3. workspaceRequestsConflict(need'[t], need'[waiters'[1]])
    BY <1>2, <1>3, <2>1, <2>2 DEF Clash
  <2> QED
    BY <2>3 DEF canActivate
<1>9. \A t \in active' : t \in leases \/ ~Aborted(t)'
  BY <1>1 DEF Rejects, Aborted
<1> QED
  BY <1>2, <1>5, <1>6, <1>7, <1>8, <1>9 DEF IInv

(* acquire() grants only what conflicts with no lease, and queues at the end. *)
LEMMA AcquireStep ==
  ASSUME IInv, NEW t \in Tasks, NEW requests \in RequestLists, Acquire(t, requests)
  PROVE  IInv'
<1> DEFINE request == normalizeWorkspaceRequests(requests)
<1>1. request \in [Paths -> Mode \cup {"none"}]
  BY DEF normalizeWorkspaceRequests, Mode
<1> HIDE DEF request
<1>2. /\ need' = [need EXCEPT ![t] = request] /\ fired' = fired
      /\ Idle(t) /\ ~Aborted(t) /\ ~Dispatching
      /\ IF waiters = <<>> /\ canActivate(request, active)
         THEN active' = active \cup {t} /\ waiters' = waiters
         ELSE waiters' = Append(waiters, t) /\ active' = active
  BY DEF Acquire, request
<1>3. need'[t] = request /\ \A u \in Tasks : u # t => need'[u] = need[u]
  BY <1>2 DEF IInv, TypeOK
<1>4. need' \in [Tasks -> [Paths -> Mode \cup {"none"}]]
  BY <1>1, <1>2 DEF IInv, TypeOK
<1>5. waiters \in Seq(Tasks) /\ Len(waiters) \in Nat /\ DOMAIN waiters = 1..Len(waiters)
  BY LenProperties DEF IInv, TypeOK
<1>6. t \notin active /\ \A i \in 1..Len(waiters) : waiters[i] # t
  BY <1>2, <1>5 DEF Idle, Waiting
<1>7. \A i \in 1..Len(waiters) : waiters[i] \in Tasks
  BY <1>5, ElementOfSeq
<1>8. CASE waiters = <<>> /\ canActivate(request, active)
  <2>1. active' = active \cup {t} /\ waiters' = <<>>
    BY <1>2, <1>8
  <2>2. TypeOK'
    BY <1>2, <1>4, <2>1 DEF IInv, TypeOK
  <2>3. QueueExact' /\ HeadBlocked'
    BY <2>1, EmptySeq DEF QueueExact, HeadBlocked
  <2>4. Exclusion'
    <3> SUFFICES ASSUME NEW u \in active', NEW v \in active', u # v,
                        workspaceRequestsConflict(need'[u], need'[v])
                 PROVE  FALSE
      BY DEF Exclusion
    <3>1. \A w \in active : w \in Tasks /\ w # t /\ need'[w] = need[w]
      BY <1>3, <1>6 DEF IInv, TypeOK
    <3>2. \A w \in active : ~workspaceRequestsConflict(need'[w], request)
      BY <1>8, <3>1 DEF canActivate
    <3>3. \A w \in active : ~workspaceRequestsConflict(request, need'[w])
      <4> SUFFICES ASSUME NEW w \in active, workspaceRequestsConflict(request, need'[w])
                   PROVE  FALSE
        OBVIOUS
      <4>1. PICK pq \in Overlap : /\ request[pq[1]] # "none" /\ need'[w][pq[2]] # "none"
                                  /\ request[pq[1]] = "write" \/ need'[w][pq[2]] = "write"
        BY DEF workspaceRequestsConflict
      <4>2. <<pq[2], pq[1]>> \in Overlap
        BY OverlapSymmetric
      <4>3. workspaceRequestsConflict(need'[w], request)
        BY <4>1, <4>2 DEF workspaceRequestsConflict
      <4> QED
        BY <3>2, <4>3
    <3> QED
      BY <1>3, <2>1, <3>1, <3>2, <3>3 DEF IInv, Exclusion
  <2> QED
    BY <2>2, <2>3, <2>4 DEF IInv
<1>9. CASE ~(waiters = <<>> /\ canActivate(request, active))
  <2>1. /\ waiters' = Append(waiters, t) /\ active' = active
        /\ waiters' \in Seq(Tasks) /\ Len(waiters') = Len(waiters) + 1
        /\ \A i \in 1..Len(waiters) : waiters'[i] = waiters[i]
        /\ waiters'[Len(waiters) + 1] = t
    BY <1>2, <1>5, <1>9, AppendProperties
  <2>2. TypeOK'
    BY <1>2, <1>4, <2>1 DEF IInv, TypeOK
  <2>3. DOMAIN waiters' = 1..(Len(waiters) + 1)
    BY <2>1, LenProperties
  <2>4. QueueExact'
    <3>1. \A i \in 1..Len(waiters) : /\ waiters[i] \notin active
                                     /\ \A j \in 1..Len(waiters) : waiters[i] = waiters[j] => i = j
      BY <1>5 DEF IInv, QueueExact
    <3>2. \A i \in 1..(Len(waiters) + 1) : i \in 1..Len(waiters) \/ i = Len(waiters) + 1
      BY <1>5
    <3>3. ASSUME NEW i \in 1..(Len(waiters) + 1), NEW j \in 1..(Len(waiters) + 1),
                 waiters'[i] = waiters'[j]
          PROVE  i = j
      BY <1>6, <2>1, <3>1, <3>2, <3>3
    <3>4. \A i \in 1..(Len(waiters) + 1) : waiters'[i] \notin active
      BY <1>2, <1>6, <2>1, <3>1, <3>2
    <3> QED
      BY <1>2, <2>1, <2>3, <3>3, <3>4 DEF QueueExact
  <2>5. Exclusion'
    BY <1>3, <1>6, <2>1 DEF IInv, TypeOK, Exclusion
  <2>6. HeadBlocked'
    <3>1. \A w \in active : need'[w] = need[w]
      BY <1>3, <1>6 DEF IInv, TypeOK
    <3>2. CASE waiters = <<>>
      <4>1. waiters'[1] = t /\ ~canActivate(request, active)
        BY <1>9, <2>1, <3>2, EmptySeq
      <4> QED
        BY <1>3, <2>1, <3>1, <4>1 DEF HeadBlocked, canActivate
    <3>3. CASE waiters # <<>>
      <4>1. 1 \in 1..Len(waiters)
        BY <1>5, <3>3, EmptySeq
      <4>2. waiters'[1] = waiters[1] /\ need'[waiters[1]] = need[waiters[1]]
        BY <1>3, <1>6, <1>7, <2>1, <4>1
      <4>3. ~canActivate(need[waiters[1]], active)
        BY <1>2, <1>5, <3>3, <4>1 DEF IInv, HeadBlocked, Dispatching
      <4> QED
        BY <2>1, <3>1, <4>2, <4>3 DEF HeadBlocked, canActivate
    <3> QED
      BY <3>2, <3>3
  <2> QED
    BY <2>2, <2>4, <2>5, <2>6 DEF IInv
<1> QED
  BY <1>8, <1>9

(* A release drains the queue next to the leases that stay.                  *)
LEMMA FinishStep ==
  ASSUME IInv, NEW t \in Tasks, Finish(t)
  PROVE  /\ IInv' /\ \A u \in active' : need'[u] = need[u]
         /\ \A u \in active' : u \in active \/ ~Aborted(u)'
<1>1. waiters \in Seq(Tasks) /\ DOMAIN waiters = 1..Len(waiters)
  BY LenProperties DEF IInv, TypeOK
<1>2. /\ active \ {t} \in SUBSET Tasks
      /\ \A u, v \in active \ {t} : u # v => ~Clash(u, v)
  BY DEF IInv, TypeOK, Exclusion, Clash
<1>3. \A i \in 1..Len(waiters) : waiters[i] \notin active \ {t}
  BY <1>1 DEF IInv, QueueExact
<1>4. \A i, j \in 1..Len(waiters) : waiters[i] = waiters[j] => i = j
  BY <1>1 DEF IInv, QueueExact
<1>5. Drain(waiters, active \ {t}) /\ Forgets /\ fired' = fired
  BY DEF Finish
<1> QED
  BY <1>1, <1>2, <1>3, <1>4, <1>5, AfterDrain DEF IInv

(* What is left of the queue when one waiter has gone, in the old order.     *)
LEMMA RemoveOne ==
  ASSUME NEW q \in Seq(Tasks), NEW i \in 1..Len(q)
  PROVE  /\ RemoveAt(q, i) \in Seq(Tasks)
         /\ Len(RemoveAt(q, i)) = Len(q) - 1
         /\ \A k \in 1..(Len(q) - 1) : RemoveAt(q, i)[k] = q[IF k < i THEN k ELSE k + 1]
<1> DEFINE a == SubSeq(q, 1, i - 1)
           b == SubSeq(q, i + 1, Len(q))
<1>1. Len(q) \in Nat /\ i \in Nat /\ \A k \in 1..Len(q) : q[k] \in Tasks
  BY LenProperties, ElementOfSeq
<1>2. /\ a \in Seq(Tasks) /\ Len(a) = i - 1
      /\ \A k \in 1..(i - 1) : a[k] = q[k]
  BY <1>1, SubSeqProperties
<1>3. /\ b \in Seq(Tasks) /\ Len(b) = Len(q) - i
      /\ \A k \in 1..(Len(q) - i) : b[k] = q[i + k]
  <2>1. /\ b \in Seq(Tasks)
        /\ Len(b) = IF i + 1 <= Len(q) THEN Len(q) - (i + 1) + 1 ELSE 0
        /\ \A k \in 1..(Len(q) - (i + 1) + 1) : b[k] = q[(i + 1) + k - 1]
    BY <1>1, SubSeqProperties
  <2> HIDE DEF b
  <2>2. Len(q) - (i + 1) + 1 = Len(q) - i
    BY <1>1
  <2>3. Len(b) = Len(q) - i
    BY <1>1, <2>1
  <2>4. ASSUME NEW k \in 1..(Len(q) - i) PROVE b[k] = q[i + k]
    <3>1. b[k] = q[(i + 1) + k - 1]
      BY <2>1, <2>2
    <3>2. (i + 1) + k - 1 = i + k
      BY <1>1
    <3> QED
      BY <3>1, <3>2
  <2> QED
    BY <2>1, <2>3, <2>4
<1> HIDE DEF a, b
<1>4. /\ a \o b \in Seq(Tasks) /\ Len(a \o b) = Len(a) + Len(b)
      /\ \A k \in 1..(Len(a) + Len(b)) : (a \o b)[k] = IF k <= Len(a) THEN a[k] ELSE b[k - Len(a)]
  BY <1>2, <1>3, ConcatProperties
<1>5. ASSUME NEW k \in 1..(Len(q) - 1)
      PROVE  (a \o b)[k] = q[IF k < i THEN k ELSE k + 1]
  <2>1. CASE k < i
    BY <1>1, <1>2, <1>3, <1>4, <2>1
  <2>2. CASE ~(k < i)
    <3>1. k - Len(a) \in 1..(Len(q) - i) /\ i + (k - Len(a)) = k + 1 /\ ~(k <= Len(a))
      BY <1>1, <1>2, <2>2
    <3>2. k \in 1..(Len(a) + Len(b))
      BY <1>1, <1>2, <1>3
    <3>3. (a \o b)[k] = q[k + 1]
      BY <1>3, <1>4, <3>1, <3>2
    <3>4. (IF k < i THEN k ELSE k + 1) = k + 1
      BY <2>2
    <3> QED
      BY <3>3, <3>4
  <2> QED
    BY <2>1, <2>2
<1>6. RemoveAt(q, i) = a \o b
  BY DEF RemoveAt, a, b
<1>7. a \o b \in Seq(Tasks) /\ Len(a \o b) = Len(q) - 1
  BY <1>1, <1>2, <1>3, <1>4
<1> QED
  BY <1>5, <1>6, <1>7

(* A listener drains what remains of the queue.                              *)
LEMMA OnAbortStep ==
  ASSUME IInv, NEW i \in DOMAIN waiters, onAbort(i)
  PROVE  /\ IInv' /\ \A u \in active' : need'[u] = need[u]
         /\ \A u \in active' : u \in active \/ ~Aborted(u)'
<1> DEFINE q == RemoveAt(waiters, i)
<1>1. waiters \in Seq(Tasks) /\ Len(waiters) \in Nat /\ DOMAIN waiters = 1..Len(waiters)
  BY LenProperties DEF IInv, TypeOK
<1>2. /\ q \in Seq(Tasks) /\ Len(q) = Len(waiters) - 1
      /\ \A k \in 1..Len(q) : q[k] = waiters[IF k < i THEN k ELSE k + 1]
  BY <1>1, RemoveOne
<1>3. Drain(q, active) /\ Forgets /\ fired' = fired
  BY DEF onAbort
<1> HIDE DEF q
<1>4. \A k \in 1..Len(q) : k \in Nat /\ (IF k < i THEN k ELSE k + 1) \in 1..Len(waiters)
  BY <1>1, <1>2
<1>5. \A k \in 1..Len(q) : q[k] \notin active
  BY <1>1, <1>2, <1>4 DEF IInv, QueueExact
<1>6. ASSUME NEW j \in 1..Len(q), NEW k \in 1..Len(q), q[j] = q[k] PROVE j = k
  <2> DEFINE at(m) == IF m < i THEN m ELSE m + 1
  <2>1. q[j] = waiters[at(j)] /\ q[k] = waiters[at(k)]
    BY <1>2
  <2>2. at(j) \in 1..Len(waiters) /\ at(k) \in 1..Len(waiters)
    BY <1>4
  <2>3. at(j) = at(k)
    <3> HIDE DEF at
    <3> QED
      BY <1>1, <1>6, <2>1, <2>2 DEF IInv, QueueExact
  <2> QED
    BY <1>1, <1>4, <2>3
<1>7. active \in SUBSET Tasks /\ \A u, v \in active : u # v => ~Clash(u, v)
  BY DEF IInv, TypeOK, Exclusion, Clash
<1> QED
  BY <1>2, <1>3, <1>5, <1>6, <1>7, AfterDrain DEF IInv

(* A signal that fires leaves the tables as they are.                        *)
LEMMA AbortStep ==
  ASSUME IInv, NEW s \in Signals, Abort(s)
  PROVE  IInv'
<1>1. UNCHANGED <<active, waiters, need>> /\ fired' = fired \cup {s}
  BY DEF Abort
<1>2. TypeOK' /\ QueueExact' /\ Exclusion'
  BY <1>1 DEF IInv, TypeOK, QueueExact, Exclusion
<1>3. HeadBlocked'
  BY <1>1 DEF IInv, HeadBlocked, Aborted, canActivate
<1> QED
  BY <1>2, <1>3 DEF IInv

(* IInv holds at the start and every step preserves it.                      *)
LEMMA Inductive == /\ Init => IInv
                   /\ IInv /\ [Next]_vars => IInv'
<1>1. Init => IInv
  BY EmptySeq DEF Init, IInv, TypeOK, QueueExact, Exclusion, HeadBlocked, NoRequest
<1>2. IInv /\ UNCHANGED vars => IInv'
  BY DEF vars, IInv, TypeOK, QueueExact, Exclusion, HeadBlocked, Aborted, canActivate
<1>3. IInv /\ Next => IInv'
  BY AcquireStep, FinishStep, AbortStep, OnAbortStep DEF Next
<1> QED
  BY <1>1, <1>2, <1>3

(* The tables of the class stay well formed for any number of callers.       *)
THEOREM TypeCorrect == Spec => []TypeOK
BY Inductive, PTL DEF Spec, IInv

(* Leases never conflict, for every overlap relation between paths: two      *)
(* agents never work in overlapping directories when one of them writes.     *)
THEOREM WorkspaceExclusion == Spec => [](QueueExact /\ Exclusion)
<1>1. IInv => QueueExact /\ Exclusion
  BY DEF IInv
<1> QED
  BY <1>1, Inductive, PTL DEF Spec

(* The head of the queue always waits for an active lease, whatever releases *)
(* and aborts came before.                                                   *)
THEOREM LostWakeupFreedom == Spec => []HeadBlocked
<1>1. IInv => HeadBlocked
  BY DEF IInv
<1> QED
  BY <1>1, Inductive, PTL DEF Spec

(* What a drain serves was in front of what it leaves waiting.               *)
LEMMA DrainInOrder ==
  ASSUME NEW q \in Seq(Tasks), NEW leases \in SUBSET Tasks, Drain(q, leases),
         NEW u \in active', u \notin leases,
         NEW k \in 1..Len(waiters')
  PROVE  \E i, j \in 1..Len(q) : i < j /\ q[i] = u /\ q[j] = waiters'[k]
<1> DEFINE n == ServedCount(q, leases)
<1>1. Len(q) \in Nat /\ \A i \in 1..Len(q) : q[i] \in Tasks
  BY LenProperties, ElementOfSeq
<1>2. n \in 0..Len(q)
  BY ServedCountExists
<1>3. active' = leases \cup Served(q, n) /\ waiters' = SubSeq(q, n + 1, Len(q))
  BY DEF Drain
<1> HIDE DEF n
<1>4. n + 1 \in Int /\ Len(q) \in Int /\ \A i \in (n + 1)..Len(q) : q[i] \in Tasks
  BY <1>1, <1>2
<1>5. /\ Len(SubSeq(q, n + 1, Len(q))) = IF n + 1 <= Len(q) THEN Len(q) - (n + 1) + 1 ELSE 0
      /\ \A i \in 1..(Len(q) - (n + 1) + 1) : SubSeq(q, n + 1, Len(q))[i] = q[(n + 1) + i - 1]
  BY <1>4, SubSeqProperties
<1>6. Len(q) - (n + 1) + 1 = Len(q) - n /\ (n + 1) + k - 1 = n + k
  BY <1>1, <1>2
<1>7. k \in 1..(Len(q) - n) /\ n + k \in 1..Len(q)
  BY <1>1, <1>2, <1>3, <1>5, <1>6
<1>8. q[n + k] = waiters'[k]
  BY <1>3, <1>5, <1>6, <1>7
<1>9. PICK i \in 1..n : q[i] = u
  BY <1>3 DEF Served
<1> QED
  BY <1>1, <1>2, <1>7, <1>8, <1>9

(* No step lets a newcomer, or a later waiter, pass an earlier one.          *)
LEMMA NextFirstComeFirstServed ==
  ASSUME IInv, IInv', [Next]_vars, NEW t \in Tasks, NEW u \in Tasks,
         Waiting(t), Waiting(t)', u \notin active, u \in active'
  PROVE  \E i, j \in DOMAIN waiters : i < j /\ waiters[i] = u /\ waiters[j] = t
<1>1. /\ waiters \in Seq(Tasks) /\ Len(waiters) \in Nat /\ DOMAIN waiters = 1..Len(waiters)
      /\ active \in SUBSET Tasks
      /\ waiters' \in Seq(Tasks) /\ DOMAIN waiters' = 1..Len(waiters')
  BY LenProperties DEF IInv, TypeOK
<1>2. PICK k \in 1..Len(waiters') : waiters'[k] = t
  BY <1>1 DEF Waiting
<1>3. Next
  BY DEF vars
<1>4. CASE \E v \in Tasks, requests \in RequestLists : Acquire(v, requests)
  <2>1. PICK v \in Tasks, requests \in RequestLists : Acquire(v, requests)
    BY <1>4
  <2>2. active' = active \/ waiters = <<>>
    BY <2>1 DEF Acquire
  <2> QED
    BY <1>1, <2>2, EmptySeq DEF Waiting
<1>5. CASE \E v \in Tasks : Finish(v)
  <2>1. PICK v \in Tasks : Finish(v)
    BY <1>5
  <2>2. Drain(waiters, active \ {v}) /\ u \notin active \ {v} /\ active \ {v} \in SUBSET Tasks
    BY <1>1, <2>1 DEF Finish
  <2>3. u \in active'
    OBVIOUS
  <2>4. \E i, j \in 1..Len(waiters) : i < j /\ waiters[i] = u /\ waiters[j] = waiters'[k]
    BY <1>1, <2>2, <2>3, DrainInOrder
  <2> QED
    BY <1>1, <1>2, <2>4
<1>6. CASE \E i \in DOMAIN waiters : onAbort(i)
  <2>1. PICK i \in DOMAIN waiters : onAbort(i)
    BY <1>6
  <2> DEFINE q == RemoveAt(waiters, i)
             at(m) == IF m < i THEN m ELSE m + 1
  <2>2. /\ q \in Seq(Tasks) /\ Len(q) = Len(waiters) - 1
        /\ \A m \in 1..Len(q) : q[m] = waiters[at(m)]
    BY <1>1, RemoveOne
  <2>3. Drain(q, active)
    BY <2>1 DEF onAbort
  <2> HIDE DEF q
  <2>4. PICK j \in 1..Len(q), m \in 1..Len(q) : j < m /\ q[j] = u /\ q[m] = t
    <3>1. u \in active' /\ u \notin active
      OBVIOUS
    <3>2. q \in Seq(Tasks)
      BY <2>2
    <3>3. \E j, m \in 1..Len(q) : j < m /\ q[j] = u /\ q[m] = waiters'[k]
      BY ONLY <1>1, <3>1, <3>2, <2>3, k \in 1..Len(waiters'), DrainInOrder
    <3> QED
      BY <1>2, <3>3
  <2>5. at(j) \in DOMAIN waiters /\ at(m) \in DOMAIN waiters /\ at(j) < at(m)
    BY <1>1, <2>2, <2>4
  <2> QED
    BY <2>2, <2>4, <2>5
<1>7. CASE \E s \in Signals : Abort(s)
  BY <1>7 DEF Abort
<1> QED
  BY <1>3, <1>4, <1>5, <1>6, <1>7 DEF Next

(* No drain gives a lease to a waiter whose signal has fired.                *)
LEMMA NextNoLease ==
  ASSUME IInv, [Next]_vars, NEW t \in Tasks, t \notin active, t \in active'
  PROVE  ~Aborted(t)'
<1>1. Next
  BY DEF vars
<1>2. CASE \E v \in Tasks, requests \in RequestLists : Acquire(v, requests)
  BY <1>2 DEF Acquire, Aborted
<1>3. CASE \E v \in Tasks : Finish(v)
  BY <1>3, FinishStep
<1>4. CASE \E i \in DOMAIN waiters : onAbort(i)
  BY <1>4, OnAbortStep
<1>5. CASE \E s \in Signals : Abort(s)
  BY <1>5 DEF Abort
<1> QED
  BY <1>1, <1>2, <1>3, <1>4, <1>5 DEF Next

(* Whichever listener drains the queue first, an aborted waiter gets nothing *)
(* of it.                                                                    *)
THEOREM AbortedGetNothing == Spec => NoLeaseForTheAborted
<1>1. IInv /\ [Next]_vars
        => [\A t \in Tasks : t \notin active /\ t \in active' => ~Aborted(t)']_vars
  BY NextNoLease
<1> QED
  BY <1>1, Inductive, PTL DEF Spec, NoLeaseForTheAborted

(* Leases are granted in the order of the queue.                             *)
THEOREM InOrder == Spec => FirstComeFirstServed
<1>1. IInv /\ IInv' /\ [Next]_vars
        => [\A t, u \in Tasks :
              /\ Waiting(t) /\ Waiting(t)'
              /\ u \notin active /\ u \in active'
              => \E i, j \in DOMAIN waiters :
                   i < j /\ waiters[i] = u /\ waiters[j] = t]_vars
  BY NextFirstComeFirstServed
<1> QED
  BY <1>1, Inductive, PTL DEF Spec, FirstComeFirstServed

(* Every step of the class is a step of the lease table.                     *)
LEMMA NextImplementsStep == IInv /\ IInv' /\ [Next]_vars => [Lease!Step]_holds
<1> SUFFICES ASSUME IInv, IInv', [Next]_vars PROVE [Lease!Step]_holds
  OBVIOUS
<1>1. holds' \in [Tasks -> SUBSET Claims]
  BY DEF holds
<1>2. Lease!Compatible(holds')
  <2> SUFFICES ASSUME NEW t \in Tasks, NEW u \in Tasks, t # u,
                      NEW c \in holds'[t], NEW d \in holds'[u], <<c, d>> \in Conflicts
               PROVE  FALSE
    BY DEF Lease!Compatible
  <2>1. t \in active' /\ c \in Claims /\ need'[t][c.path] = c.mode
    BY DEF holds
  <2>2. u \in active' /\ d \in Claims /\ need'[u][d.path] = d.mode
    BY DEF holds
  <2>3. <<c.path, d.path>> \in Overlap /\ (c.mode = "write" \/ d.mode = "write")
    BY DEF Conflicts
  <2>4. c.mode # "none" /\ d.mode # "none"
    BY <2>1, <2>2 DEF Claims, Mode
  <2>5. workspaceRequestsConflict(need'[t], need'[u])
    BY <2>1, <2>2, <2>3, <2>4 DEF workspaceRequestsConflict
  <2> QED
    BY <2>1, <2>2, <2>5 DEF IInv, Exclusion
<1>3. ASSUME NEW t \in Tasks
      PROVE  holds[t] \subseteq holds'[t] \/ holds'[t] = {}
  <2>1. t \notin active => holds[t] = {}
    BY DEF holds
  <2>2. t \notin active' => holds'[t] = {}
    BY DEF holds
  <2>3. t \in active /\ t \in active' /\ need'[t] = need[t] => holds'[t] = holds[t]
    BY DEF holds
  <2>4. t \in active /\ t \in active' => need'[t] = need[t]
    <3> SUFFICES ASSUME t \in active, t \in active', Next PROVE need'[t] = need[t]
      BY DEF vars
    <3>1. CASE \E v \in Tasks, requests \in RequestLists : Acquire(v, requests)
      BY <3>1 DEF Acquire, Idle, IInv, TypeOK
    <3>2. CASE \E v \in Tasks : Finish(v)
      BY <3>2, FinishStep
    <3>3. CASE \E i \in DOMAIN waiters : onAbort(i)
      BY <3>3, OnAbortStep
    <3>4. CASE \E s \in Signals : Abort(s)
      BY <3>4 DEF Abort
    <3> QED
      BY <3>1, <3>2, <3>3, <3>4 DEF Next
  <2> QED
    BY <2>1, <2>2, <2>3, <2>4
<1> QED
  BY <1>1, <1>2, <1>3 DEF Lease!Step

(* The class is a strict two-phase lock table on workspace paths.            *)
THEOREM ImplementsLeaseTable == Spec => TwoPhase
<1>1. Init => Lease!Init
  BY DEF Init, Lease!Init, holds
<1> QED
  BY <1>1, NextImplementsStep, Inductive, PTL DEF Spec, TwoPhase, Lease!Spec
=============================================================================
