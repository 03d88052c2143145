-------------------------- MODULE ExternalLeaseProofs --------------------------
(***************************************************************************)
(* PermitsExact of ExternalLease, for any number of agents, permits and    *)
(* host calls, whatever calls whom.  That an idle executor owns a permit   *)
(* is not inductive: it rests on the bookkeeping of the chain (every call  *)
(* counted in suspended is inside the VM or has its "leave" queued) and on *)
(* who can be in the queue (an opening lease, or one whose chain is at its *)
(* "regain").  An open lease has no close() in its chain.                  *)
(***************************************************************************)
EXTENDS ExternalLease, SequencesExt, FiniteSetTheorems, SequenceTheorems, FunctionTheorems,
        WellFoundedInduction, TLAPS

\* The positions of x in a queue.
Positions(q, x) == {i \in 1..Len(q) : q[i] = x}

\* How often x is in a queue.
Count(q, x) == Cardinality(Positions(q, x))

\* Who is in a queue.
Members(q) == {q[i] : i \in 1..Len(q)}

\* Nobody is in the queue twice.
NoRepeats(q) == \A i, j \in 1..Len(q) : q[i] = q[j] => i = j

\* A waiter owns nothing, has no call in the VM and can still use a permit.
WaiterExact(b) ==
  /\ b \notin holding /\ b \notin closed /\ b \notin aborted
  /\ suspended[b] = 0
  /\ lease[b] = "opening" \/ (Running(b) /\ Next1(b, "regain"))

QueueInv == /\ NoRepeats(waiters)
            /\ \A b \in Members(waiters) : WaiterExact(b)

\* runAgent has not opened b's lease, or it never will.
Unused(b) == lease[b] \in {"none", "opening"} \/ (lease[b] = "over" /\ b \notin closed)

LeaseExact(b) ==
  /\ suspended[b] = inside[b] + Count(chain[b], "leave")
  /\ Unused(b) => chain[b] = <<>> /\ inside[b] = 0 /\ b \notin holding /\ b \notin closed
  /\ Running(b) /\ b \notin closed /\ b \notin aborted /\ suspended[b] = 0
     /\ ~Next1(b, "regain") => b \in holding
  /\ suspended[b] > 0 \/ b \in closed => b \notin holding
  /\ lease[b] = "open" => b \notin closed /\ "close" \notin Members(chain[b])

PermitInv == /\ active = Cardinality(holding) /\ active <= Limit
             /\ waiters # <<>> => active = Limit

IInv == TypeOK /\ QueueInv /\ (\A b \in Agents : LeaseExact(b)) /\ PermitInv

-----------------------------------------------------------------------------
(* Every nonempty set of positions has a first one.                         *)
LEMMA FirstPosition ==
  ASSUME NEW S \in SUBSET Nat, S # {}
  PROVE  \E i \in S : \A j \in S : i <= j
<1>1. PICK i \in S : \A j \in S : <<j, i>> \notin OpToRel(<, Nat)
  BY NatLessThanWellFounded, WFMin
<1>2. \A j \in S : ~ (j < i)
  BY <1>1 DEF OpToRel
<1> QED
  BY <1>2

(* What splice(index, 1) leaves of a queue.                                 *)
LEMMA SpliceOne ==
  ASSUME NEW S, NEW q \in Seq(S), NEW n \in 1..Len(q)
  PROVE  LET r == SubSeq(q, 1, n - 1) \o SubSeq(q, n + 1, Len(q))
         IN  /\ r \in Seq(S)
             /\ Len(r) = Len(q) - 1
             /\ \A i \in 1..Len(q) - 1 : i < n => r[i] = q[i]
             /\ \A i \in 1..Len(q) - 1 : n <= i => r[i] = q[i + 1]
<1> DEFINE front == SubSeq(q, 1, n - 1)
           back == SubSeq(q, n + 1, Len(q))
           r == front \o back
<1>1. Len(q) \in Nat /\ n \in Nat
  BY LenProperties
<1>2. /\ front \in Seq(S) /\ Len(front) = n - 1
      /\ \A i \in 1..n - 1 : front[i] = q[i]
  BY <1>1, ElementOfSeq
<1>3. /\ back \in Seq(S) /\ Len(back) = Len(q) - n
      /\ \A i \in 1..Len(q) - n : back[i] = q[n + i]
  BY <1>1, ElementOfSeq
<1> HIDE DEF front, back
<1>4. /\ r \in Seq(S) /\ Len(r) = Len(front) + Len(back)
      /\ \A i \in 1..Len(front) + Len(back) :
           r[i] = IF i <= Len(front) THEN front[i] ELSE back[i - Len(front)]
  BY <1>2, <1>3, ConcatProperties
<1> HIDE DEF r
<1>5. Len(r) = Len(q) - 1
  BY <1>1, <1>2, <1>3, <1>4
<1>6. ASSUME NEW i \in 1..Len(q) - 1, i < n
      PROVE  r[i] = q[i]
  <2>1. i \in 1..n - 1
    BY <1>1, <1>6
  <2>2. i \in 1..Len(front) + Len(back) /\ i <= Len(front)
    BY <1>1, <1>2, <1>3, <2>1
  <2>3. r[i] = front[i]
    BY <1>4, <2>2
  <2> QED
    BY <1>2, <2>1, <2>3
<1>7. ASSUME NEW i \in 1..Len(q) - 1, n <= i
      PROVE  r[i] = q[i + 1]
  <2> DEFINE m == i - (n - 1)
  <2>1. m \in 1..Len(q) - n /\ n + m = i + 1
    BY <1>1, <1>7
  <2>2. /\ i \in 1..Len(front) + Len(back) /\ ~ (i <= Len(front))
        /\ i - Len(front) = m
    BY <1>1, <1>2, <1>3, <1>7
  <2> HIDE DEF m
  <2>3. r[i] = back[m]
    BY <1>4, <2>2
  <2>4. back[m] = q[n + m]
    BY <1>3, <2>1
  <2> QED
    BY <2>1, <2>3, <2>4
<1> QED
  BY <1>4, <1>5, <1>6, <1>7 DEF r, front, back

(* The members of a queue are what it is a queue of.                        *)
LEMMA MembersType ==
  ASSUME NEW S, NEW q \in Seq(S)
  PROVE  Members(q) \subseteq S /\ (Members(q) = {} <=> q = <<>>)
<1>1. \A i \in 1..Len(q) : q[i] \in S
  BY ElementOfSeq
<1>2. q # <<>> => 1 \in 1..Len(q)
  BY EmptySeq, LenProperties
<1>3. q = <<>> => 1..Len(q) = {}
  BY EmptySeq
<1> QED
  BY <1>1, <1>2, <1>3 DEF Members

(* The queue nobody is in.                                                  *)
LEMMA EmptyQueue == Members(<<>>) = {} /\ NoRepeats(<<>>) /\ \A S : <<>> \in Seq(S)
BY EmptySeq DEF Members, NoRepeats

(* push(): the queue keeps what it had, and who was not in it is in it once. *)
LEMMA AppendKeeps ==
  ASSUME NEW S, NEW q \in Seq(S), NEW x \in S
  PROVE  /\ Append(q, x) \in Seq(S) /\ Append(q, x) # <<>>
         /\ Len(Append(q, x)) = Len(q) + 1
         /\ \A i \in 1..Len(q) : Append(q, x)[i] = q[i]
         /\ Append(q, x)[Len(q) + 1] = x
         /\ Members(Append(q, x)) = Members(q) \cup {x}
         /\ Head(Append(q, x)) = IF q = <<>> THEN x ELSE Head(q)
         /\ NoRepeats(q) /\ x \notin Members(q) => NoRepeats(Append(q, x))
<1> DEFINE r == Append(q, x)
<1>1. /\ r \in Seq(S) /\ Len(q) \in Nat /\ Len(r) = Len(q) + 1
      /\ \A i \in 1..Len(q) : r[i] = q[i]
      /\ r[Len(q) + 1] = x
  BY AppendProperties, LenProperties
<1>2. q # <<>> => Len(q) > 0
  BY EmptySeq, LenProperties
<1>3. r # <<>> /\ Head(r) = r[1]
  <2>1. Len(r) # 0
    BY <1>1
  <2>2. r # <<>>
    BY <2>1, EmptySeq
  <2> QED
    BY <1>1, <2>2, HeadTailProperties
<1>4. q # <<>> => Head(q) = q[1]
  BY HeadTailProperties
<1>5. q = <<>> => Len(q) = 0
  BY EmptySeq
<1> HIDE DEF r
<1>6. \A i \in 1..Len(r) : i \in 1..Len(q) \/ i = Len(q) + 1
  BY <1>1
<1>7. Members(r) = Members(q) \cup {x}
  <2>1. 1..Len(r) = (1..Len(q)) \cup {Len(q) + 1}
    BY <1>1
  <2> QED
    BY <1>1, <2>1 DEF Members
<1>8. ASSUME NoRepeats(q), x \notin Members(q)
      PROVE  NoRepeats(r)
  <2>1. \A i \in 1..Len(q) : r[i] # x
    BY <1>1, <1>8 DEF Members
  <2> QED
    BY <1>1, <1>6, <1>8, <2>1 DEF NoRepeats
<1> QED
  BY <1>1, <1>2, <1>3, <1>4, <1>5, <1>7, <1>8 DEF r

(* shift(): the first one leaves, and is not in the queue any more.         *)
LEMMA TailKeeps ==
  ASSUME NEW S, NEW q \in Seq(S), q # <<>>
  PROVE  /\ Tail(q) \in Seq(S) /\ Head(q) \in S /\ Head(q) = q[1]
         /\ Len(q) \in Nat /\ Len(q) >= 1
         /\ Len(Tail(q)) = Len(q) - 1
         /\ \A i \in 1..Len(q) - 1 : Tail(q)[i] = q[i + 1]
         /\ Members(q) = Members(Tail(q)) \cup {Head(q)}
         /\ NoRepeats(q) => NoRepeats(Tail(q)) /\ Head(q) \notin Members(Tail(q))
<1>1. /\ Head(q) \in S /\ Tail(q) \in Seq(S) /\ Len(Tail(q)) = Len(q) - 1
      /\ \A i \in 1..Len(Tail(q)) : Tail(q)[i] = q[i + 1]
  BY HeadTailProperties
<1>2. Len(q) \in Nat /\ Len(q) >= 1
  BY EmptySeq, LenProperties
<1>3. Head(q) = q[1]
  BY HeadTailProperties
<1>4. \A i \in 1..Len(q) - 1 : Tail(q)[i] = q[i + 1] /\ i + 1 \in 1..Len(q)
  BY <1>1, <1>2
<1>5. Members(q) = Members(Tail(q)) \cup {Head(q)}
  <2>1. ASSUME NEW j \in 1..Len(q)
        PROVE  q[j] = Head(q) \/ q[j] \in Members(Tail(q))
    <3>1. CASE j = 1
      BY <1>3, <3>1
    <3>2. CASE j # 1
      <4>1. j - 1 \in 1..Len(Tail(q)) /\ Tail(q)[j - 1] = q[j]
        BY <1>1, <1>2, <3>2
      <4> QED
        BY <4>1 DEF Members
    <3> QED
      BY <3>1, <3>2
  <2>2. \A i \in 1..Len(Tail(q)) : Tail(q)[i] \in Members(q)
    BY <1>1, <1>4 DEF Members
  <2>3. Head(q) \in Members(q)
    BY <1>2, <1>3 DEF Members
  <2> QED
    BY <2>1, <2>2, <2>3 DEF Members
<1>6. ASSUME NoRepeats(q)
      PROVE  NoRepeats(Tail(q)) /\ Head(q) \notin Members(Tail(q))
  <2>1. \A i \in 1..Len(q) - 1 : q[i + 1] # q[1]
    BY <1>2, <1>6 DEF NoRepeats
  <2>2. ASSUME NEW i \in 1..Len(Tail(q)), NEW j \in 1..Len(Tail(q)), Tail(q)[i] = Tail(q)[j]
        PROVE  i = j
    <3>1. q[i + 1] = q[j + 1] /\ i + 1 \in 1..Len(q) /\ j + 1 \in 1..Len(q)
      BY <1>1, <1>4, <2>2
    <3>2. i + 1 = j + 1
      BY <1>6, <3>1 DEF NoRepeats
    <3> QED
      BY <1>1, <1>2, <3>2
  <2> QED
    BY <1>1, <1>3, <1>4, <2>1, <2>2 DEF NoRepeats, Members
<1> QED
  BY <1>1, <1>2, <1>3, <1>5, <1>6

(* RemoveFirst is indexOf and splice.                                       *)
LEMMA RemoveFirstIsSplice ==
  ASSUME NEW S, NEW q \in Seq(S), NEW x, \E i \in 1..Len(q) : q[i] = x
  PROVE  \E n \in 1..Len(q) : q[n] = x /\ RemoveFirst(q, x) = RemoveAt(q, n)
<1> DEFINE I == {i \in 1..Len(q) : q[i] = x}
<1>1. RemoveFirst(q, x) = RemoveAt(q, Min(I))
  BY DEF RemoveFirst, SelectInSeq
<1>2. I \in SUBSET Nat /\ I # {}
  OBVIOUS
<1>3. Min(I) \in I
  <2>1. \E i \in I : \A j \in I : i <= j
    <3> HIDE DEF I
    <3> QED
      BY <1>2, FirstPosition
  <2> QED
    BY <2>1 DEF Min
<1> QED
  BY <1>1, <1>3

(* splice(indexOf(x), 1): x leaves the queue, nobody joins it.              *)
LEMMA RemoveFirstKeeps ==
  ASSUME NEW S, NEW q \in Seq(S), NEW x
  PROVE  LET r == RemoveFirst(q, x)
         IN  /\ r \in Seq(S)
             /\ Members(r) \subseteq Members(q)
             /\ NoRepeats(q) => NoRepeats(r) /\ Members(r) = Members(q) \ {x}
             /\ x \notin Members(q) => r = q
<1> DEFINE r == RemoveFirst(q, x)
<1>1. CASE x \notin Members(q)
  BY <1>1 DEF RemoveFirst, Members
<1>2. CASE x \in Members(q)
  <2>1. PICK n \in 1..Len(q) : q[n] = x /\ r = RemoveAt(q, n)
    BY <1>2, RemoveFirstIsSplice DEF Members
  <2>2. Len(q) \in Nat
    BY LenProperties
  <2>3. /\ r \in Seq(S)
        /\ Len(r) = Len(q) - 1
        /\ \A i \in 1..Len(q) - 1 : i < n => r[i] = q[i]
        /\ \A i \in 1..Len(q) - 1 : n <= i => r[i] = q[i + 1]
    BY <2>1, SpliceOne DEF RemoveAt
  <2> HIDE DEF r
  <2>4. \A i \in 1..Len(r) : \E j \in 1..Len(q) : r[i] = q[j] /\ j # n
    <3> SUFFICES ASSUME NEW i \in 1..Len(r)
                 PROVE  \E j \in 1..Len(q) : r[i] = q[j] /\ j # n
      OBVIOUS
    <3>1. CASE i < n
      BY <2>2, <2>3, <3>1
    <3>2. CASE n <= i
      <4>1. i + 1 \in 1..Len(q) /\ i + 1 # n /\ r[i] = q[i + 1]
        BY <2>2, <2>3, <3>2
      <4> QED
        BY <4>1
    <3> QED
      BY <2>2, <2>3, <3>1, <3>2
  <2>5. Members(r) \subseteq Members(q)
    BY <2>4 DEF Members
  <2>6. ASSUME NoRepeats(q)
        PROVE  NoRepeats(r) /\ Members(r) = Members(q) \ {x}
    <3>1. Members(r) = Members(q) \ {x}
      <4>1. \A i \in 1..Len(r) : r[i] # x
        BY <2>1, <2>4, <2>6 DEF NoRepeats
      <4>2. ASSUME NEW j \in 1..Len(q), j # n
            PROVE  q[j] \in Members(r)
        <5>1. CASE j < n
          <6>1. j \in 1..Len(r) /\ r[j] = q[j]
            BY <2>2, <2>3, <5>1
          <6> QED
            BY <6>1 DEF Members
        <5>2. CASE j > n
          <6>1. j - 1 \in 1..Len(r) /\ r[j - 1] = q[j]
            BY <2>2, <2>3, <5>2
          <6> QED
            BY <6>1 DEF Members
        <5> QED
          BY <2>2, <4>2, <5>1, <5>2
      <4> QED
        BY <2>1, <2>5, <4>1, <4>2 DEF Members
    <3>2. ASSUME NEW i \in 1..Len(r), NEW j \in 1..Len(r), r[i] = r[j]
          PROVE  i = j
      <4> DEFINE back(m) == IF m < n THEN m ELSE m + 1
      <4>1. \A m \in 1..Len(r) : back(m) \in 1..Len(q) /\ r[m] = q[back(m)]
        BY <2>2, <2>3
      <4>2. back(i) = back(j)
        <5> HIDE DEF back
        <5> QED
          BY <2>6, <3>2, <4>1 DEF NoRepeats
      <4> QED
        BY <2>2, <2>3, <4>2
    <3> QED
      BY <3>1, <3>2 DEF NoRepeats
  <2> QED
    BY <1>2, <2>3, <2>4, <2>5, <2>6 DEF r
<1> QED
  BY <1>1, <1>2

(* A queue is finite, so counting it makes sense.                           *)
LEMMA CountType ==
  ASSUME NEW S, NEW q \in Seq(S), NEW x
  PROVE  IsFiniteSet(Positions(q, x)) /\ Count(q, x) \in Nat
<1>1. IsFiniteSet(1..Len(q))
  BY LenProperties, FS_Interval
<1>2. IsFiniteSet(Positions(q, x))
  BY <1>1, FS_Subset DEF Positions
<1> QED
  BY <1>2, FS_CardinalityType DEF Count

(* The empty queue counts nothing.                                         *)
LEMMA CountEmpty == ASSUME NEW x PROVE Count(<<>>, x) = 0
<1>1. Positions(<<>>, x) = {}
  BY EmptySeq DEF Positions
<1> QED
  BY <1>1, FS_EmptySet DEF Count

(* push() counts one more of what it adds.                                  *)
LEMMA CountAppend ==
  ASSUME NEW S, NEW q \in Seq(S), NEW y \in S, NEW x
  PROVE  Count(Append(q, y), x) = IF x = y THEN Count(q, x) + 1 ELSE Count(q, x)
<1>1. /\ Len(Append(q, y)) = Len(q) + 1 /\ Len(q) \in Nat
      /\ \A i \in 1..Len(q) : Append(q, y)[i] = q[i]
      /\ Append(q, y)[Len(q) + 1] = y
  BY AppendKeeps, LenProperties
<1>2. CASE x = y
  <2>1. Positions(Append(q, y), x) = Positions(q, x) \cup {Len(q) + 1}
    BY <1>1, <1>2 DEF Positions
  <2>2. Len(q) + 1 \notin Positions(q, x)
    BY <1>1 DEF Positions
  <2>3. Cardinality(Positions(q, x) \cup {Len(q) + 1}) = Cardinality(Positions(q, x)) + 1
    BY <2>2, CountType, FS_AddElement
  <2> QED
    BY <1>2, <2>1, <2>3 DEF Count
<1>3. CASE x # y
  <2>1. Positions(Append(q, y), x) = Positions(q, x)
    BY <1>1, <1>3 DEF Positions
  <2> QED
    BY <1>3, <2>1 DEF Count
<1> QED
  BY <1>2, <1>3

(* splice(n, 1) counts one less of what it takes away.                      *)
LEMMA CountRemoveAt ==
  ASSUME NEW S, NEW q \in Seq(S), NEW n \in 1..Len(q), NEW x
  PROVE  Count(RemoveAt(q, n), x) = IF q[n] = x THEN Count(q, x) - 1 ELSE Count(q, x)
<1> DEFINE r == RemoveAt(q, n)
           back(m) == IF m < n THEN m ELSE m + 1
           P == Positions(q, x) \ {n}
<1>0. Len(q) \in Nat /\ n \in Nat
  BY LenProperties
<1>1. /\ r \in Seq(S) /\ Len(r) = Len(q) - 1
      /\ \A i \in 1..Len(q) - 1 : r[i] = q[back(i)]
  <2>1. /\ r \in Seq(S)
        /\ Len(r) = Len(q) - 1
        /\ \A i \in 1..Len(q) - 1 : i < n => r[i] = q[i]
        /\ \A i \in 1..Len(q) - 1 : n <= i => r[i] = q[i + 1]
    BY SpliceOne DEF RemoveAt
  <2> HIDE DEF r
  <2> QED
    BY <1>0, <2>1
<1> HIDE DEF r
<1>2. \A i \in 1..Len(r) : back(i) \in 1..Len(q) /\ back(i) # n
  BY <1>0, <1>1
<1>3. \A j \in 1..Len(q) : j # n => \E i \in 1..Len(r) : back(i) = j
  <2> SUFFICES ASSUME NEW j \in 1..Len(q), j # n
               PROVE  \E i \in 1..Len(r) : back(i) = j
    OBVIOUS
  <2>1. CASE j < n
    <3>1. j \in 1..Len(r) /\ back(j) = j
      BY <1>0, <1>1, <2>1
    <3> QED
      BY <3>1
  <2>2. CASE j > n
    <3>1. j - 1 \in 1..Len(r) /\ back(j - 1) = j
      BY <1>0, <1>1, <2>2
    <3> QED
      BY <3>1
  <2> QED
    BY <1>0, <2>1, <2>2
<1>4. \A i, j \in 1..Len(r) : back(i) = back(j) => i = j
  BY <1>0, <1>1
<1>5. Cardinality(Positions(r, x)) = Cardinality(P)
  <2> DEFINE f == [i \in Positions(r, x) |-> back(i)]
  <2>1. f \in [Positions(r, x) -> P]
    BY <1>1, <1>2 DEF Positions
  <2>2. \A j \in P : \E i \in Positions(r, x) : f[i] = j
    <3> SUFFICES ASSUME NEW j \in P PROVE \E i \in Positions(r, x) : f[i] = j
      OBVIOUS
    <3>1. PICK i \in 1..Len(r) : back(i) = j
      BY <1>3 DEF Positions
    <3>2. i \in Positions(r, x)
      BY <1>1, <3>1 DEF Positions
    <3> QED
      BY <3>1, <3>2
  <2>3. \A i, j \in Positions(r, x) : f[i] = f[j] => i = j
    BY <1>4 DEF Positions
  <2> HIDE DEF f
  <2>4. f \in Bijection(Positions(r, x), P)
    BY <2>1, <2>2, <2>3, Fun_IsBij
  <2>5. ExistsBijection(Positions(r, x), P)
    BY <2>4 DEF ExistsBijection
  <2>6. IsFiniteSet(Positions(r, x))
    BY <1>1, CountType
  <2> QED
    BY <2>5, <2>6, FS_Bijection
<1>6. CASE q[n] = x
  <2>1. n \in Positions(q, x)
    BY <1>6 DEF Positions
  <2>2. Cardinality(P) = Cardinality(Positions(q, x)) - 1
    BY <2>1, CountType, FS_RemoveElement
  <2> QED
    BY <1>5, <1>6, <2>2 DEF Count, r
<1>7. CASE q[n] # x
  <2>1. P = Positions(q, x)
    BY <1>7 DEF Positions
  <2> QED
    BY <1>5, <1>7, <2>1 DEF Count, r
<1> QED
  BY <1>6, <1>7

(* shift() counts one less of what it takes away.                           *)
LEMMA CountTail ==
  ASSUME NEW S, NEW q \in Seq(S), q # <<>>, NEW x
  PROVE  Count(Tail(q), x) = IF Head(q) = x THEN Count(q, x) - 1 ELSE Count(q, x)
<1>1. 1 \in 1..Len(q) /\ Head(q) = q[1] /\ Len(q) \in Nat
  BY TailKeeps
<1>2. Tail(q) = RemoveAt(q, 1)
  <2>1. Tail(q) = SubSeq(q, 2, Len(q))
    BY TailIsSubSeq
  <2>2. SubSeq(q, 1, 0) = <<>>
    BY SubSeqEmpty
  <2>3. SubSeq(q, 2, Len(q)) \in Seq(S)
    BY <2>1, TailKeeps
  <2>4. <<>> \o SubSeq(q, 2, Len(q)) = SubSeq(q, 2, Len(q))
    BY <2>3, ConcatEmptySeq
  <2> QED
    BY <2>1, <2>2, <2>4 DEF RemoveAt
<1>3. Count(RemoveAt(q, 1), x) = IF q[1] = x THEN Count(q, x) - 1 ELSE Count(q, x)
  BY <1>1, CountRemoveAt
<1> QED
  BY <1>1, <1>2, <1>3

-----------------------------------------------------------------------------
(* Only agents own permits, so counting them makes sense.                   *)
LEMMA HoldingFinite ==
  ASSUME TypeOK
  PROVE  IsFiniteSet(holding) /\ Cardinality(holding) \in Nat
<1>1. IsFiniteSet(holding)
  BY AgentsFinite, FS_Subset DEF TypeOK
<1> QED
  BY <1>1, FS_CardinalityType

(* acquire() with a free permit: nobody waits, so the queue is not overtaken. *)
LEMMA TakeKeeps ==
  ASSUME IInv, NEW a \in Agents, a \notin holding, Take(a)
  PROVE  /\ PermitInv' /\ active' \in Nat
         /\ waiters' = <<>>
         /\ holding' = holding \cup {a}
<1>1. waiters = <<>>
  BY LimitAssumption DEF IInv, TypeOK, PermitInv, Take
<1>2. Cardinality(holding \cup {a}) = Cardinality(holding) + 1
  BY HoldingFinite, FS_AddElement DEF IInv
<1> QED
  BY <1>1, <1>2, LimitAssumption DEF IInv, TypeOK, PermitInv, Take

(* acquire() without one: a, who was not in the queue, is its last.         *)
LEMMA WaitKeeps ==
  ASSUME IInv, NEW a \in Agents, Wait(a), a \notin Members(waiters)
  PROVE  /\ PermitInv' /\ active' = active /\ holding' = holding
         /\ waiters' \in Seq(Agents) /\ NoRepeats(waiters')
         /\ Members(waiters') = Members(waiters) \cup {a}
<1>1. active = Limit
  BY LimitAssumption DEF IInv, TypeOK, PermitInv, Wait
<1> QED
  BY <1>1, AppendKeeps DEF IInv, TypeOK, QueueInv, PermitInv, Wait

(* The permit a gives back goes to the first waiter or becomes free.        *)
LEMMA ReleaseKeeps ==
  ASSUME IInv, NEW a \in Agents, Release(a)
  PROVE  /\ PermitInv' /\ active' \in Nat
         /\ Granted(a) \subseteq Agents \ {a}
         /\ holding' = (holding \ {a}) \cup Granted(a)
         /\ \A b \in Granted(a) : WaiterExact(b)
         /\ waiters' \in Seq(Agents) /\ NoRepeats(waiters')
         /\ Members(waiters') = Members(waiters) \ Granted(a)
<1>1. waiters \in Seq(Agents) /\ holding' = (holding \ {a}) \cup Granted(a)
  BY DEF IInv, TypeOK, Release
<1>2. CASE a \notin holding
  <2>1. Granted(a) = {} /\ holding' = holding /\ waiters' = waiters /\ active' = active
    BY <1>1, <1>2 DEF Release, Granted
  <2> QED
    BY <1>1, <2>1 DEF IInv, TypeOK, PermitInv, QueueInv
<1>3. CASE a \in holding /\ waiters = <<>>
  <2>1. /\ Granted(a) = {} /\ holding' = holding \ {a} /\ waiters' = waiters
        /\ active' = active - 1
    BY <1>1, <1>3 DEF Release, Granted
  <2>2. Cardinality(holding \ {a}) = Cardinality(holding) - 1
    BY <1>3, HoldingFinite, FS_RemoveElement DEF IInv
  <2>3. Cardinality(holding \ {a}) \in Nat
    <3>1. IsFiniteSet(holding \ {a})
      BY HoldingFinite, FS_Subset DEF IInv
    <3> QED
      BY <3>1, FS_CardinalityType
  <2> QED
    BY <1>1, <1>3, <2>1, <2>2, <2>3, LimitAssumption DEF IInv, TypeOK, PermitInv, QueueInv
<1>4. CASE a \in holding /\ waiters # <<>>
  <2> DEFINE h == Head(waiters)
  <2>1. /\ h \in Agents /\ Members(waiters) = Members(Tail(waiters)) \cup {h}
        /\ Tail(waiters) \in Seq(Agents) /\ NoRepeats(Tail(waiters))
        /\ h \notin Members(Tail(waiters))
    BY <1>1, <1>4, TailKeeps DEF IInv, QueueInv
  <2>2. /\ Granted(a) = {h} /\ holding' = (holding \ {a}) \cup {h}
        /\ waiters' = Tail(waiters) /\ active' = active
    BY <1>1, <1>4 DEF Release, Granted
  <2>3. WaiterExact(h)
    BY <2>1 DEF IInv, QueueInv
  <2>4. h # a /\ h \notin holding
    BY <1>4, <2>3 DEF WaiterExact
  <2>5. Cardinality((holding \ {a}) \cup {h}) = Cardinality(holding)
    <3>1. IsFiniteSet(holding \ {a}) /\ Cardinality(holding \ {a}) = Cardinality(holding) - 1
      BY <1>4, HoldingFinite, FS_RemoveElement DEF IInv
    <3>2. Cardinality((holding \ {a}) \cup {h}) = Cardinality(holding \ {a}) + 1
      BY <2>4, <3>1, FS_AddElement
    <3> QED
      BY <3>1, <3>2, HoldingFinite DEF IInv
  <2> HIDE DEF h
  <2>6. PermitInv' /\ active' \in Nat
    BY <1>4, <2>2, <2>5 DEF IInv, TypeOK, PermitInv
  <2> QED
    BY <2>1, <2>2, <2>3, <2>4, <2>6
<1> QED
  BY <1>2, <1>3, <1>4

-----------------------------------------------------------------------------
(* Who is not touched by a step stays as it was.                            *)
LEMMA LeaseUntouched ==
  ASSUME NEW b \in Agents, LeaseExact(b),
         lease'[b] = lease[b], chain'[b] = chain[b], inside'[b] = inside[b],
         suspended'[b] = suspended[b],
         b \in holding' <=> b \in holding, b \in closed' <=> b \in closed,
         b \in aborted' <=> b \in aborted
  PROVE  LeaseExact(b)'
BY DEF LeaseExact, Unused, Running, Next1

LEMMA WaiterUntouched ==
  ASSUME NEW b \in Agents, WaiterExact(b),
         lease'[b] = lease[b], chain'[b] = chain[b], suspended'[b] = suspended[b],
         b \in holding' <=> b \in holding, b \in closed' <=> b \in closed,
         b \in aborted' <=> b \in aborted
  PROVE  WaiterExact(b)'
BY DEF WaiterExact, Running, Next1

(* Every transition of the chain counts once.                               *)
LEMMA ChainKeeps ==
  ASSUME TypeOK, NEW a \in Agents
  PROVE  /\ Count(chain[a], "leave") \in Nat
         /\ chain[a] = <<>> => Count(chain[a], "leave") = 0 /\ Members(chain[a]) = {}
         /\ chain[a] # <<>> =>
              /\ Tail(chain[a]) \in Seq(Transition)
              /\ Members(chain[a]) = Members(Tail(chain[a])) \cup {Head(chain[a])}
              /\ Count(Tail(chain[a]), "leave") =
                   IF Next1(a, "leave") THEN Count(chain[a], "leave") - 1
                                        ELSE Count(chain[a], "leave")
         /\ \A kind \in Transition :
              /\ Append(chain[a], kind) \in Seq(Transition)
              /\ Append(chain[a], kind) # <<>>
              /\ Members(Append(chain[a], kind)) = Members(chain[a]) \cup {kind}
              /\ Count(Append(chain[a], kind), "leave") =
                   IF kind = "leave" THEN Count(chain[a], "leave") + 1
                                     ELSE Count(chain[a], "leave")
              /\ Head(Append(chain[a], kind)) = IF chain[a] = <<>> THEN kind ELSE Head(chain[a])
<1>1. chain[a] \in Seq(Transition)
  BY DEF TypeOK
<1>2. ASSUME chain[a] # <<>>
      PROVE  /\ Tail(chain[a]) \in Seq(Transition)
             /\ Members(chain[a]) = Members(Tail(chain[a])) \cup {Head(chain[a])}
             /\ Count(Tail(chain[a]), "leave") =
                  IF Next1(a, "leave") THEN Count(chain[a], "leave") - 1
                                       ELSE Count(chain[a], "leave")
  <2>1. Count(Tail(chain[a]), "leave") =
          IF Head(chain[a]) = "leave" THEN Count(chain[a], "leave") - 1
                                      ELSE Count(chain[a], "leave")
    BY <1>1, <1>2, CountTail
  <2> QED
    BY <1>1, <1>2, <2>1, TailKeeps DEF Next1
<1>3. ASSUME NEW kind \in Transition
      PROVE  /\ Append(chain[a], kind) \in Seq(Transition)
             /\ Append(chain[a], kind) # <<>>
             /\ Members(Append(chain[a], kind)) = Members(chain[a]) \cup {kind}
             /\ Count(Append(chain[a], kind), "leave") =
                  IF kind = "leave" THEN Count(chain[a], "leave") + 1
                                    ELSE Count(chain[a], "leave")
             /\ Head(Append(chain[a], kind)) = IF chain[a] = <<>> THEN kind ELSE Head(chain[a])
  <2>1. Count(Append(chain[a], kind), "leave") =
          IF "leave" = kind THEN Count(chain[a], "leave") + 1 ELSE Count(chain[a], "leave")
    BY <1>1, CountAppend
  <2> QED
    BY <1>1, <2>1, AppendKeeps
<1> QED
  BY <1>1, <1>2, <1>3, CountType, CountEmpty, EmptyQueue

-----------------------------------------------------------------------------
(* runAgent opens the lease.                                                *)
LEMMA OpenStep ==
  ASSUME IInv, NEW a \in Agents, Open(a)
  PROVE  IInv'
<1>1. /\ chain[a] = <<>> /\ inside[a] = 0 /\ a \notin holding /\ a \notin closed
      /\ lease[a] = "none" /\ suspended[a] = 0 /\ Count(chain[a], "leave") = 0
      /\ Members(chain[a]) = {}
  BY ChainKeeps DEF IInv, LeaseExact, Unused, Open, TypeOK
<1>2. a \notin Members(waiters)
  BY <1>1 DEF IInv, QueueInv, WaiterExact, Running
<1>3. Members(waiters) \subseteq Agents
  BY MembersType DEF IInv, TypeOK
<1>4. CASE a \in aborted /\ lease' = [lease EXCEPT ![a] = "over"]
            /\ UNCHANGED <<active, waiters, holding>>
  <2>1. TypeOK' /\ PermitInv'
    BY <1>4 DEF IInv, TypeOK, PermitInv, Open
  <2>2. LeaseExact(a)'
    BY <1>1, <1>4 DEF IInv, TypeOK, LeaseExact, Unused, Running, Open
  <2>3. \A b \in Agents \ {a} : LeaseExact(b)'
    BY <1>4, LeaseUntouched DEF IInv, TypeOK, Open
  <2>4. QueueInv'
    BY <1>2, <1>3, <1>4, WaiterUntouched DEF IInv, TypeOK, QueueInv, Open
  <2> QED
    BY <2>1, <2>2, <2>3, <2>4 DEF IInv
<1>5. CASE a \notin aborted /\ Take(a) /\ lease' = [lease EXCEPT ![a] = "open"]
  <2>1. /\ PermitInv' /\ active' \in Nat /\ waiters' = <<>> /\ holding' = holding \cup {a}
    BY <1>1, <1>5, TakeKeeps
  <2>2. TypeOK'
    BY <1>5, <2>1, EmptyQueue DEF IInv, TypeOK, Open
  <2>3. LeaseExact(a)'
    BY <1>1, <1>5, <2>1 DEF IInv, TypeOK, LeaseExact, Unused, Running, Open
  <2>4. \A b \in Agents \ {a} : LeaseExact(b)'
    BY <1>5, <2>1, LeaseUntouched DEF IInv, TypeOK, Open
  <2>5. QueueInv'
    BY <2>1, EmptyQueue DEF QueueInv
  <2> QED
    BY <2>1, <2>2, <2>3, <2>4, <2>5 DEF IInv
<1>6. CASE a \notin aborted /\ Wait(a) /\ lease' = [lease EXCEPT ![a] = "opening"]
  <2>1. /\ PermitInv' /\ active' = active /\ holding' = holding
        /\ waiters' \in Seq(Agents) /\ NoRepeats(waiters')
        /\ Members(waiters') = Members(waiters) \cup {a}
    BY <1>2, <1>6, WaitKeeps
  <2>2. TypeOK'
    BY <1>6, <2>1 DEF IInv, TypeOK, Open
  <2>3. LeaseExact(a)'
    BY <1>1, <1>6, <2>1 DEF IInv, TypeOK, LeaseExact, Unused, Running, Open
  <2>4. \A b \in Agents \ {a} : LeaseExact(b)'
    BY <1>6, <2>1, LeaseUntouched DEF IInv, TypeOK, Open
  <2>5. WaiterExact(a)'
    BY <1>1, <1>6, <2>1 DEF IInv, TypeOK, WaiterExact, Open
  <2>6. \A b \in Members(waiters) : WaiterExact(b)'
    BY <1>2, <1>3, <1>6, <2>1, WaiterUntouched DEF IInv, TypeOK, QueueInv, Open
  <2> QED
    BY <2>1, <2>2, <2>3, <2>4, <2>5, <2>6 DEF IInv, QueueInv
<1> QED
  BY <1>4, <1>5, <1>6 DEF Open

(* suspend() and close() queue a transition behind those that run: the order *)
(* of the permits does not change.                                          *)
LEMMA TransitionQueued ==
  ASSUME IInv, NEW a \in Agents, NEW kind \in Transition \ {"regain"}, ~Unused(a),
         chain' = [chain EXCEPT ![a] = Append(@, kind)],
         UNCHANGED <<active, waiters, holding, suspended, closed, aborted>>,
         inside' \in [Agents -> Nat],
         inside[a] = inside'[a] + IF kind = "leave" THEN 1 ELSE 0,
         \A b \in Agents \ {a} : inside'[b] = inside[b] /\ lease'[b] = lease[b],
         lease'[a] = lease[a] \/ (Running(a) /\ Running(a)'),
         lease'[a] = "open" => kind # "close" /\ lease[a] = "open"
  PROVE  /\ chain' \in [Agents -> Seq(Transition)]
         /\ QueueInv' /\ (\A b \in Agents : LeaseExact(b)') /\ PermitInv'
<1>1. /\ chain'[a] \in Seq(Transition) /\ chain'[a] # <<>>
      /\ chain'[a] = Append(chain[a], kind)
      /\ Count(chain[a], "leave") \in Nat
      /\ Count(chain'[a], "leave") =
           IF kind = "leave" THEN Count(chain[a], "leave") + 1 ELSE Count(chain[a], "leave")
      /\ Head(chain'[a]) = IF chain[a] = <<>> THEN kind ELSE Head(chain[a])
      /\ Members(chain'[a]) = Members(chain[a]) \cup {kind}
  BY ChainKeeps DEF IInv, TypeOK
<1>2. chain' \in [Agents -> Seq(Transition)]
  BY <1>1 DEF IInv, TypeOK
<1>3. \A b \in Agents \ {a} : chain'[b] = chain[b]
  BY DEF IInv, TypeOK
<1>4. Next1(a, "regain")' <=> Next1(a, "regain")
  BY <1>1 DEF Next1, Transition
<1>5. \A b \in Agents \ {a} : LeaseExact(b)'
  BY <1>3, LeaseUntouched DEF IInv
<1>6. LeaseExact(a)'
  <2>1. LeaseExact(a) /\ suspended[a] \in Nat /\ inside[a] \in Nat /\ inside'[a] \in Nat
    BY DEF IInv, TypeOK
  <2>2. ~Unused(a)'
    BY DEF Unused, Running
  <2>3. Running(a)' => Running(a)
    BY DEF Running
  <2> QED
    BY <1>1, <1>4, <2>1, <2>2, <2>3 DEF LeaseExact
<1>7. QueueInv'
  <2> SUFFICES ASSUME NEW b \in Members(waiters) PROVE WaiterExact(b)'
    BY DEF QueueInv, IInv
  <2>1. b \in Agents /\ WaiterExact(b)
    BY MembersType DEF IInv, TypeOK, QueueInv
  <2>2. CASE b = a
    BY <1>4, <2>1, <2>2 DEF WaiterExact, Running, Unused
  <2> QED
    BY <1>3, <2>1, <2>2, WaiterUntouched
<1> QED
  BY <1>2, <1>5, <1>6, <1>7 DEF IInv, PermitInv

LEMMA CallStep ==
  ASSUME IInv, NEW a \in Agents, Call(a)
  PROVE  IInv'
<1>1. ~Unused(a)
  BY DEF Call, Unused
<1>2. /\ chain' \in [Agents -> Seq(Transition)]
      /\ QueueInv' /\ (\A b \in Agents : LeaseExact(b)') /\ PermitInv'
  <2>1. /\ inside' = inside /\ lease' = lease /\ inside \in [Agents -> Nat]
        /\ chain' = [chain EXCEPT ![a] = Append(@, "enter")]
        /\ UNCHANGED <<active, waiters, holding, suspended, closed, aborted>>
    BY DEF Call, IInv, TypeOK
  <2>2. "enter" \in Transition \ {"regain"} /\ inside[a] = inside'[a] + 0
    BY <2>1 DEF Transition
  <2> QED
    BY <1>1, <2>1, <2>2, TransitionQueued
<1> QED
  BY <1>2, LimitAssumption DEF Call, IInv, TypeOK

LEMMA ReturnStep ==
  ASSUME IInv, NEW a \in Agents, Return(a)
  PROVE  IInv'
<1>1. inside[a] \in Nat /\ inside[a] > 0
  <2>1. IsFiniteSet(Children(a))
    BY AgentsFinite, FS_Subset DEF Children
  <2> QED
    BY <2>1, FS_CardinalityType DEF Return, IInv, TypeOK
<1>2. ~Unused(a)
  BY <1>1 DEF IInv, LeaseExact
<1>3. inside' \in [Agents -> Nat] /\ inside[a] = inside'[a] + 1 /\ lease' = lease
  BY <1>1 DEF Return, IInv, TypeOK
<1>4. /\ chain' \in [Agents -> Seq(Transition)]
      /\ QueueInv' /\ (\A b \in Agents : LeaseExact(b)') /\ PermitInv'
  BY <1>2, <1>3, TransitionQueued DEF Return, Transition, IInv, TypeOK
<1> QED
  BY <1>3, <1>4 DEF Return, IInv, TypeOK

LEMMA ExecutorEndsStep ==
  ASSUME IInv, NEW a \in Agents, ExecutorEnds(a)
  PROVE  IInv'
<1>1. ~Unused(a) /\ Running(a) /\ Running(a)'
  BY DEF ExecutorEnds, Unused, Running, IInv, TypeOK
<1>2. /\ chain' \in [Agents -> Seq(Transition)]
      /\ QueueInv' /\ (\A b \in Agents : LeaseExact(b)') /\ PermitInv'
  <2>1. /\ inside' = inside /\ inside \in [Agents -> Nat]
        /\ chain' = [chain EXCEPT ![a] = Append(@, "close")]
        /\ \A b \in Agents \ {a} : lease'[b] = lease[b]
        /\ lease'[a] # "open"
        /\ UNCHANGED <<active, waiters, holding, suspended, closed, aborted>>
    BY DEF ExecutorEnds, IInv, TypeOK
  <2>2. "close" \in Transition \ {"regain"} /\ inside[a] = inside'[a] + 0
    BY <2>1 DEF Transition
  <2> QED
    BY <1>1, <2>1, <2>2, TransitionQueued
<1> QED
  BY <1>2 DEF ExecutorEnds, IInv, TypeOK

-----------------------------------------------------------------------------
(* Whoever runs the head of its chain does not wait.                        *)
LEMMA NotWaiting ==
  ASSUME IInv, NEW a \in Agents, chain[a] # <<>>, ~Next1(a, "regain")
  PROVE  a \notin Members(waiters) /\ ~Unused(a)
BY DEF IInv, QueueInv, WaiterExact, LeaseExact, Unused

(* Release(a) in a transition of a: the chain of a moves on, and the waiter *)
(* that gets the permit is an owner from here on.                           *)
LEMMA ReleaseStep ==
  ASSUME IInv, NEW a \in Agents, chain[a] # <<>>, ~Next1(a, "regain"), ~Next1(a, "leave"),
         Release(a), UNCHANGED <<aborted, calls>>,
         closed' \in SUBSET Agents, suspended' \in [Agents -> Nat], inside' \in [Agents -> Nat],
         \A b \in Agents \ {a} : /\ (b \in closed' <=> b \in closed)
                                 /\ suspended'[b] = suspended[b] /\ inside'[b] = inside[b],
         a \in closed => a \in closed',
         suspended'[a] - inside'[a] = suspended[a] - inside[a],
         suspended'[a] > 0 \/ a \in closed',
         lease[a] = "open" => a \notin closed'
  PROVE  IInv'
<1>1. /\ PermitInv' /\ active' \in Nat
      /\ Granted(a) \subseteq Agents \ {a}
      /\ holding' = (holding \ {a}) \cup Granted(a)
      /\ \A b \in Granted(a) : WaiterExact(b)
      /\ waiters' \in Seq(Agents) /\ NoRepeats(waiters')
      /\ Members(waiters') = Members(waiters) \ Granted(a)
  BY ReleaseKeeps
<1>2. a \notin Members(waiters) /\ ~Unused(a) /\ Members(waiters) \subseteq Agents
  BY NotWaiting, MembersType DEF IInv, TypeOK
<1>3. /\ lease' = [b \in Agents |-> IF b \in Granted(a) /\ lease[b] = "opening"
                                    THEN "open" ELSE lease[b]]
      /\ chain' = [b \in Agents |-> IF b = a \/ (b \in Granted(a) /\ Next1(b, "regain"))
                                    THEN Tail(chain[b]) ELSE chain[b]]
  BY DEF Release
<1>4. lease' \in [Agents -> {"none", "opening", "open", "closing", "over"}]
  BY <1>3 DEF IInv, TypeOK
<1>5. chain' \in [Agents -> Seq(Transition)]
  <2>1. \A b \in Agents : chain[b] # <<>> => Tail(chain[b]) \in Seq(Transition)
    BY ChainKeeps DEF IInv
  <2>2. \A b \in Agents : chain[b] \in Seq(Transition)
    BY DEF IInv, TypeOK
  <2> QED
    BY <1>3, <2>1, <2>2 DEF Next1
<1>6. TypeOK'
  BY <1>1, <1>4, <1>5 DEF IInv, TypeOK
<1>7. LeaseExact(a)'
  <2>1. lease'[a] = lease[a] /\ chain'[a] = Tail(chain[a]) /\ a \notin holding'
    BY <1>1, <1>3 DEF IInv, TypeOK
  <2>2. /\ Count(chain'[a], "leave") = Count(chain[a], "leave") /\ Count(chain[a], "leave") \in Nat
        /\ Members(chain'[a]) \subseteq Members(chain[a])
    BY <2>1, ChainKeeps DEF IInv
  <2>3. ~Unused(a)'
    BY <1>2, <2>1 DEF Unused
  <2>4. /\ suspended[a] \in Nat /\ inside[a] \in Nat
        /\ suspended'[a] \in Nat /\ inside'[a] \in Nat
    BY DEF IInv, TypeOK
  <2>5. suspended'[a] = inside'[a] + Count(chain'[a], "leave")
    <3>1. suspended[a] = inside[a] + Count(chain[a], "leave")
      BY DEF IInv, LeaseExact
    <3> QED
      BY <2>2, <2>4, <3>1
  <2>6. lease'[a] = "open" => a \notin closed' /\ "close" \notin Members(chain'[a])
    BY <2>1, <2>2 DEF IInv, LeaseExact
  <2> QED
    BY <2>1, <2>3, <2>4, <2>5, <2>6 DEF LeaseExact
<1>8. ASSUME NEW b \in Granted(a)
      PROVE  LeaseExact(b)'
  <2>1. /\ b \in Agents \ {a} /\ WaiterExact(b) /\ LeaseExact(b) /\ b \in holding'
        /\ suspended[b] \in Nat /\ inside[b] \in Nat
    BY <1>1, <1>8 DEF IInv, TypeOK
  <2>2. suspended'[b] = 0 /\ b \notin closed' /\ inside'[b] = inside[b]
    <3>1. suspended[b] = 0 /\ b \notin closed
      BY <2>1 DEF WaiterExact
    <3> QED
      BY <2>1, <3>1
  <2>3. lease'[b] \in {"open", "closing"}
    BY <1>3, <1>8, <2>1 DEF WaiterExact, Running
  <2>4. /\ Count(chain'[b], "leave") = Count(chain[b], "leave")
        /\ Members(chain'[b]) \subseteq Members(chain[b])
    <3>1. CASE Next1(b, "regain")
      <4>1. chain'[b] = Tail(chain[b]) /\ ~Next1(b, "leave") /\ chain[b] # <<>>
        BY <1>3, <1>8, <2>1, <3>1 DEF Next1
      <4> QED
        BY <2>1, <4>1, ChainKeeps DEF IInv
    <3>2. CASE ~Next1(b, "regain")
      BY <1>3, <2>1, <3>2
    <3> QED
      BY <3>1, <3>2
  <2>5. lease[b] = "opening" => Members(chain[b]) = {}
    BY <2>1, EmptyQueue DEF LeaseExact, Unused
  <2>6. lease'[b] = "open" => "close" \notin Members(chain'[b])
    BY <1>3, <2>1, <2>4, <2>5 DEF LeaseExact
  <2> QED
    BY <2>1, <2>2, <2>3, <2>4, <2>6 DEF LeaseExact, WaiterExact, Unused
<1>9. ASSUME NEW b \in Agents \ {a}, b \notin Granted(a)
      PROVE  LeaseExact(b)' /\ (WaiterExact(b) => WaiterExact(b)')
  <2>1. /\ lease'[b] = lease[b] /\ chain'[b] = chain[b]
        /\ b \in holding' <=> b \in holding
    BY <1>1, <1>3, <1>9
  <2>2. /\ b \in closed' <=> b \in closed
        /\ suspended'[b] = suspended[b] /\ inside'[b] = inside[b]
    BY <1>9
  <2> QED
    BY <2>1, <2>2, LeaseUntouched, WaiterUntouched DEF IInv
<1>10. QueueInv'
  BY <1>1, <1>2, <1>9 DEF IInv, QueueInv
<1> QED
  BY <1>1, <1>6, <1>7, <1>8, <1>9, <1>10 DEF IInv

(* The first transition of a host call.                                     *)
LEMMA EnterStep ==
  ASSUME IInv, NEW a \in Agents, Enter(a)
  PROVE  IInv'
<1>1. /\ chain[a] # <<>> /\ ~Next1(a, "regain") /\ ~Next1(a, "leave")
      /\ suspended[a] \in Nat /\ inside[a] \in Nat
      /\ suspended' = [suspended EXCEPT ![a] = @ + 1] /\ suspended' \in [Agents -> Nat]
      /\ inside' = [inside EXCEPT ![a] = @ + 1] /\ inside' \in [Agents -> Nat]
      /\ UNCHANGED <<closed, calls, aborted>>
  BY DEF Enter, Next1, IInv, TypeOK
<1>2. /\ suspended'[a] = suspended[a] + 1 /\ inside'[a] = inside[a] + 1
      /\ \A b \in Agents \ {a} : suspended'[b] = suspended[b] /\ inside'[b] = inside[b]
  BY DEF Enter, IInv, TypeOK
<1>3. CASE Release(a)
  <2>1. suspended'[a] - inside'[a] = suspended[a] - inside[a] /\ suspended'[a] > 0
    <3>1. \A m, n \in Nat : (m + 1) - (n + 1) = m - n /\ m + 1 > 0
      OBVIOUS
    <3> QED
      BY <1>1, <1>2, <3>1
  <2>2. closed' \in SUBSET Agents /\ (lease[a] = "open" => a \notin closed')
    BY <1>1 DEF IInv, TypeOK, LeaseExact
  <2> QED
    BY <1>1, <1>2, <1>3, <2>1, <2>2, ReleaseStep
<1>4. CASE /\ suspended[a] # 0
           /\ chain' = [chain EXCEPT ![a] = Tail(@)]
           /\ UNCHANGED <<active, waiters, lease, holding>>
  <2>1. /\ chain'[a] = Tail(chain[a]) /\ Tail(chain[a]) \in Seq(Transition)
        /\ Count(chain'[a], "leave") = Count(chain[a], "leave")
        /\ Count(chain[a], "leave") \in Nat
        /\ Members(chain'[a]) \subseteq Members(chain[a])
        /\ \A b \in Agents \ {a} : chain'[b] = chain[b]
    BY <1>1, <1>4, ChainKeeps DEF IInv, TypeOK
  <2>2. TypeOK' /\ PermitInv'
    BY <1>1, <1>4, <2>1 DEF IInv, TypeOK, PermitInv
  <2>3. a \notin Members(waiters) /\ ~Unused(a) /\ Members(waiters) \subseteq Agents
    BY <1>1, NotWaiting, MembersType DEF IInv, TypeOK
  <2>4. LeaseExact(a)'
    <3>1. a \notin holding /\ suspended[a] = inside[a] + Count(chain[a], "leave")
      BY <1>1, <1>4 DEF IInv, LeaseExact
    <3>2. ~Unused(a)'
      BY <1>1, <1>4, <2>3 DEF Unused
    <3>3. /\ a \notin holding' /\ suspended'[a] > 0
          /\ suspended'[a] = inside'[a] + Count(chain'[a], "leave")
      BY <1>1, <1>2, <1>4, <2>1, <3>1
    <3>4. lease'[a] = "open" => a \notin closed' /\ "close" \notin Members(chain'[a])
      BY <1>1, <1>4, <2>1 DEF IInv, LeaseExact
    <3> QED
      BY <3>2, <3>3, <3>4 DEF LeaseExact
  <2>5. \A b \in Agents \ {a} : LeaseExact(b)' /\ (WaiterExact(b) => WaiterExact(b)')
    BY <1>1, <1>2, <1>4, <2>1, LeaseUntouched, WaiterUntouched DEF IInv
  <2>6. QueueInv'
    BY <1>4, <2>3, <2>5 DEF IInv, QueueInv
  <2> QED
    BY <2>2, <2>4, <2>5, <2>6 DEF IInv
<1> QED
  BY <1>3, <1>4 DEF Enter

(* A call after close() does nothing.                                       *)
LEMMA EnterClosedStep ==
  ASSUME IInv, NEW a \in Agents, EnterClosed(a)
  PROVE  IInv'
<1>1. /\ chain[a] # <<>> /\ ~Next1(a, "regain") /\ ~Next1(a, "leave") /\ a \in closed
      /\ chain' = [chain EXCEPT ![a] = Tail(@)]
      /\ UNCHANGED <<active, waiters, lease, holding, suspended, closed, inside, calls, aborted>>
  BY DEF EnterClosed, Next1
<1>2. /\ chain'[a] = Tail(chain[a]) /\ Tail(chain[a]) \in Seq(Transition)
      /\ Count(chain'[a], "leave") = Count(chain[a], "leave")
      /\ Members(chain'[a]) \subseteq Members(chain[a])
      /\ \A b \in Agents \ {a} : chain'[b] = chain[b]
  BY <1>1, ChainKeeps DEF IInv, TypeOK
<1>3. TypeOK' /\ PermitInv'
  BY <1>1, <1>2 DEF IInv, TypeOK, PermitInv
<1>4. a \notin Members(waiters) /\ ~Unused(a) /\ Members(waiters) \subseteq Agents
  BY <1>1, NotWaiting, MembersType DEF IInv, TypeOK
<1>5. LeaseExact(a)'
  BY <1>1, <1>2, <1>4 DEF IInv, LeaseExact, Unused
<1>6. \A b \in Agents \ {a} : LeaseExact(b)' /\ (WaiterExact(b) => WaiterExact(b)')
  BY <1>1, <1>2, LeaseUntouched, WaiterUntouched DEF IInv
<1>7. QueueInv'
  BY <1>1, <1>4, <1>6 DEF IInv, QueueInv
<1> QED
  BY <1>3, <1>5, <1>6, <1>7 DEF IInv

(* The transition of close().                                               *)
LEMMA CloseStep ==
  ASSUME IInv, NEW a \in Agents, Close(a)
  PROVE  IInv'
<1>1. /\ chain[a] # <<>> /\ ~Next1(a, "regain") /\ ~Next1(a, "leave")
      /\ closed' = closed \cup {a} /\ Release(a)
      /\ UNCHANGED <<suspended, inside, calls, aborted>>
  BY DEF Close, Next1
<1>0. lease[a] # "open"
  <2>1. "close" \in Members(chain[a])
    BY ChainKeeps DEF Close, Next1, IInv
  <2> QED
    BY <2>1 DEF IInv, LeaseExact
<1>2. /\ closed' \in SUBSET Agents /\ suspended' \in [Agents -> Nat]
      /\ inside' \in [Agents -> Nat]
  BY <1>1 DEF IInv, TypeOK
<1>3. \A b \in Agents \ {a} : /\ (b \in closed' <=> b \in closed)
                              /\ suspended'[b] = suspended[b] /\ inside'[b] = inside[b]
  BY <1>1
<1> QED
  BY <1>0, <1>1, <1>2, <1>3, ReleaseStep

(* The last transition of a host call: in the order of the code, the count  *)
(* goes down before it decides whether to take the permit back.             *)
LEMMA LeaveStep ==
  ASSUME IInv, NEW a \in Agents, Leave(a)
  PROVE  IInv'
<1>1. /\ chain[a] # <<>> /\ Head(chain[a]) = "leave" /\ Next1(a, "leave") /\ ~Next1(a, "regain")
      /\ suspended' = [suspended EXCEPT ![a] = @ - 1]
      /\ UNCHANGED <<lease, closed, inside, calls, aborted>>
      /\ chain[a] \in Seq(Transition)
  BY DEF Leave, Next1, IInv, TypeOK
<1>2. a \notin Members(waiters) /\ ~Unused(a) /\ Members(waiters) \subseteq Agents
  BY <1>1, NotWaiting, MembersType DEF IInv, TypeOK
<1>3. /\ suspended[a] = inside[a] + Count(chain[a], "leave")
      /\ Count(chain[a], "leave") \in Nat /\ inside[a] \in Nat /\ suspended[a] \in Nat
      /\ a \in closed => a \notin holding
  BY ChainKeeps DEF IInv, LeaseExact, TypeOK
<1>4. /\ Tail(chain[a]) \in Seq(Transition)
      /\ Count(Tail(chain[a]), "leave") = Count(chain[a], "leave") - 1
      /\ Count(Tail(chain[a]), "leave") \in Nat
      /\ Members(Tail(chain[a])) \subseteq Members(chain[a])
  <2>1. /\ Members(Tail(chain[a])) \subseteq Members(chain[a])
        /\ Tail(chain[a]) \in Seq(Transition)
        /\ Count(Tail(chain[a]), "leave") = Count(chain[a], "leave") - 1
    BY <1>1, ChainKeeps DEF IInv
  <2> QED
    BY <2>1, CountType
<1>5. /\ suspended[a] > 0 /\ a \notin holding
      /\ suspended'[a] = suspended[a] - 1 /\ suspended' \in [Agents -> Nat]
      /\ \A b \in Agents \ {a} : suspended'[b] = suspended[b]
  <2>1. suspended[a] > 0
    BY <1>3, <1>4
  <2> QED
    BY <1>1, <1>3, <2>1 DEF IInv, LeaseExact, TypeOK
<1>6. ~Unused(a)' /\ (Running(a)' <=> Running(a))
  BY <1>1, <1>2 DEF Unused, Running
<1>7. ASSUME NEW c, c \in Seq(Transition), Count(c, "leave") = Count(chain[a], "leave") - 1,
             chain' = [chain EXCEPT ![a] = c], Members(c) \subseteq Members(chain[a]) \cup {"regain"},
             active' \in Nat, waiters' \in Seq(Agents), NoRepeats(waiters'), PermitInv',
             holding' \subseteq Agents, \A b \in Agents \ {a} : b \in holding' <=> b \in holding,
             Members(waiters') \subseteq Members(waiters) \cup {a},
             a \in Members(waiters') => WaiterExact(a)',
             a \in holding' => suspended'[a] = 0 /\ a \notin closed,
             Running(a) /\ a \notin closed /\ a \notin aborted /\ suspended'[a] = 0
               => a \in holding' \/ (c # <<>> /\ Head(c) = "regain")
      PROVE  IInv'
  <2>1. /\ chain'[a] = c /\ \A b \in Agents \ {a} : chain'[b] = chain[b]
        /\ chain' \in [Agents -> Seq(Transition)]
    BY <1>7 DEF IInv, TypeOK
  <2>2. TypeOK'
    BY <1>1, <1>5, <1>7, <2>1 DEF IInv, TypeOK
  <2>3. suspended'[a] = inside'[a] + Count(chain'[a], "leave")
    <3>1. Count(chain'[a], "leave") = Count(chain[a], "leave") - 1 /\ inside' = inside
      BY <1>1, <1>7, <2>1
    <3>2. /\ suspended[a] = inside[a] + Count(chain[a], "leave")
          /\ Count(chain[a], "leave") \in Nat /\ inside[a] \in Nat
      BY <1>3
    <3> QED
      <4>1. suspended'[a] = inside[a] + (Count(chain[a], "leave") - 1)
        BY <1>5, <3>2
      <4> QED
        BY <3>1, <4>1
  <2>4. lease'[a] = "open" => a \notin closed' /\ "close" \notin Members(chain'[a])
    BY <1>1, <1>7, <2>1 DEF IInv, LeaseExact
  <2>5. LeaseExact(a)'
    BY <1>1, <1>6, <1>7, <2>1, <2>3, <2>4 DEF LeaseExact, Next1
  <2>6. \A b \in Agents \ {a} : LeaseExact(b)' /\ (WaiterExact(b) => WaiterExact(b)')
    BY <1>1, <1>5, <1>7, <2>1, LeaseUntouched, WaiterUntouched DEF IInv
  <2>7. QueueInv'
    BY <1>2, <1>7, <2>6 DEF IInv, QueueInv
  <2> QED
    BY <1>7, <2>2, <2>5, <2>6, <2>7 DEF IInv
<1>8. CASE ~Regains(a) /\ chain' = [chain EXCEPT ![a] = Tail(@)] /\ UNCHANGED <<active, waiters, holding>>
  <2>1. /\ active' \in Nat /\ waiters' \in Seq(Agents) /\ NoRepeats(waiters') /\ PermitInv'
        /\ holding' \subseteq Agents
    BY <1>8 DEF IInv, TypeOK, PermitInv, QueueInv
  <2>2. ~(a \notin closed /\ a \notin aborted /\ suspended'[a] = 0)
    BY <1>3, <1>5, <1>8 DEF Regains
  <2>3. chain' = [chain EXCEPT ![a] = Tail(chain[a])]
    BY <1>8
  <2> QED
    BY <1>2, <1>4, <1>5, <1>7, <1>8, <2>1, <2>2, <2>3
<1>9. CASE Regains(a) /\ Take(a) /\ chain' = [chain EXCEPT ![a] = Tail(@)]
  <2>1. PermitInv' /\ active' \in Nat /\ waiters' = <<>> /\ holding' = holding \cup {a}
    BY <1>5, <1>9, TakeKeeps
  <2>2. waiters' \in Seq(Agents) /\ NoRepeats(waiters') /\ Members(waiters') = {}
    BY <2>1, EmptyQueue
  <2>3. holding' \subseteq Agents /\ suspended'[a] = 0 /\ a \notin closed
    BY <1>5, <1>9, <2>1 DEF Regains, IInv, TypeOK
  <2>4. chain' = [chain EXCEPT ![a] = Tail(chain[a])]
    BY <1>9
  <2>5. \A b \in Agents \ {a} : b \in holding' <=> b \in holding
    BY <2>1
  <2> QED
    BY <1>4, <1>7, <2>1, <2>2, <2>3, <2>4, <2>5
<1>10. CASE Regains(a) /\ Wait(a) /\ chain' = [chain EXCEPT ![a][1] = "regain"]
  <2> DEFINE c == [chain[a] EXCEPT ![1] = "regain"]
  <2>1. /\ PermitInv' /\ active' = active /\ holding' = holding
        /\ waiters' \in Seq(Agents) /\ NoRepeats(waiters')
        /\ Members(waiters') = Members(waiters) \cup {a}
    BY <1>2, <1>10, WaitKeeps
  <2>2. chain' = [chain EXCEPT ![a] = c]
    BY <1>10
  <2>3. 1 \in 1..Len(chain[a]) /\ chain[a][1] = "leave"
    BY <1>1, TailKeeps
  <2>4. /\ c \in Seq(Transition) /\ Len(c) = Len(chain[a])
        /\ \A i \in 1..Len(chain[a]) : c[i] = IF i = 1 THEN "regain" ELSE chain[a][i]
    BY <1>1, <2>3, ExceptSeq DEF Transition
  <2> HIDE DEF c
  <2>5. Count(c, "leave") = Count(chain[a], "leave") - 1
    <3>1. Positions(c, "leave") = Positions(chain[a], "leave") \ {1}
      BY <2>3, <2>4 DEF Positions
    <3>2. 1 \in Positions(chain[a], "leave")
      BY <2>3 DEF Positions
    <3> QED
      BY <1>1, <3>1, <3>2, CountType, FS_RemoveElement DEF Count
  <2>6. Members(c) \subseteq Members(chain[a]) \cup {"regain"}
    BY <2>4 DEF Members
  <2>7. c # <<>> /\ Head(c) = "regain"
    <3>1. c # <<>>
      BY <2>3, <2>4, EmptySeq
    <3> QED
      BY <2>3, <2>4, <3>1, TailKeeps
  <2>8. /\ suspended'[a] = 0 /\ a \notin closed /\ a \notin aborted
    BY <1>5, <1>10 DEF Regains
  <2>9. Running(a)
    BY <1>2, <2>8 DEF Unused, Running, IInv, TypeOK
  <2>10. WaiterExact(a)'
    <3>1. chain'[a] = c
      BY <2>2 DEF IInv, TypeOK
    <3> QED
      BY <1>1, <1>5, <1>6, <2>1, <2>7, <2>8, <2>9, <3>1 DEF WaiterExact, Next1
  <2>11. active' \in Nat /\ holding' \subseteq Agents
    BY <2>1 DEF IInv, TypeOK
  <2> QED
    BY <1>5, <1>7, <2>1, <2>2, <2>4, <2>5, <2>7, <2>10, <2>11, <2>6
<1> QED
  BY <1>8, <1>9, <1>10 DEF Leave

(* runAgent is past its finally block.                                      *)
LEMMA SettleStep ==
  ASSUME IInv, NEW a \in Agents, Settle(a)
  PROVE  IInv'
<1>1. TypeOK' /\ PermitInv'
  BY DEF Settle, IInv, TypeOK, PermitInv
<1>2. LeaseExact(a)'
  BY DEF Settle, IInv, TypeOK, LeaseExact, Unused, Running
<1>3. \A b \in Agents \ {a} : LeaseExact(b)' /\ (WaiterExact(b) => WaiterExact(b)')
  BY LeaseUntouched, WaiterUntouched DEF Settle, IInv, TypeOK
<1>4. a \notin Members(waiters) /\ Members(waiters) \subseteq Agents
  BY MembersType DEF Settle, IInv, TypeOK, QueueInv, WaiterExact
<1>5. QueueInv'
  BY <1>3, <1>4 DEF Settle, IInv, QueueInv
<1> QED
  BY <1>1, <1>2, <1>3, <1>5 DEF IInv

(* The signal fires: a waiter leaves the queue and what waits for it fails. *)
LEMMA AbortStep ==
  ASSUME IInv, NEW a \in Agents, Abort(a)
  PROVE  IInv'
<1>1. /\ waiters' = RemoveFirst(waiters, a) /\ waiters \in Seq(Agents)
      /\ lease' = [lease EXCEPT ![a] = IF @ = "opening" THEN "over" ELSE @]
      /\ chain' = [chain EXCEPT ![a] = IF Next1(a, "regain") THEN Tail(@) ELSE @]
      /\ aborted' = aborted \cup {a}
      /\ UNCHANGED <<active, holding, suspended, closed, inside, calls>>
  BY DEF Abort, IInv, TypeOK
<1>2. /\ waiters' \in Seq(Agents) /\ NoRepeats(waiters')
      /\ Members(waiters') = Members(waiters) \ {a}
  BY <1>1, RemoveFirstKeeps DEF IInv, QueueInv
<1>3. Members(waiters) \subseteq Agents /\ (waiters' # <<>> => waiters # <<>>)
  BY <1>1, <1>2, MembersType
<1>4. /\ chain'[a] \in Seq(Transition)
      /\ Count(chain'[a], "leave") = Count(chain[a], "leave")
      /\ chain[a] = <<>> => chain'[a] = <<>>
      /\ Members(chain'[a]) \subseteq Members(chain[a])
      /\ \A b \in Agents \ {a} : chain'[b] = chain[b] /\ lease'[b] = lease[b]
  BY <1>1, ChainKeeps DEF IInv, TypeOK, Next1
<1>5. TypeOK'
  BY <1>1, <1>2, <1>4 DEF IInv, TypeOK
<1>6. PermitInv'
  BY <1>1, <1>3 DEF IInv, PermitInv
<1>7. LeaseExact(a)'
  BY <1>1, <1>4 DEF IInv, TypeOK, LeaseExact, Unused
<1>8. \A b \in Agents \ {a} : LeaseExact(b)' /\ (WaiterExact(b) => WaiterExact(b)')
  BY <1>1, <1>4, LeaseUntouched, WaiterUntouched DEF IInv
<1>9. QueueInv'
  BY <1>2, <1>3, <1>8 DEF IInv, QueueInv
<1> QED
  BY <1>5, <1>6, <1>7, <1>8, <1>9 DEF IInv

-----------------------------------------------------------------------------
(* IInv is inductive.                                                       *)
LEMMA InitIInv == Init => IInv
<1> SUFFICES ASSUME Init PROVE IInv
  OBVIOUS
<1>1. TypeOK
  BY EmptyQueue, LimitAssumption DEF Init, TypeOK
<1>2. QueueInv
  BY EmptyQueue DEF Init, QueueInv
<1>3. \A b \in Agents : LeaseExact(b)
  BY CountEmpty, EmptyQueue DEF Init, LeaseExact, Unused, Running
<1>4. PermitInv
  BY LimitAssumption, FS_EmptySet DEF Init, PermitInv
<1> QED
  BY <1>1, <1>2, <1>3, <1>4 DEF IInv

(* Every step preserves IInv: one case for each action.                     *)
LEMMA NextIInv == IInv /\ [Next]_vars => IInv'
<1> SUFFICES ASSUME IInv, [Next]_vars PROVE IInv'
  OBVIOUS
<1>1. CASE UNCHANGED vars
  BY <1>1 DEF vars, IInv, TypeOK, QueueInv, WaiterExact, LeaseExact, Unused, Running, Next1,
              PermitInv
<1>2. CASE Next
  BY <1>2, OpenStep, CallStep, EnterStep, EnterClosedStep, ReturnStep, LeaveStep,
     ExecutorEndsStep, CloseStep, SettleStep, AbortStep DEF Next
<1> QED
  BY <1>1, <1>2

(* What the invariant says of the permits.                                  *)
LEMMA IInvPermits == IInv => PermitsExact
<1> SUFFICES ASSUME IInv PROVE PermitsExact
  OBVIOUS
<1>1. ASSUME NEW a \in Agents, lease[a] = "open", chain[a] = <<>>, inside[a] = 0, a \notin aborted
      PROVE  a \in holding
  <2>1. suspended[a] = 0
    BY <1>1, CountEmpty DEF IInv, LeaseExact
  <2> QED
    BY <1>1, <2>1 DEF IInv, LeaseExact, Running, Next1
<1>2. ASSUME NEW a \in Agents
      PROVE  /\ suspended[a] > 0 => a \notin holding
             /\ a \in closed => a \notin holding /\ \A i \in DOMAIN waiters : waiters[i] # a
  BY LenProperties DEF IInv, TypeOK, LeaseExact, QueueInv, WaiterExact, Members
<1> QED
  BY <1>1, <1>2 DEF IInv, PermitInv, PermitsExact

(* The types of the semaphore and the leases never change.                  *)
THEOREM TypeCorrect == Spec => []TypeOK
<1>1. IInv => TypeOK
  BY DEF IInv
<1> QED
  BY <1>1, InitIInv, NextIInv, PTL DEF Spec

(* Permits are counted exactly, at most Limit are out, nobody waits beside a *)
(* free one, and an executor that computes owns one, for any agents, calls  *)
(* and Limit.                                                               *)
THEOREM PermitsKept == Spec => []PermitsExact
BY IInvPermits, InitIInv, NextIInv, PTL DEF Spec
=============================================================================
