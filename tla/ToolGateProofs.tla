----------------------------- MODULE ToolGateProofs -----------------------------
(***************************************************************************)
(* The approval queue and the tool gate that uses it, for any number of    *)
(* requests, capacity, actions, policies and candidates.                   *)
(*                                                                         *)
(* The queue: what an observer has been told, where present() is and what  *)
(* the promise settled to determine each other (StoryExact), and every     *)
(* open request is in the queue or in the slot (PlaceExact).  The gate:    *)
(* the candidates are counted by due, and an elevated call points at one   *)
(* of them while it waits and runs (GateInv).                              *)
(***************************************************************************)
EXTENDS ToolGate, SequencesExt, FiniteSetTheorems, SequenceTheorems, FunctionTheorems,
        WellFoundedInduction, TLAPS

\* The positions of x in a queue.
Positions(q, x) == {i \in 1..Len(q) : q[i] = x}

\* How often x is in a queue.
Count(q, x) == Cardinality(Positions(q, x))

\* Who is in a queue.
Members(q) == {q[i] : i \in 1..Len(q)}

\* Nobody is in the queue twice.
NoRepeats(q) == \A i, j \in 1..Len(q) : q[i] = q[j] => i = j

\* A queue of numbers in the order in which they were given out.
Ascending(q) == \A i, j \in 1..Len(q) : i < j => q[i] < q[j]

\* What an observer can have been told.
InQueue == <<"queued">>
AtHuman == <<"queued", "presenting">>
Withdrawn == {<<"queued", "cancelled">>, <<"queued", "presenting", "cancelled">>}
GotAnswer == <<"queued", "presenting", "resolved">>

StoryExact(r) ==
  /\ events[r] \in {<<>>, InQueue, AtHuman, GotAnswer} \cup Withdrawn
  /\ events[r] = <<>> => /\ at[r] = "none" /\ r \notin settled /\ r \notin retracting
                         /\ outcome[r] \in {"none", "refused"}
  /\ outcome[r] = "refused" => events[r] = <<>>
  /\ events[r] \in Withdrawn <=> outcome[r] = "cancelled" /\ r \notin retracting
  /\ events[r] = GotAnswer <=> at[r] = "resolving" \/ outcome[r] \in Decision
  /\ at[r] = "noting" => events[r] = InQueue
  /\ events[r] = AtHuman => at[r] # "none" \/ r \in settled
  /\ at[r] \in {"announcing", "asking"} => events[r] = AtHuman \/ events[r] \in Withdrawn
  /\ r \in retracting => outcome[r] = "cancelled"
  /\ r \in settled <=> at[r] = "resolving" \/ outcome[r] \in Decision \cup {"cancelled"}
  /\ at[r] = "resolving" => outcome[r] = "none" /\ answer[r] \in Decision
  /\ at[r] = "leaving" => r \in settled
  /\ outcome[r] \in Decision => answer[r] = outcome[r] /\ at[r] \in {"leaving", "none"}

PlaceExact ==
  /\ \A r \in Requests : at[r] # "none" <=> r = active
  /\ Ascending(pending)
  /\ \A r \in Members(pending) : events[r] # <<>> /\ at[r] = "none" /\ r \notin settled
  /\ pending # <<>> => active # Nobody /\ ~closed
  /\ \A r \in Requests : events[r] # <<>> /\ r \notin settled
                         => r \in Members(pending) \/ r = active
  /\ \A r, q \in Requests : q < r /\ Called(r) => Called(q)
  /\ closeEnded => closed /\ active = Nobody

QueueInv == TypeOK /\ (\A r \in Requests : StoryExact(r)) /\ PlaceExact

-----------------------------------------------------------------------------
(* Every nonempty set of positions has a first one.                         *)
LEMMA FirstPosition ==
  ASSUME NEW S \in SUBSET Nat, S # {}
  PROVE  \E i \in S : \A j \in S : i <= j
<1>1. PICK i \in S : \A j \in S : <<j, i>> \notin OpToRel(<, Nat)
  BY NatLessThanWellFounded, WFMin
<1>2. \A j \in S : ~ (j < i)
  BY <1>1 DEF OpToRel
<1> QED
  BY <1>2

(* Every nonempty set of positions of a queue has a last one.               *)
LEMMA LastPosition ==
  ASSUME NEW n \in Nat, NEW S \in SUBSET (1..n), S # {}
  PROVE  \E i \in S : \A j \in S : j <= i
<1> DEFINE T == {n - i : i \in S}
<1>1. T \in SUBSET Nat /\ T # {}
  <2>1. \A i \in S : n - i \in Nat
    OBVIOUS
  <2> QED
    BY <2>1
<1>2. PICK t \in T : \A u \in T : t <= u
  <2> HIDE DEF T
  <2> QED
    BY <1>1, FirstPosition
<1>3. PICK i \in S : t = n - i
  OBVIOUS
<1>4. \A j \in S : n - i <= n - j
  BY <1>2, <1>3
<1> QED
  BY <1>4

(* What splice(index, 1) leaves of a queue.                                 *)
LEMMA SpliceOne ==
  ASSUME NEW S, NEW q \in Seq(S), NEW n \in 1..Len(q)
  PROVE  LET r == SubSeq(q, 1, n - 1) \o SubSeq(q, n + 1, Len(q))
         IN  /\ r \in Seq(S)
             /\ Len(r) = Len(q) - 1
             /\ \A i \in 1..Len(q) - 1 : i < n => r[i] = q[i]
             /\ \A i \in 1..Len(q) - 1 : n <= i => r[i] = q[i + 1]
<1> DEFINE front == SubSeq(q, 1, n - 1)
           back == SubSeq(q, n + 1, Len(q))
           r == front \o back
<1>1. Len(q) \in Nat /\ n \in Nat
  BY LenProperties
<1>2. /\ front \in Seq(S) /\ Len(front) = n - 1
      /\ \A i \in 1..n - 1 : front[i] = q[i]
  BY <1>1, ElementOfSeq
<1>3. /\ back \in Seq(S) /\ Len(back) = Len(q) - n
      /\ \A i \in 1..Len(q) - n : back[i] = q[n + i]
  BY <1>1, ElementOfSeq
<1> HIDE DEF front, back
<1>4. /\ r \in Seq(S) /\ Len(r) = Len(front) + Len(back)
      /\ \A i \in 1..Len(front) + Len(back) :
           r[i] = IF i <= Len(front) THEN front[i] ELSE back[i - Len(front)]
  BY <1>2, <1>3, ConcatProperties
<1> HIDE DEF r
<1>5. Len(r) = Len(q) - 1
  BY <1>1, <1>2, <1>3, <1>4
<1>6. ASSUME NEW i \in 1..Len(q) - 1, i < n
      PROVE  r[i] = q[i]
  <2>1. i \in 1..n - 1
    BY <1>1, <1>6
  <2>2. i \in 1..Len(front) + Len(back) /\ i <= Len(front)
    BY <1>1, <1>2, <1>3, <2>1
  <2>3. r[i] = front[i]
    BY <1>4, <2>2
  <2> QED
    BY <1>2, <2>1, <2>3
<1>7. ASSUME NEW i \in 1..Len(q) - 1, n <= i
      PROVE  r[i] = q[i + 1]
  <2> DEFINE m == i - (n - 1)
  <2>1. m \in 1..Len(q) - n /\ n + m = i + 1
    BY <1>1, <1>7
  <2>2. /\ i \in 1..Len(front) + Len(back) /\ ~ (i <= Len(front))
        /\ i - Len(front) = m
    BY <1>1, <1>2, <1>3, <1>7
  <2> HIDE DEF m
  <2>3. r[i] = back[m]
    BY <1>4, <2>2
  <2>4. back[m] = q[n + m]
    BY <1>3, <2>1
  <2> QED
    BY <2>1, <2>3, <2>4
<1> QED
  BY <1>4, <1>5, <1>6, <1>7 DEF r, front, back

(* The members of a queue are what it is a queue of.                        *)
LEMMA MembersType ==
  ASSUME NEW S, NEW q \in Seq(S)
  PROVE  Members(q) \subseteq S /\ (Members(q) = {} <=> q = <<>>)
<1>1. \A i \in 1..Len(q) : q[i] \in S
  BY ElementOfSeq
<1>2. q # <<>> => 1 \in 1..Len(q)
  BY EmptySeq, LenProperties
<1>3. q = <<>> => 1..Len(q) = {}
  BY EmptySeq
<1> QED
  BY <1>1, <1>2, <1>3 DEF Members

(* The queue nobody is in.                                                  *)
LEMMA EmptyQueue == Members(<<>>) = {} /\ NoRepeats(<<>>) /\ \A S : <<>> \in Seq(S)
BY EmptySeq DEF Members, NoRepeats

(* push(): the queue keeps what it had, and who was not in it is in it once. *)
LEMMA AppendKeeps ==
  ASSUME NEW S, NEW q \in Seq(S), NEW x \in S
  PROVE  /\ Append(q, x) \in Seq(S) /\ Append(q, x) # <<>>
         /\ Len(Append(q, x)) = Len(q) + 1
         /\ \A i \in 1..Len(q) : Append(q, x)[i] = q[i]
         /\ Append(q, x)[Len(q) + 1] = x
         /\ Members(Append(q, x)) = Members(q) \cup {x}
         /\ Head(Append(q, x)) = IF q = <<>> THEN x ELSE Head(q)
         /\ NoRepeats(q) /\ x \notin Members(q) => NoRepeats(Append(q, x))
<1> DEFINE r == Append(q, x)
<1>1. /\ r \in Seq(S) /\ Len(q) \in Nat /\ Len(r) = Len(q) + 1
      /\ \A i \in 1..Len(q) : r[i] = q[i]
      /\ r[Len(q) + 1] = x
  BY AppendProperties, LenProperties
<1>2. q # <<>> => Len(q) > 0
  BY EmptySeq, LenProperties
<1>3. r # <<>> /\ Head(r) = r[1]
  <2>1. Len(r) # 0
    BY <1>1
  <2>2. r # <<>>
    BY <2>1, EmptySeq
  <2> QED
    BY <1>1, <2>2, HeadTailProperties
<1>4. q # <<>> => Head(q) = q[1]
  BY HeadTailProperties
<1>5. q = <<>> => Len(q) = 0
  BY EmptySeq
<1> HIDE DEF r
<1>6. \A i \in 1..Len(r) : i \in 1..Len(q) \/ i = Len(q) + 1
  BY <1>1
<1>7. Members(r) = Members(q) \cup {x}
  <2>1. 1..Len(r) = (1..Len(q)) \cup {Len(q) + 1}
    BY <1>1
  <2> QED
    BY <1>1, <2>1 DEF Members
<1>8. ASSUME NoRepeats(q), x \notin Members(q)
      PROVE  NoRepeats(r)
  <2>1. \A i \in 1..Len(q) : r[i] # x
    BY <1>1, <1>8 DEF Members
  <2> QED
    BY <1>1, <1>6, <1>8, <2>1 DEF NoRepeats
<1> QED
  BY <1>1, <1>2, <1>3, <1>4, <1>5, <1>7, <1>8 DEF r

(* shift(): the first one leaves, and is not in the queue any more.         *)
LEMMA TailKeeps ==
  ASSUME NEW S, NEW q \in Seq(S), q # <<>>
  PROVE  /\ Tail(q) \in Seq(S) /\ Head(q) \in S /\ Head(q) = q[1]
         /\ Len(q) \in Nat /\ Len(q) >= 1
         /\ Len(Tail(q)) = Len(q) - 1
         /\ \A i \in 1..Len(q) - 1 : Tail(q)[i] = q[i + 1]
         /\ Members(q) = Members(Tail(q)) \cup {Head(q)}
         /\ NoRepeats(q) => NoRepeats(Tail(q)) /\ Head(q) \notin Members(Tail(q))
<1>1. /\ Head(q) \in S /\ Tail(q) \in Seq(S) /\ Len(Tail(q)) = Len(q) - 1
      /\ \A i \in 1..Len(Tail(q)) : Tail(q)[i] = q[i + 1]
  BY HeadTailProperties
<1>2. Len(q) \in Nat /\ Len(q) >= 1
  BY EmptySeq, LenProperties
<1>3. Head(q) = q[1]
  BY HeadTailProperties
<1>4. \A i \in 1..Len(q) - 1 : Tail(q)[i] = q[i + 1] /\ i + 1 \in 1..Len(q)
  BY <1>1, <1>2
<1>5. Members(q) = Members(Tail(q)) \cup {Head(q)}
  <2>1. ASSUME NEW j \in 1..Len(q)
        PROVE  q[j] = Head(q) \/ q[j] \in Members(Tail(q))
    <3>1. CASE j = 1
      BY <1>3, <3>1
    <3>2. CASE j # 1
      <4>1. j - 1 \in 1..Len(Tail(q)) /\ Tail(q)[j - 1] = q[j]
        BY <1>1, <1>2, <3>2
      <4> QED
        BY <4>1 DEF Members
    <3> QED
      BY <3>1, <3>2
  <2>2. \A i \in 1..Len(Tail(q)) : Tail(q)[i] \in Members(q)
    BY <1>1, <1>4 DEF Members
  <2>3. Head(q) \in Members(q)
    BY <1>2, <1>3 DEF Members
  <2> QED
    BY <2>1, <2>2, <2>3 DEF Members
<1>6. ASSUME NoRepeats(q)
      PROVE  NoRepeats(Tail(q)) /\ Head(q) \notin Members(Tail(q))
  <2>1. \A i \in 1..Len(q) - 1 : q[i + 1] # q[1]
    BY <1>2, <1>6 DEF NoRepeats
  <2>2. ASSUME NEW i \in 1..Len(Tail(q)), NEW j \in 1..Len(Tail(q)), Tail(q)[i] = Tail(q)[j]
        PROVE  i = j
    <3>1. q[i + 1] = q[j + 1] /\ i + 1 \in 1..Len(q) /\ j + 1 \in 1..Len(q)
      BY <1>1, <1>4, <2>2
    <3>2. i + 1 = j + 1
      BY <1>6, <3>1 DEF NoRepeats
    <3> QED
      BY <1>1, <1>2, <3>2
  <2> QED
    BY <1>1, <1>3, <1>4, <2>1, <2>2 DEF NoRepeats, Members
<1> QED
  BY <1>1, <1>2, <1>3, <1>5, <1>6

(* RemoveFirst is indexOf and splice.                                       *)
LEMMA RemoveFirstIsSplice ==
  ASSUME NEW S, NEW q \in Seq(S), NEW x, \E i \in 1..Len(q) : q[i] = x
  PROVE  \E n \in 1..Len(q) : q[n] = x /\ RemoveFirst(q, x) = RemoveAt(q, n)
<1> DEFINE I == {i \in 1..Len(q) : q[i] = x}
<1>1. RemoveFirst(q, x) = RemoveAt(q, Min(I))
  BY DEF RemoveFirst, SelectInSeq
<1>2. I \in SUBSET Nat /\ I # {}
  OBVIOUS
<1>3. Min(I) \in I
  <2>1. \E i \in I : \A j \in I : i <= j
    <3> HIDE DEF I
    <3> QED
      BY <1>2, FirstPosition
  <2> QED
    BY <2>1 DEF Min
<1> QED
  BY <1>1, <1>3

(* splice(indexOf(x), 1): x leaves the queue, nobody joins it.              *)
LEMMA RemoveFirstKeeps ==
  ASSUME NEW S, NEW q \in Seq(S), NEW x
  PROVE  LET r == RemoveFirst(q, x)
         IN  /\ r \in Seq(S)
             /\ Members(r) \subseteq Members(q)
             /\ NoRepeats(q) => NoRepeats(r) /\ Members(r) = Members(q) \ {x}
             /\ x \notin Members(q) => r = q
<1> DEFINE r == RemoveFirst(q, x)
<1>1. CASE x \notin Members(q)
  BY <1>1 DEF RemoveFirst, Members
<1>2. CASE x \in Members(q)
  <2>1. PICK n \in 1..Len(q) : q[n] = x /\ r = RemoveAt(q, n)
    BY <1>2, RemoveFirstIsSplice DEF Members
  <2>2. Len(q) \in Nat
    BY LenProperties
  <2>3. /\ r \in Seq(S)
        /\ Len(r) = Len(q) - 1
        /\ \A i \in 1..Len(q) - 1 : i < n => r[i] = q[i]
        /\ \A i \in 1..Len(q) - 1 : n <= i => r[i] = q[i + 1]
    BY <2>1, SpliceOne DEF RemoveAt
  <2> HIDE DEF r
  <2>4. \A i \in 1..Len(r) : \E j \in 1..Len(q) : r[i] = q[j] /\ j # n
    <3> SUFFICES ASSUME NEW i \in 1..Len(r)
                 PROVE  \E j \in 1..Len(q) : r[i] = q[j] /\ j # n
      OBVIOUS
    <3>1. CASE i < n
      BY <2>2, <2>3, <3>1
    <3>2. CASE n <= i
      <4>1. i + 1 \in 1..Len(q) /\ i + 1 # n /\ r[i] = q[i + 1]
        BY <2>2, <2>3, <3>2
      <4> QED
        BY <4>1
    <3> QED
      BY <2>2, <2>3, <3>1, <3>2
  <2>5. Members(r) \subseteq Members(q)
    BY <2>4 DEF Members
  <2>6. ASSUME NoRepeats(q)
        PROVE  NoRepeats(r) /\ Members(r) = Members(q) \ {x}
    <3>1. Members(r) = Members(q) \ {x}
      <4>1. \A i \in 1..Len(r) : r[i] # x
        BY <2>1, <2>4, <2>6 DEF NoRepeats
      <4>2. ASSUME NEW j \in 1..Len(q), j # n
            PROVE  q[j] \in Members(r)
        <5>1. CASE j < n
          <6>1. j \in 1..Len(r) /\ r[j] = q[j]
            BY <2>2, <2>3, <5>1
          <6> QED
            BY <6>1 DEF Members
        <5>2. CASE j > n
          <6>1. j - 1 \in 1..Len(r) /\ r[j - 1] = q[j]
            BY <2>2, <2>3, <5>2
          <6> QED
            BY <6>1 DEF Members
        <5> QED
          BY <2>2, <4>2, <5>1, <5>2
      <4> QED
        BY <2>1, <2>5, <4>1, <4>2 DEF Members
    <3>2. ASSUME NEW i \in 1..Len(r), NEW j \in 1..Len(r), r[i] = r[j]
          PROVE  i = j
      <4> DEFINE back(m) == IF m < n THEN m ELSE m + 1
      <4>1. \A m \in 1..Len(r) : back(m) \in 1..Len(q) /\ r[m] = q[back(m)]
        BY <2>2, <2>3
      <4>2. back(i) = back(j)
        <5> HIDE DEF back
        <5> QED
          BY <2>6, <3>2, <4>1 DEF NoRepeats
      <4> QED
        BY <2>2, <2>3, <4>2
    <3> QED
      BY <3>1, <3>2 DEF NoRepeats
  <2> QED
    BY <1>2, <2>3, <2>4, <2>5, <2>6 DEF r
<1> QED
  BY <1>1, <1>2

(* A queue in order stays in order, and nobody is in it twice.              *)
LEMMA OrderKept ==
  ASSUME NEW q \in Seq(Nat), Ascending(q)
  PROVE  /\ NoRepeats(q)
         /\ \A x \in Nat : (\A y \in Members(q) : y < x) => Ascending(Append(q, x))
         /\ q # <<>> => Ascending(Tail(q)) /\ \A y \in Members(Tail(q)) : Head(q) < y
         /\ \A x : Ascending(RemoveFirst(q, x))
<1>1. Len(q) \in Nat /\ \A i \in 1..Len(q) : q[i] \in Nat
  BY LenProperties, ElementOfSeq
<1>2. NoRepeats(q)
  BY <1>1 DEF NoRepeats, Ascending
<1>3. ASSUME NEW x \in Nat, \A y \in Members(q) : y < x
      PROVE  Ascending(Append(q, x))
  <2>1. /\ Len(Append(q, x)) = Len(q) + 1
        /\ \A i \in 1..Len(q) : Append(q, x)[i] = q[i]
        /\ Append(q, x)[Len(q) + 1] = x
    BY AppendKeeps
  <2>2. \A i \in 1..Len(q) : q[i] < x
    BY <1>3 DEF Members
  <2> QED
    BY <1>1, <2>1, <2>2 DEF Ascending
<1>4. ASSUME q # <<>>
      PROVE  Ascending(Tail(q)) /\ \A y \in Members(Tail(q)) : Head(q) < y
  <2>1. /\ Head(q) = q[1] /\ Len(q) >= 1 /\ Len(Tail(q)) = Len(q) - 1
        /\ \A i \in 1..Len(q) - 1 : Tail(q)[i] = q[i + 1]
    BY <1>4, TailKeeps
  <2>2. \A i \in 1..Len(Tail(q)) : i + 1 \in 1..Len(q) /\ 1 < i + 1
    BY <1>1, <2>1
  <2>3. ASSUME NEW i \in 1..Len(Tail(q)), NEW j \in 1..Len(Tail(q)), i < j
        PROVE  Tail(q)[i] < Tail(q)[j]
    <3>1. i + 1 \in 1..Len(q) /\ j + 1 \in 1..Len(q) /\ i + 1 < j + 1
      BY <2>2, <2>3
    <3>2. q[i + 1] < q[j + 1]
      BY <3>1 DEF Ascending
    <3> QED
      BY <1>1, <2>1, <3>2
  <2>4. \A i \in 1..Len(Tail(q)) : Head(q) < Tail(q)[i]
    BY <1>1, <2>1, <2>2 DEF Ascending
  <2> QED
    BY <2>3, <2>4 DEF Ascending, Members
<1>5. ASSUME NEW x
      PROVE  Ascending(RemoveFirst(q, x))
  <2>1. CASE x \notin Members(q)
    BY <2>1, RemoveFirstKeeps
  <2>2. CASE x \in Members(q)
    <3> DEFINE r == RemoveFirst(q, x)
    <3>1. PICK n \in 1..Len(q) : r = RemoveAt(q, n)
      BY <2>2, RemoveFirstIsSplice DEF Members
    <3> DEFINE back(i) == IF i < n THEN i ELSE i + 1
    <3>2. /\ Len(r) = Len(q) - 1
          /\ \A i \in 1..Len(q) - 1 : i < n => r[i] = q[i]
          /\ \A i \in 1..Len(q) - 1 : n <= i => r[i] = q[i + 1]
      BY <3>1, SpliceOne DEF RemoveAt
    <3> HIDE DEF r
    <3>3. \A i \in 1..Len(r) : back(i) \in 1..Len(q) /\ r[i] = q[back(i)]
      BY <1>1, <3>2
    <3>4. \A i, j \in 1..Len(r) : i < j => back(i) < back(j)
      BY <1>1, <3>2
    <3> HIDE DEF back
    <3>5. Ascending(r)
      BY <3>3, <3>4 DEF Ascending
    <3> QED
      BY <3>5 DEF r
  <2> QED
    BY <2>1, <2>2
<1> QED
  BY <1>2, <1>3, <1>4, <1>5

(* A queue is finite, so counting it makes sense.                           *)
LEMMA CountType ==
  ASSUME NEW S, NEW q \in Seq(S), NEW x
  PROVE  IsFiniteSet(Positions(q, x)) /\ Count(q, x) \in Nat
<1>1. IsFiniteSet(1..Len(q))
  BY LenProperties, FS_Interval
<1>2. IsFiniteSet(Positions(q, x))
  BY <1>1, FS_Subset DEF Positions
<1> QED
  BY <1>2, FS_CardinalityType DEF Count

(* The empty queue counts nothing.                                         *)
LEMMA CountEmpty == ASSUME NEW x PROVE Count(<<>>, x) = 0
<1>1. Positions(<<>>, x) = {}
  BY EmptySeq DEF Positions
<1> QED
  BY <1>1, FS_EmptySet DEF Count

(* push() counts one more of what it adds.                                  *)
LEMMA CountAppend ==
  ASSUME NEW S, NEW q \in Seq(S), NEW y \in S, NEW x
  PROVE  Count(Append(q, y), x) = IF x = y THEN Count(q, x) + 1 ELSE Count(q, x)
<1>1. /\ Len(Append(q, y)) = Len(q) + 1 /\ Len(q) \in Nat
      /\ \A i \in 1..Len(q) : Append(q, y)[i] = q[i]
      /\ Append(q, y)[Len(q) + 1] = y
  BY AppendKeeps, LenProperties
<1>2. CASE x = y
  <2>1. Positions(Append(q, y), x) = Positions(q, x) \cup {Len(q) + 1}
    BY <1>1, <1>2 DEF Positions
  <2>2. Len(q) + 1 \notin Positions(q, x)
    BY <1>1 DEF Positions
  <2>3. Cardinality(Positions(q, x) \cup {Len(q) + 1}) = Cardinality(Positions(q, x)) + 1
    BY <2>2, CountType, FS_AddElement
  <2> QED
    BY <1>2, <2>1, <2>3 DEF Count
<1>3. CASE x # y
  <2>1. Positions(Append(q, y), x) = Positions(q, x)
    BY <1>1, <1>3 DEF Positions
  <2> QED
    BY <1>3, <2>1 DEF Count
<1> QED
  BY <1>2, <1>3

(* splice(n, 1) counts one less of what it takes away.                      *)
LEMMA CountRemoveAt ==
  ASSUME NEW S, NEW q \in Seq(S), NEW n \in 1..Len(q), NEW x
  PROVE  Count(RemoveAt(q, n), x) = IF q[n] = x THEN Count(q, x) - 1 ELSE Count(q, x)
<1> DEFINE r == RemoveAt(q, n)
           back(m) == IF m < n THEN m ELSE m + 1
           P == Positions(q, x) \ {n}
<1>0. Len(q) \in Nat /\ n \in Nat
  BY LenProperties
<1>1. /\ r \in Seq(S) /\ Len(r) = Len(q) - 1
      /\ \A i \in 1..Len(q) - 1 : r[i] = q[back(i)]
  <2>1. /\ r \in Seq(S)
        /\ Len(r) = Len(q) - 1
        /\ \A i \in 1..Len(q) - 1 : i < n => r[i] = q[i]
        /\ \A i \in 1..Len(q) - 1 : n <= i => r[i] = q[i + 1]
    BY SpliceOne DEF RemoveAt
  <2> HIDE DEF r
  <2> QED
    BY <1>0, <2>1
<1> HIDE DEF r
<1>2. \A i \in 1..Len(r) : back(i) \in 1..Len(q) /\ back(i) # n
  BY <1>0, <1>1
<1>3. \A j \in 1..Len(q) : j # n => \E i \in 1..Len(r) : back(i) = j
  <2> SUFFICES ASSUME NEW j \in 1..Len(q), j # n
               PROVE  \E i \in 1..Len(r) : back(i) = j
    OBVIOUS
  <2>1. CASE j < n
    <3>1. j \in 1..Len(r) /\ back(j) = j
      BY <1>0, <1>1, <2>1
    <3> QED
      BY <3>1
  <2>2. CASE j > n
    <3>1. j - 1 \in 1..Len(r) /\ back(j - 1) = j
      BY <1>0, <1>1, <2>2
    <3> QED
      BY <3>1
  <2> QED
    BY <1>0, <2>1, <2>2
<1>4. \A i, j \in 1..Len(r) : back(i) = back(j) => i = j
  BY <1>0, <1>1
<1>5. Cardinality(Positions(r, x)) = Cardinality(P)
  <2> DEFINE f == [i \in Positions(r, x) |-> back(i)]
  <2>1. f \in [Positions(r, x) -> P]
    BY <1>1, <1>2 DEF Positions
  <2>2. \A j \in P : \E i \in Positions(r, x) : f[i] = j
    <3> SUFFICES ASSUME NEW j \in P PROVE \E i \in Positions(r, x) : f[i] = j
      OBVIOUS
    <3>1. PICK i \in 1..Len(r) : back(i) = j
      BY <1>3 DEF Positions
    <3>2. i \in Positions(r, x)
      BY <1>1, <3>1 DEF Positions
    <3> QED
      BY <3>1, <3>2
  <2>3. \A i, j \in Positions(r, x) : f[i] = f[j] => i = j
    BY <1>4 DEF Positions
  <2> HIDE DEF f
  <2>4. f \in Bijection(Positions(r, x), P)
    BY <2>1, <2>2, <2>3, Fun_IsBij
  <2>5. ExistsBijection(Positions(r, x), P)
    BY <2>4 DEF ExistsBijection
  <2>6. IsFiniteSet(Positions(r, x))
    BY <1>1, CountType
  <2> QED
    BY <2>5, <2>6, FS_Bijection
<1>6. CASE q[n] = x
  <2>1. n \in Positions(q, x)
    BY <1>6 DEF Positions
  <2>2. Cardinality(P) = Cardinality(Positions(q, x)) - 1
    BY <2>1, CountType, FS_RemoveElement
  <2> QED
    BY <1>5, <1>6, <2>2 DEF Count, r
<1>7. CASE q[n] # x
  <2>1. P = Positions(q, x)
    BY <1>7 DEF Positions
  <2> QED
    BY <1>5, <1>7, <2>1 DEF Count, r
<1> QED
  BY <1>6, <1>7

-----------------------------------------------------------------------------
(* The stories are told apart by their length and their last event.         *)
LEMMA Stories ==
  /\ Append(InQueue, "presenting") = AtHuman
  /\ Append(AtHuman, "resolved") = GotAnswer
  /\ Append(InQueue, "cancelled") \in Withdrawn /\ Append(AtHuman, "cancelled") \in Withdrawn
  /\ InQueue # <<>> /\ AtHuman # <<>> /\ GotAnswer # <<>> /\ <<>> \notin Withdrawn
  /\ InQueue # AtHuman /\ InQueue # GotAnswer /\ AtHuman # GotAnswer
  /\ InQueue \notin Withdrawn /\ AtHuman \notin Withdrawn /\ GotAnswer \notin Withdrawn
  /\ Story = {InQueue, AtHuman, GotAnswer} \cup Withdrawn
  /\ \A s \in {InQueue, AtHuman, GotAnswer} :
       s[Len(s)] # "cancelled" /\ \A i \in DOMAIN s : s[i] # "cancelled"
<1> USE DEF InQueue, AtHuman, GotAnswer, Withdrawn
<1>1. /\ Append(InQueue, "presenting") = AtHuman
      /\ Append(AtHuman, "resolved") = GotAnswer
      /\ Append(InQueue, "cancelled") \in Withdrawn /\ Append(AtHuman, "cancelled") \in Withdrawn
  <2> DEFINE E == {"queued", "presenting", "resolved", "cancelled"}
  <2>1. ASSUME NEW x \in E, NEW y \in E, NEW z \in E
        PROVE  Append(<<x>>, y) = <<x, y>> /\ Append(<<x, y>>, z) = <<x, y, z>>
    <3>1. /\ <<x>> \in Seq(E) /\ Len(<<x>>) = 1
          /\ <<x, y>> \in Seq(E) /\ Len(<<x, y>>) = 2
          /\ <<x, y, z>> \in Seq(E) /\ Len(<<x, y, z>>) = 3
      OBVIOUS
    <3> HIDE DEF E
    <3>2. Append(<<x>>, y) = <<x, y>>
      <4>1. /\ Append(<<x>>, y) \in Seq(E) /\ Len(Append(<<x>>, y)) = 1 + 1
            /\ Append(<<x>>, y)[1] = x /\ Append(<<x>>, y)[1 + 1] = y
        BY <3>1, AppendKeeps
      <4>2. \A i \in 1..2 : Append(<<x>>, y)[i] = <<x, y>>[i]
        BY <4>1
      <4>3. Len(Append(<<x>>, y)) = Len(<<x, y>>) /\ 1..Len(Append(<<x>>, y)) = 1..2
        BY <3>1, <4>1
      <4> QED
        BY ONLY <3>1, <4>1, <4>2, <4>3, SeqEqual, Zenon
    <3>3. Append(<<x, y>>, z) = <<x, y, z>>
      <4>1. /\ Append(<<x, y>>, z) \in Seq(E) /\ Len(Append(<<x, y>>, z)) = 2 + 1
            /\ Append(<<x, y>>, z)[1] = x /\ Append(<<x, y>>, z)[2] = y
            /\ Append(<<x, y>>, z)[2 + 1] = z
        BY <3>1, AppendKeeps
      <4>2. \A i \in 1..3 : Append(<<x, y>>, z)[i] = <<x, y, z>>[i]
        BY <4>1
      <4>3. Len(Append(<<x, y>>, z)) = Len(<<x, y, z>>) /\ 1..Len(Append(<<x, y>>, z)) = 1..3
        BY <3>1, <4>1
      <4> QED
        BY ONLY <3>1, <4>1, <4>2, <4>3, SeqEqual, Zenon
    <3> QED
      BY <3>2, <3>3
  <2> QED
    BY <2>1
<1>2. InQueue # <<>> /\ AtHuman # <<>> /\ GotAnswer # <<>> /\ <<>> \notin Withdrawn
  OBVIOUS
<1>3. InQueue # AtHuman /\ InQueue # GotAnswer /\ AtHuman # GotAnswer
  OBVIOUS
<1>4. InQueue \notin Withdrawn /\ AtHuman \notin Withdrawn /\ GotAnswer \notin Withdrawn
  OBVIOUS
<1>5. Story = {InQueue, AtHuman, GotAnswer} \cup Withdrawn
  BY DEF Story
<1>6. InQueue[Len(InQueue)] # "cancelled" /\ \A i \in DOMAIN InQueue : InQueue[i] # "cancelled"
  OBVIOUS
<1>7. AtHuman[Len(AtHuman)] # "cancelled" /\ \A i \in DOMAIN AtHuman : AtHuman[i] # "cancelled"
  OBVIOUS
<1>8. /\ GotAnswer[Len(GotAnswer)] # "cancelled"
      /\ \A i \in DOMAIN GotAnswer : GotAnswer[i] # "cancelled"
  OBVIOUS
<1> HIDE DEF InQueue, AtHuman, GotAnswer, Withdrawn
<1> QED
  BY <1>1, <1>2, <1>3, <1>4, <1>5, <1>6, <1>7, <1>8

(* A request is not Nobody.                                                 *)
LEMMA RequestsAreNumbers ==
  /\ Requests \subseteq Nat /\ Nobody \notin Requests
  /\ \A S \in SUBSET Requests : S \in SUBSET Nat
BY CallsAssumption DEF Requests, Nobody

(* A step that leaves everything about r alone leaves its story alone.      *)
LEMMA StoryUntouched ==
  ASSUME NEW r \in Requests, StoryExact(r),
         events'[r] = events[r], at'[r] = at[r], outcome'[r] = outcome[r], answer'[r] = answer[r],
         r \in settled' <=> r \in settled, r \in retracting' <=> r \in retracting
  PROVE  StoryExact(r)'
BY DEF StoryExact

(* drain() into a free slot: the first in the queue gets it.                *)
LEMMA DrainKeeps ==
  ASSUME NEW queue \in Seq(Requests), Ascending(queue), closed \in BOOLEAN,
         closed => queue = <<>>,
         NEW places, Drain(queue, places),
         places \in [Requests -> {"none", "noting", "announcing", "asking", "resolving", "leaving"}],
         \A r \in Requests : places[r] = "none"
  PROVE  /\ pending' \in Seq(Requests) /\ Ascending(pending')
         /\ active' \in Requests \cup {Nobody}
         /\ at' \in [Requests -> {"none", "noting", "announcing", "asking", "resolving", "leaving"}]
         /\ \A r \in Requests : at'[r] = IF r = active' THEN "noting" ELSE "none"
         /\ pending' # <<>> => active' # Nobody /\ ~closed
         /\ Members(queue) = Members(pending') \cup ({active'} \ {Nobody})
         /\ active' \notin Members(pending')
         /\ active' # Nobody => \A q \in Members(queue) : active' <= q
<1>1. queue \in Seq(Nat)
  BY RequestsAreNumbers, SeqMonotonic
<1>2. CASE queue = <<>>
  <2>1. pending' = queue /\ active' = Nobody /\ at' = places
    BY <1>2 DEF Drain
  <2> QED
    BY <1>2, <2>1, EmptyQueue, RequestsAreNumbers
<1>3. CASE queue # <<>>
  <2>1. /\ pending' = Tail(queue) /\ active' = Head(queue)
        /\ at' = [places EXCEPT ![Head(queue)] = "noting"]
    BY <1>3 DEF Drain
  <2>2. /\ Tail(queue) \in Seq(Requests) /\ Head(queue) \in Requests
        /\ Members(queue) = Members(Tail(queue)) \cup {Head(queue)}
        /\ Ascending(Tail(queue)) /\ Head(queue) \notin Members(Tail(queue))
        /\ \A q \in Members(Tail(queue)) : Head(queue) < q
    BY <1>1, <1>3, TailKeeps, OrderKept
  <2>3. Head(queue) # Nobody /\ Head(queue) \in Nat /\ Members(Tail(queue)) \subseteq Nat
    BY <2>2, RequestsAreNumbers, MembersType
  <2> QED
    BY <1>3, <2>1, <2>2, <2>3
<1> QED
  BY <1>2, <1>3

LEMMA StoriesAreSequences ==
  {<<>>, InQueue, AtHuman, GotAnswer} \cup Withdrawn
    \subseteq Seq({"queued", "presenting", "resolved", "cancelled"})
BY DEF InQueue, AtHuman, GotAnswer, Withdrawn

(* A step inside the slot, or about a request that is in neither place.     *)
LEMMA PlaceKept ==
  ASSUME TypeOK, PlaceExact, UNCHANGED <<pending, active, closed, closeEnded>>,
         \A q \in Requests : /\ at'[q] # "none" <=> at[q] # "none"
                             /\ events'[q] # <<>> <=> events[q] # <<>>
                             /\ Called(q)' <=> Called(q),
         settled \subseteq settled', \A q \in settled' \ settled : q = active
  PROVE  PlaceExact'
<1>1. Members(pending) \subseteq Requests
  BY MembersType DEF TypeOK
<1>2. \A q \in Members(pending) : q # active
  BY <1>1 DEF PlaceExact
<1> QED
  BY <1>1, <1>2 DEF PlaceExact

-----------------------------------------------------------------------------
(* enqueue() refuses the next call.                                         *)
LEMMA RefuseKeeps ==
  ASSUME QueueInv, NEW r \in Requests, NEW signalAborted \in BOOLEAN, Refuse(r, signalAborted)
  PROVE  QueueInv'
<1>1. /\ outcome' = [outcome EXCEPT ![r] = "refused"]
      /\ UNCHANGED <<pending, active, at, settled, answer, noted, retracting, events,
                     closed, closeEnded>>
      /\ outcome[r] = "none" /\ events[r] = <<>> /\ \A q \in 1..(r - 1) : Called(q)
  BY DEF Refuse, NextCall, Called
<1>2. TypeOK'
  BY <1>1 DEF QueueInv, TypeOK
<1>3. outcome'[r] = "refused" /\ \A q \in Requests \ {r} : outcome'[q] = outcome[q]
  BY <1>1 DEF QueueInv, TypeOK
<1>4. StoryExact(r)'
  BY <1>1, <1>3, Stories DEF QueueInv, StoryExact, Decision
<1>5. \A q \in Requests \ {r} : StoryExact(q)'
  BY <1>1, <1>3, StoryUntouched DEF QueueInv
<1>6. PlaceExact'
  <2>1. \A q \in Requests : Called(q)' <=> Called(q) \/ q = r
    BY <1>1, <1>3 DEF Called
  <2>2. \A q \in Requests : q < r => Called(q)
    BY <1>1, CallsAssumption DEF Requests
  <2>3. \A p, q \in Requests : q < p /\ Called(p)' => Called(q)'
    BY <2>1, <2>2 DEF QueueInv, PlaceExact
  <2> QED
    BY <1>1, <2>3 DEF QueueInv, PlaceExact
<1> QED
  BY <1>2, <1>4, <1>5, <1>6 DEF QueueInv

(* The observer is done with "queued".                                      *)
LEMMA NoteKeeps ==
  ASSUME QueueInv, NEW r \in Requests, Note(r)
  PROVE  QueueInv'
<1>1. /\ noted' = noted \cup {r}
      /\ UNCHANGED <<pending, active, at, settled, answer, outcome, retracting, events,
                     closed, closeEnded>>
  BY DEF Note
<1>2. TypeOK'
  BY <1>1 DEF QueueInv, TypeOK
<1>3. \A q \in Requests : StoryExact(q)'
  BY <1>1, StoryUntouched DEF QueueInv
<1>4. PlaceExact'
  BY <1>1 DEF QueueInv, PlaceExact, Called
<1> QED
  BY <1>2, <1>3, <1>4 DEF QueueInv

(* present() emits "presenting".                                            *)
LEMMA AnnounceKeeps ==
  ASSUME QueueInv, NEW r \in Requests, Announce(r)
  PROVE  QueueInv'
<1>1. /\ at[r] = "noting"
      /\ events' = [events EXCEPT ![r] = Append(@, "presenting")]
      /\ at' = [at EXCEPT ![r] = "announcing"]
      /\ UNCHANGED <<pending, active, settled, answer, outcome, noted, retracting,
                     closed, closeEnded>>
  BY DEF Announce
<1>2. events[r] = InQueue
  BY <1>1 DEF QueueInv, StoryExact
<1>3. /\ events'[r] = AtHuman /\ at'[r] = "announcing"
      /\ \A q \in Requests \ {r} : events'[q] = events[q] /\ at'[q] = at[q]
  BY <1>1, <1>2, Stories DEF QueueInv, TypeOK
<1>4. TypeOK'
  <2>1. events' \in [Requests -> Seq({"queued", "presenting", "resolved", "cancelled"})]
    BY <1>1, <1>2, Stories, StoriesAreSequences DEF QueueInv, TypeOK
  <2> QED
    BY <1>1, <2>1 DEF QueueInv, TypeOK
<1>5. StoryExact(r)'
  BY <1>1, <1>2, <1>3, Stories DEF QueueInv, StoryExact, Decision
<1>6. \A q \in Requests \ {r} : StoryExact(q)'
  BY <1>1, <1>3, StoryUntouched DEF QueueInv
<1>7. PlaceExact'
  <2>1. \A q \in Requests : /\ at'[q] # "none" <=> at[q] # "none"
                            /\ events'[q] # <<>> <=> events[q] # <<>>
                            /\ Called(q)' <=> Called(q)
    BY <1>1, <1>2, <1>3, Stories DEF Called
  <2> QED
    BY <1>1, <2>1, PlaceKept DEF QueueInv
<1> QED
  BY <1>4, <1>5, <1>6, <1>7 DEF QueueInv

(* The observer is done with "presenting".                                  *)
LEMMA AskKeeps ==
  ASSUME QueueInv, NEW r \in Requests, Ask(r)
  PROVE  QueueInv'
<1>1. /\ at[r] = "announcing"
      /\ at' = [at EXCEPT ![r] = IF r \in settled THEN "leaving" ELSE "asking"]
      /\ UNCHANGED <<pending, active, settled, answer, outcome, noted, retracting, events,
                     closed, closeEnded>>
  BY DEF Ask
<1>2. /\ at'[r] = IF r \in settled THEN "leaving" ELSE "asking"
      /\ \A q \in Requests \ {r} : at'[q] = at[q]
  BY <1>1 DEF QueueInv, TypeOK
<1>3. TypeOK'
  BY <1>1 DEF QueueInv, TypeOK
<1>4. StoryExact(r)'
  BY <1>1, <1>2, Stories DEF QueueInv, StoryExact, Decision
<1>5. \A q \in Requests \ {r} : StoryExact(q)'
  BY <1>1, <1>2, StoryUntouched DEF QueueInv
<1>6. PlaceExact'
  <2>1. \A q \in Requests : at'[q] # "none" <=> at[q] # "none"
    BY <1>1, <1>2
  <2> QED
    BY <1>1, <2>1, PlaceKept DEF QueueInv, Called
<1> QED
  BY <1>3, <1>4, <1>5, <1>6 DEF QueueInv

(* The presenter returns a decision.                                        *)
LEMMA AnswerKeeps ==
  ASSUME QueueInv, NEW r \in Requests, NEW decision \in Decision, Answer(r, decision)
  PROVE  QueueInv'
<1>1. /\ at[r] = "asking" /\ answer' = [answer EXCEPT ![r] = decision]
      /\ UNCHANGED <<pending, active, outcome, noted, retracting, closed, closeEnded>>
  BY DEF Answer
<1>2. /\ answer' \in [Requests -> Decision \cup {"none", "failed"}]
      /\ answer'[r] = decision
      /\ \A q \in Requests \ {r} : answer'[q] = answer[q]
  BY <1>1 DEF QueueInv, TypeOK
<1>3. r = active
  BY <1>1 DEF QueueInv, PlaceExact
<1>4. CASE r \in settled
  <2>1. at' = [at EXCEPT ![r] = "leaving"] /\ UNCHANGED <<settled, events>>
    BY <1>4 DEF Answer
  <2>2. at'[r] = "leaving" /\ \A q \in Requests \ {r} : at'[q] = at[q]
    BY <2>1 DEF QueueInv, TypeOK
  <2>3. TypeOK'
    BY <1>1, <1>2, <2>1 DEF QueueInv, TypeOK
  <2>4. StoryExact(r)'
    BY <1>1, <1>2, <1>4, <2>1, <2>2, Stories DEF QueueInv, StoryExact, Decision
  <2>5. \A q \in Requests \ {r} : StoryExact(q)'
    BY <1>1, <1>2, <2>1, <2>2, StoryUntouched DEF QueueInv
  <2>6. PlaceExact'
    <3>1. \A q \in Requests : at'[q] # "none" <=> at[q] # "none"
      BY <1>1, <2>2
    <3> QED
      BY <1>1, <2>1, <3>1, PlaceKept DEF QueueInv, Called
  <2> QED
    BY <2>3, <2>4, <2>5, <2>6 DEF QueueInv
<1>5. CASE r \notin settled
  <2>1. /\ at' = [at EXCEPT ![r] = "resolving"]
        /\ settled' = settled \cup {r}
        /\ events' = [events EXCEPT ![r] = Append(@, "resolved")]
    BY <1>5 DEF Answer
  <2>2. events[r] = AtHuman /\ r \notin retracting /\ outcome[r] = "none"
    BY <1>1, <1>5, Stories DEF QueueInv, StoryExact, TypeOK
  <2>3. /\ events'[r] = GotAnswer /\ at'[r] = "resolving"
        /\ \A q \in Requests \ {r} : events'[q] = events[q] /\ at'[q] = at[q]
    BY <2>1, <2>2, Stories DEF QueueInv, TypeOK
  <2>4. TypeOK'
    <3>1. events' \in [Requests -> Seq({"queued", "presenting", "resolved", "cancelled"})]
      BY <2>1, <2>2, Stories, StoriesAreSequences DEF QueueInv, TypeOK
    <3> QED
      BY <1>1, <1>2, <2>1, <3>1 DEF QueueInv, TypeOK
  <2>5. StoryExact(r)'
    BY <1>1, <1>2, <2>1, <2>2, <2>3, Stories DEF QueueInv, StoryExact, Decision
  <2>6. \A q \in Requests \ {r} : StoryExact(q)'
    BY <1>1, <1>2, <2>1, <2>3, StoryUntouched DEF QueueInv
  <2>7. PlaceExact'
    <3>1. \A q \in Requests : /\ at'[q] # "none" <=> at[q] # "none"
                              /\ events'[q] # <<>> <=> events[q] # <<>>
                              /\ Called(q)' <=> Called(q)
      BY <1>1, <2>2, <2>3, Stories DEF Called
    <3> QED
      BY <1>1, <1>3, <2>1, <3>1, PlaceKept DEF QueueInv
  <2> QED
    BY <2>4, <2>5, <2>6, <2>7 DEF QueueInv
<1> QED
  BY <1>4, <1>5

(* The observer is done with "resolved": the promise is resolved.           *)
LEMMA ResolveKeeps ==
  ASSUME QueueInv, NEW r \in Requests, Resolve(r)
  PROVE  QueueInv' /\ outcome[r] = "none"
<1>1. /\ at[r] = "resolving"
      /\ outcome' = [outcome EXCEPT ![r] = answer[r]]
      /\ at' = [at EXCEPT ![r] = "leaving"]
      /\ UNCHANGED <<pending, active, settled, answer, noted, retracting, events,
                     closed, closeEnded>>
  BY DEF Resolve
<1>2. outcome[r] = "none" /\ answer[r] \in Decision /\ events[r] = GotAnswer
  BY <1>1 DEF QueueInv, StoryExact
<1>3. /\ outcome'[r] = answer[r] /\ at'[r] = "leaving"
      /\ \A q \in Requests \ {r} : outcome'[q] = outcome[q] /\ at'[q] = at[q]
  BY <1>1 DEF QueueInv, TypeOK
<1>4. TypeOK'
  BY <1>1, <1>2 DEF QueueInv, TypeOK
<1>5. StoryExact(r)'
  BY <1>1, <1>2, <1>3, Stories DEF QueueInv, StoryExact, Decision
<1>6. \A q \in Requests \ {r} : StoryExact(q)'
  BY <1>1, <1>3, StoryUntouched DEF QueueInv
<1>7. PlaceExact'
  <2>1. \A q \in Requests : /\ at'[q] # "none" <=> at[q] # "none"
                            /\ Called(q)' <=> Called(q)
    BY <1>1, <1>2, <1>3, Stories DEF Called
  <2> QED
    BY <1>1, <2>1, PlaceKept DEF QueueInv
<1> QED
  BY <1>2, <1>4, <1>5, <1>6, <1>7 DEF QueueInv

(* The "cancelled" event.                                                   *)
LEMMA RetractKeeps ==
  ASSUME QueueInv, NEW r \in Requests, Retract(r)
  PROVE  QueueInv'
<1>1. /\ r \in retracting /\ at[r] # "noting"
      /\ retracting' = retracting \ {r}
      /\ events' = [events EXCEPT ![r] = Append(@, "cancelled")]
      /\ UNCHANGED <<pending, active, at, settled, answer, outcome, noted, closed,
                     closeEnded>>
  BY DEF Retract
<1>2. outcome[r] = "cancelled" /\ events[r] \in {InQueue, AtHuman}
  BY <1>1, Stories DEF QueueInv, StoryExact, Decision
<1>3. Append(events[r], "cancelled") \in Withdrawn
  BY <1>2, Stories
<1>4. /\ events'[r] \in Withdrawn
      /\ \A q \in Requests \ {r} : events'[q] = events[q]
  BY <1>1, <1>3 DEF QueueInv, TypeOK
<1>5. TypeOK'
  <2>1. events' \in [Requests -> Seq({"queued", "presenting", "resolved", "cancelled"})]
    BY <1>1, <1>3, StoriesAreSequences DEF QueueInv, TypeOK
  <2> QED
    BY <1>1, <2>1 DEF QueueInv, TypeOK
<1>6. StoryExact(r)'
  BY <1>1, <1>2, <1>4, Stories DEF QueueInv, StoryExact, Decision
<1>7. \A q \in Requests \ {r} : StoryExact(q)'
  BY <1>1, <1>4, StoryUntouched DEF QueueInv
<1>8. PlaceExact'
  <2>1. \A q \in Requests : /\ events'[q] # <<>> <=> events[q] # <<>>
                            /\ Called(q)' <=> Called(q)
    BY <1>1, <1>2, <1>4, Stories DEF Called
  <2> QED
    BY <1>1, <2>1, PlaceKept DEF QueueInv
<1> QED
  BY <1>5, <1>6, <1>7, <1>8 DEF QueueInv

(* What cancel() does to the requests it is called for: those that are not  *)
(* settled settle, and no promise that has settled changes.                 *)
LEMMA RejectTells ==
  ASSUME QueueInv, NEW S \in SUBSET Requests, Reject(S), \A r \in S : events[r] # <<>>,
         UNCHANGED events,
         \A r \in Requests : \/ at'[r] = at[r] /\ answer'[r] = answer[r]
                             \/ r \in S /\ at[r] = "asking" /\ at'[r] = "leaving"
  PROVE  /\ \A r \in Requests : /\ StoryExact(r)'
                                /\ Called(r)' <=> Called(r)
                                /\ outcome[r] # "none" => outcome'[r] = outcome[r]
         /\ settled' \in SUBSET Requests /\ retracting' \in SUBSET Requests
         /\ outcome' \in [Requests -> Decision \cup {"none", "refused", "cancelled"}]
         /\ settled' = settled \cup S
<1>1. /\ settled' = settled \cup S
      /\ outcome' = [r \in Requests |-> IF r \in S \ settled THEN "cancelled" ELSE outcome[r]]
      /\ retracting' = retracting \cup (S \ settled)
  BY DEF Reject
<1>2. /\ settled' \in SUBSET Requests /\ retracting' \in SUBSET Requests
      /\ outcome' \in [Requests -> Decision \cup {"none", "refused", "cancelled"}]
  BY <1>1 DEF QueueInv, TypeOK
<1>3. ASSUME NEW r \in Requests, r \in S \ settled
      PROVE  StoryExact(r)' /\ outcome[r] = "none" /\ outcome'[r] = "cancelled"
  <2>1. /\ outcome[r] = "none" /\ r \notin retracting /\ events[r] \in {InQueue, AtHuman}
        /\ at[r] \in {"none", "noting", "announcing", "asking"}
    BY <1>3 DEF QueueInv, TypeOK, StoryExact, Decision
  <2>2. outcome'[r] = "cancelled" /\ r \in retracting' /\ r \in settled' /\ events'[r] = events[r]
    BY <1>1, <1>3
  <2>3. at'[r] = at[r] \/ at'[r] = "leaving"
    OBVIOUS
  <2> QED
    BY <2>1, <2>2, <2>3, Stories DEF QueueInv, StoryExact, Decision
<1>4. ASSUME NEW r \in Requests, r \notin S \ settled
      PROVE  StoryExact(r)' /\ outcome'[r] = outcome[r]
  <2>1. /\ outcome'[r] = outcome[r] /\ (r \in retracting' <=> r \in retracting)
        /\ (r \in settled' <=> r \in settled) /\ events'[r] = events[r]
    BY <1>1, <1>4
  <2>2. CASE at'[r] = at[r] /\ answer'[r] = answer[r]
    BY <2>1, <2>2, StoryUntouched DEF QueueInv
  <2>3. CASE r \in S /\ at[r] = "asking" /\ at'[r] = "leaving"
    BY <1>4, <2>1, <2>3, Stories DEF QueueInv, StoryExact, Decision
  <2> QED
    BY <2>1, <2>2, <2>3
<1>5. \A r \in Requests : Called(r)' <=> Called(r)
  BY <1>3, <1>4 DEF Called
<1> QED
  BY <1>1, <1>2, <1>3, <1>4, <1>5

(* cancel() of a request that is waiting or in the slot.                    *)
LEMMA CancelKeeps ==
  ASSUME QueueInv, NEW r \in Requests, Cancel(r), events[r] # <<>>,
         UNCHANGED <<active, noted, events, closed, closeEnded>>,
         \/ UNCHANGED <<at, answer>>
         \/ /\ at[r] = "asking" /\ at' = [at EXCEPT ![r] = "leaving"]
            /\ answer' = [answer EXCEPT ![r] = "failed"]
  PROVE  /\ QueueInv'
         /\ \A q \in Requests : /\ outcome[q] # "none" => outcome'[q] = outcome[q]
                                /\ at'[q] # "none" => at[q] # "none"
<1>1. Reject({r}) /\ pending' = IF r \in settled THEN pending ELSE RemoveFirst(pending, r)
  BY DEF Cancel
<1>2. \A q \in Requests : \/ at'[q] = at[q] /\ answer'[q] = answer[q]
                          \/ q \in {r} /\ at[q] = "asking" /\ at'[q] = "leaving"
  BY DEF QueueInv, TypeOK
<1>3. /\ \A q \in Requests : /\ StoryExact(q)'
                             /\ Called(q)' <=> Called(q)
                             /\ outcome[q] # "none" => outcome'[q] = outcome[q]
      /\ settled' \in SUBSET Requests /\ retracting' \in SUBSET Requests
      /\ outcome' \in [Requests -> Decision \cup {"none", "refused", "cancelled"}]
      /\ settled' = settled \cup {r}
  BY <1>1, <1>2, RejectTells
<1>4. /\ pending \in Seq(Requests) /\ Ascending(pending)
      /\ Members(pending) \subseteq Requests
      /\ \A q \in Members(pending) : events[q] # <<>> /\ at[q] = "none" /\ q \notin settled
  BY MembersType DEF QueueInv, PlaceExact, TypeOK
<1>5. /\ pending' \in Seq(Requests) /\ Ascending(pending')
      /\ Members(pending') = Members(pending) \ {r}
  <2>1. CASE r \in settled
    BY <1>1, <1>4, <2>1
  <2>2. CASE r \notin settled
    <3>1. pending \in Seq(Nat)
      BY <1>4, RequestsAreNumbers, SeqMonotonic
    <3>2. NoRepeats(pending) /\ Ascending(RemoveFirst(pending, r))
      BY <1>4, <3>1, OrderKept
    <3> QED
      BY <1>1, <1>4, <2>2, <3>2, RemoveFirstKeeps
  <2> QED
    BY <2>1, <2>2
<1>6. TypeOK'
  <2>1. /\ at' \in [Requests -> {"none", "noting", "announcing", "asking", "resolving", "leaving"}]
        /\ answer' \in [Requests -> Decision \cup {"none", "failed"}]
    BY DEF QueueInv, TypeOK
  <2> QED
    BY <1>3, <1>5, <2>1 DEF QueueInv, TypeOK
<1>7. PlaceExact'
  <2>1. /\ \A q \in Requests : (at'[q] # "none" <=> at[q] # "none")
        /\ \A q \in Requests : at[q] # "none" <=> q = active
    BY <1>2 DEF QueueInv, PlaceExact
  <2>2. pending' # <<>> => pending # <<>>
    BY <1>4, <1>5, MembersType
  <2>3. \A q \in Members(pending') : events'[q] # <<>> /\ at'[q] = "none" /\ q \notin settled'
    BY <1>3, <1>4, <1>5, <2>1
  <2>4. \A q \in Requests : events'[q] # <<>> /\ q \notin settled'
                            => q \in Members(pending') \/ q = active'
    BY <1>3, <1>5 DEF QueueInv, PlaceExact
  <2> QED
    BY <1>3, <1>5, <2>1, <2>2, <2>3, <2>4 DEF QueueInv, PlaceExact
<1> QED
  BY <1>2, <1>3, <1>6, <1>7 DEF QueueInv

LEMMA PresenterFailsKeeps ==
  ASSUME QueueInv, NEW r \in Requests, PresenterFails(r)
  PROVE  /\ QueueInv'
         /\ \A q \in Requests : /\ outcome[q] # "none" => outcome'[q] = outcome[q]
                                /\ at'[q] # "none" => at[q] # "none"
<1>1. at[r] = "asking" => events[r] # <<>>
  BY DEF QueueInv, StoryExact
<1> QED
  BY <1>1, CancelKeeps DEF PresenterFails

LEMMA AbortKeeps ==
  ASSUME QueueInv, NEW r \in Requests, Abort(r)
  PROVE  /\ QueueInv'
         /\ \A q \in Requests : /\ outcome[q] # "none" => outcome'[q] = outcome[q]
                                /\ at'[q] # "none" => at[q] # "none"
BY CancelKeeps DEF Abort

(* close(): nobody is left waiting, and who waited or was asked is told.    *)
LEMMA CloseKeeps ==
  ASSUME QueueInv, Close
  PROVE  /\ QueueInv'
         /\ \A q \in Requests : outcome[q] # "none" => outcome'[q] = outcome[q]
<1> DEFINE S == {pending[i] : i \in DOMAIN pending} \cup ({active} \ {Nobody})
<1>1. /\ closed' = TRUE /\ Reject(S) /\ pending' = <<>>
      /\ UNCHANGED <<active, at, answer, noted, events, closeEnded>> /\ ~closed
  BY DEF Close
<1>2. S = Members(pending) \cup ({active} \ {Nobody})
  <2>1. DOMAIN pending = 1..Len(pending)
    BY LenProperties DEF QueueInv, TypeOK
  <2> QED
    BY <2>1 DEF Members
<1>3. S \in SUBSET Requests /\ \A r \in S : events[r] # <<>>
  <2>1. Members(pending) \subseteq Requests
    BY MembersType DEF QueueInv, TypeOK
  <2>2. active # Nobody => active \in Requests /\ at[active] # "none"
    BY DEF QueueInv, TypeOK, PlaceExact
  <2>3. active # Nobody => events[active] # <<>>
    BY <2>2 DEF QueueInv, StoryExact
  <2> QED
    BY <1>2, <2>1, <2>2, <2>3 DEF QueueInv, PlaceExact
<1> HIDE DEF S
<1>4. /\ \A r \in Requests : /\ StoryExact(r)'
                             /\ Called(r)' <=> Called(r)
                             /\ outcome[r] # "none" => outcome'[r] = outcome[r]
      /\ settled' \in SUBSET Requests /\ retracting' \in SUBSET Requests
      /\ outcome' \in [Requests -> Decision \cup {"none", "refused", "cancelled"}]
      /\ settled' = settled \cup S
  BY <1>1, <1>3, RejectTells
<1>5. TypeOK'
  BY <1>1, <1>4, EmptyQueue DEF QueueInv, TypeOK
<1>6. PlaceExact'
  <2>1. Members(pending') = {} /\ Ascending(pending')
    BY <1>1, EmptyQueue, EmptySeq DEF Ascending
  <2>2. \A q \in Requests : events'[q] # <<>> => q \in settled'
    BY <1>1, <1>2, <1>4, RequestsAreNumbers DEF QueueInv, PlaceExact
  <2> QED
    BY <1>1, <1>4, <2>1, <2>2 DEF QueueInv, PlaceExact
<1> QED
  BY <1>4, <1>5, <1>6 DEF QueueInv

LEMMA CloseEndsKeeps == ASSUME QueueInv, CloseEnds PROVE QueueInv'
<1>1. /\ closed /\ active = Nobody /\ closeEnded' = TRUE
      /\ UNCHANGED <<pending, active, at, settled, answer, outcome, noted, retracting,
                     events, closed>>
  BY DEF CloseEnds
<1>2. \A q \in Requests : StoryExact(q)'
  BY <1>1, StoryUntouched DEF QueueInv
<1> QED
  BY <1>1, <1>2 DEF QueueInv, TypeOK, PlaceExact, Called

(* enqueue() accepts: the new request is the youngest, and present() starts *)
(* with it only if nobody waits.                                            *)
LEMMA EnqueueKeeps ==
  ASSUME QueueInv, NEW r \in Requests, Enqueue(r)
  PROVE  /\ QueueInv'
         /\ \A s \in Requests : at[s] = "none" /\ at'[s] # "none"
                                => ~closed /\ \A q \in Members(pending) : s <= q
<1> DEFINE queue == Append(pending, r)
<1>1. /\ NextCall(r) /\ ~closed
      /\ events' = [events EXCEPT ![r] = InQueue]
      /\ IF active = Nobody THEN Drain(queue, at) ELSE pending' = queue /\ UNCHANGED <<active, at>>
      /\ UNCHANGED <<settled, answer, outcome, noted, retracting, closed, closeEnded>>
  BY DEF Enqueue, InQueue
<1>2. outcome[r] = "none" /\ events[r] = <<>> /\ \A q \in 1..(r - 1) : Called(q)
  BY <1>1 DEF NextCall, Called
<1>3. at[r] = "none" /\ r \notin settled /\ r \notin retracting
  BY <1>2 DEF QueueInv, StoryExact
<1>4. /\ pending \in Seq(Requests) /\ Members(pending) \subseteq Requests
      /\ Requests \subseteq Nat /\ pending \in Seq(Nat) /\ Ascending(pending)
  BY MembersType, RequestsAreNumbers, SeqMonotonic DEF QueueInv, TypeOK, PlaceExact
<1>5. \A q \in Requests : q < r => Called(q)
  BY <1>2, <1>4, CallsAssumption DEF Requests
<1>6. \A q \in Requests : Called(q) => q < r
  <2>1. ~Called(r)
    BY <1>2 DEF Called
  <2>2. \A q \in Requests : r < q => ~Called(q)
    BY <2>1 DEF QueueInv, PlaceExact
  <2> QED
    BY <1>4, <2>1, <2>2
<1>7. \A q \in Members(pending) : q < r
  BY <1>4, <1>6 DEF QueueInv, PlaceExact, Called
<1>8. /\ queue \in Seq(Requests) /\ Ascending(queue) /\ queue # <<>>
      /\ Members(queue) = Members(pending) \cup {r}
  BY <1>4, <1>7, AppendKeeps, OrderKept
<1>9. /\ events'[r] = InQueue /\ events'[r] # <<>>
      /\ \A q \in Requests \ {r} : events'[q] = events[q]
  BY <1>1, Stories DEF QueueInv, TypeOK
<1>10. events' \in [Requests -> Seq({"queued", "presenting", "resolved", "cancelled"})]
  BY <1>1, StoriesAreSequences DEF QueueInv, TypeOK
<1>11. \A p, q \in Requests : q < p /\ Called(p)' => Called(q)'
  <2>1. \A q \in Requests : Called(q)' <=> Called(q) \/ q = r
    BY <1>1, <1>9 DEF Called
  <2> QED
    BY <1>5, <2>1 DEF QueueInv, PlaceExact
<1> HIDE DEF queue
<1>12. CASE active = Nobody
  <2>1. pending = <<>> /\ \A q \in Requests : at[q] = "none"
    BY <1>12, RequestsAreNumbers DEF QueueInv, PlaceExact
  <2>2. Members(queue) = {r}
    BY <1>8, <2>1, EmptyQueue
  <2>3. /\ pending' \in Seq(Requests) /\ Ascending(pending')
        /\ active' \in Requests \cup {Nobody}
        /\ at' \in [Requests -> {"none", "noting", "announcing", "asking", "resolving", "leaving"}]
        /\ \A q \in Requests : at'[q] = IF q = active' THEN "noting" ELSE "none"
        /\ pending' # <<>> => active' # Nobody /\ ~closed
        /\ Members(queue) = Members(pending') \cup ({active'} \ {Nobody})
        /\ active' \notin Members(pending')
    BY <1>1, <1>8, <1>12, <2>1, DrainKeeps DEF QueueInv, TypeOK
  <2>4. active' = r /\ pending' = <<>> /\ Members(pending') = {}
    <3>1. Drain(queue, at)
      BY <1>1, <1>12
    <3>2. active' = Head(queue)
      BY <1>1, <1>8, <3>1 DEF Drain
    <3>3. Head(queue) = r
      BY <1>4, <2>1, AppendKeeps DEF queue
    <3> QED
      BY <2>2, <2>3, <3>2, <3>3, MembersType
  <2>5. TypeOK'
    BY <1>1, <1>10, <2>3 DEF QueueInv, TypeOK
  <2>6. StoryExact(r)'
    BY <1>1, <1>2, <1>3, <1>9, <2>3, <2>4, Stories DEF QueueInv, StoryExact, Decision
  <2>7. \A q \in Requests \ {r} : StoryExact(q)'
    BY <1>1, <1>9, <2>1, <2>3, <2>4, StoryUntouched DEF QueueInv
  <2>8. PlaceExact'
    <3>1. \A q \in Requests : at'[q] # "none" <=> q = active'
      BY <2>3
    <3>2. \A q \in Requests : events'[q] # <<>> /\ q \notin settled' => q = r
      BY <1>1, <1>9, <1>12, <2>1, EmptyQueue, RequestsAreNumbers DEF QueueInv, PlaceExact
    <3>3. closeEnded' => closed
      BY <1>1 DEF QueueInv, PlaceExact
    <3> QED
      BY <1>1, <1>11, <2>3, <2>4, <3>1, <3>2, <3>3 DEF PlaceExact
  <2>9. Members(pending) = {}
    BY <2>1, EmptyQueue
  <2> QED
    BY <1>1, <2>5, <2>6, <2>7, <2>8, <2>9 DEF QueueInv
<1>13. CASE active # Nobody
  <2>1. pending' = queue /\ UNCHANGED <<active, at>>
    BY <1>1, <1>13
  <2>2. TypeOK'
    BY <1>1, <1>8, <1>10, <2>1 DEF QueueInv, TypeOK
  <2>3. StoryExact(r)'
    BY <1>1, <1>2, <1>3, <1>9, <2>1, Stories DEF QueueInv, StoryExact, Decision
  <2>4. \A q \in Requests \ {r} : StoryExact(q)'
    BY <1>1, <1>9, <2>1, StoryUntouched DEF QueueInv
  <2>5. PlaceExact'
    <3>1. \A q \in Members(pending') : events'[q] # <<>> /\ at'[q] = "none" /\ q \notin settled'
      BY <1>1, <1>3, <1>4, <1>8, <1>9, <2>1 DEF QueueInv, PlaceExact
    <3>2. \A q \in Requests : events'[q] # <<>> /\ q \notin settled'
                              => q \in Members(pending') \/ q = active'
      BY <1>1, <1>8, <1>9, <2>1 DEF QueueInv, PlaceExact
    <3>3. Ascending(pending') /\ (closeEnded' => closed' /\ active' = Nobody)
      BY <1>1, <1>8, <2>1 DEF QueueInv, PlaceExact
    <3>4. \A q \in Requests : at'[q] # "none" <=> q = active'
      BY <2>1 DEF QueueInv, PlaceExact
    <3> QED
      BY <1>1, <1>11, <1>13, <2>1, <3>1, <3>2, <3>3, <3>4 DEF PlaceExact
  <2> QED
    BY <2>1, <2>2, <2>3, <2>4, <2>5 DEF QueueInv
<1> QED
  BY <1>12, <1>13

(* The finally callback of present(): the oldest waiting request gets the   *)
(* slot.                                                                    *)
LEMMA LeaveKeeps ==
  ASSUME QueueInv, NEW r \in Requests, Leave(r)
  PROVE  /\ QueueInv'
         /\ \A s \in Requests : at[s] = "none" /\ at'[s] # "none"
                                => ~closed /\ \A q \in Members(pending) : s <= q
<1> DEFINE places == [at EXCEPT ![r] = "none"]
<1>1. /\ at[r] = "leaving" /\ active = r
      /\ UNCHANGED <<settled, answer, outcome, noted, retracting, events, closed, closeEnded>>
  BY DEF Leave, QueueInv, PlaceExact
<1>2. Drain(pending, places)
  BY <1>1 DEF Leave
<1>3. /\ places \in [Requests -> {"none", "noting", "announcing", "asking", "resolving", "leaving"}]
      /\ \A q \in Requests : places[q] = "none"
  BY <1>1 DEF QueueInv, TypeOK, PlaceExact
<1> HIDE DEF places
<1>4. /\ pending \in Seq(Requests) /\ Ascending(pending) /\ closed \in BOOLEAN
      /\ closed => pending = <<>>
      /\ Members(pending) \subseteq Requests
  BY MembersType DEF QueueInv, PlaceExact, TypeOK
<1>5. /\ pending' \in Seq(Requests) /\ Ascending(pending')
      /\ active' \in Requests \cup {Nobody}
      /\ at' \in [Requests -> {"none", "noting", "announcing", "asking", "resolving", "leaving"}]
      /\ \A q \in Requests : at'[q] = IF q = active' THEN "noting" ELSE "none"
      /\ pending' # <<>> => active' # Nobody /\ ~closed
      /\ Members(pending) = Members(pending') \cup ({active'} \ {Nobody})
      /\ active' \notin Members(pending')
      /\ active' # Nobody => \A q \in Members(pending) : active' <= q
  BY <1>2, <1>3, <1>4, DrainKeeps
<1>6. TypeOK'
  BY <1>1, <1>5 DEF QueueInv, TypeOK
<1>7. ASSUME NEW q \in Requests
      PROVE  StoryExact(q)'
  <2>1. CASE q = r
    <3>1. r \notin Members(pending) /\ r # Nobody
      BY <1>1, RequestsAreNumbers DEF QueueInv, PlaceExact
    <3>2. at'[r] = "none"
      BY <1>5, <3>1
    <3>3. r \in settled /\ events[r] # <<>>
      BY <1>1 DEF QueueInv, StoryExact
    <3> QED
      BY <1>1, <2>1, <3>2, <3>3, Stories DEF QueueInv, StoryExact, Decision
  <2>2. CASE q # r /\ q # active'
    <3>1. at'[q] = at[q]
      BY <1>1, <1>5, <2>2 DEF QueueInv, TypeOK, PlaceExact
    <3> QED
      BY <1>1, <3>1, StoryUntouched DEF QueueInv
  <2>3. CASE q # r /\ q = active'
    <3>1. q \in Members(pending) /\ at'[q] = "noting"
      BY <1>5, <2>3, RequestsAreNumbers
    <3>2. events[q] # <<>> /\ at[q] = "none" /\ q \notin settled
      BY <3>1 DEF QueueInv, PlaceExact
    <3>3. events[q] = InQueue
      BY <3>2, Stories DEF QueueInv, StoryExact, Decision
    <3> QED
      BY <1>1, <3>1, <3>2, <3>3, Stories DEF QueueInv, StoryExact, Decision
  <2> QED
    BY <2>1, <2>2, <2>3
<1>8. PlaceExact'
  <2>1. /\ closed' = closed /\ settled' = settled /\ events' = events /\ outcome' = outcome
        /\ closeEnded' = FALSE
    BY <1>1, RequestsAreNumbers DEF QueueInv, TypeOK, PlaceExact
  <2>2. \A q \in Members(pending') : events'[q] # <<>> /\ at'[q] = "none" /\ q \notin settled'
    BY <1>4, <1>5, <2>1 DEF QueueInv, PlaceExact
  <2>3. r \in settled
    BY <1>1 DEF QueueInv, StoryExact
  <2>4. \A q \in Requests : events'[q] # <<>> /\ q \notin settled'
                            => q \in Members(pending') \/ q = active'
    BY <1>1, <1>5, <2>1, <2>3 DEF QueueInv, PlaceExact
  <2>5. \A q \in Requests : at'[q] # "none" <=> q = active'
    BY <1>5
  <2>6. \A p, q \in Requests : q < p /\ Called(p)' => Called(q)'
    BY <2>1 DEF QueueInv, PlaceExact, Called
  <2> QED
    BY <1>5, <2>1, <2>2, <2>4, <2>5, <2>6 DEF PlaceExact
<1>9. ASSUME NEW s \in Requests, at[s] = "none", at'[s] # "none"
      PROVE  ~closed /\ \A q \in Members(pending) : s <= q
  <2>1. s = active' /\ s # Nobody
    BY <1>5, <1>9, RequestsAreNumbers
  <2>2. s \in Members(pending)
    BY <1>1, <1>5, <1>9, <2>1
  <2>3. pending # <<>>
    BY <2>2, EmptyQueue
  <2> QED
    BY <1>4, <1>5, <2>1, <2>3
<1> QED
  BY <1>6, <1>7, <1>8, <1>9 DEF QueueInv

-----------------------------------------------------------------------------
LEMMA InitQueue == Init => QueueInv
<1> SUFFICES ASSUME Init PROVE QueueInv
  OBVIOUS
<1>1. TypeOK
  BY EmptySeq DEF Init, TypeOK
<1>2. \A r \in Requests : StoryExact(r)
  BY Stories DEF Init, StoryExact, Decision
<1>3. PlaceExact
  BY EmptyQueue, EmptySeq, RequestsAreNumbers DEF Init, PlaceExact, Ascending, Called
<1> QED
  BY <1>1, <1>2, <1>3 DEF QueueInv

(* Who starts being presented, in any step: the queue is open and nobody    *)
(* waits for longer.  And no promise settles twice.                         *)
QueueStep ==
  /\ QueueInv'
  /\ \A s \in Requests : at[s] = "none" /\ at'[s] # "none"
                         => ~closed /\ \A q \in Members(pending) : s <= q
  /\ \A r \in Requests : outcome[r] # "none" => outcome'[r] = outcome[r]

LEMMA NextQueue == QueueInv /\ [Next]_vars => QueueStep
<1> SUFFICES ASSUME QueueInv, [Next]_vars PROVE QueueStep
  OBVIOUS
<1>1. ASSUME NEW r \in Requests, NEW signalAborted \in BOOLEAN, Refuse(r, signalAborted)
      PROVE  QueueStep
  <2>1. QueueInv'
    BY <1>1, RefuseKeeps
  <2> QED
    BY <1>1, <2>1 DEF QueueStep, Refuse, NextCall, Called, QueueInv, TypeOK
<1>2. ASSUME NEW r \in Requests, Enqueue(r) PROVE QueueStep
  BY <1>2, EnqueueKeeps DEF QueueStep, Enqueue
<1>3. ASSUME NEW r \in Requests, Note(r) PROVE QueueStep
  BY <1>3, NoteKeeps DEF QueueStep, Note
<1>4. ASSUME NEW r \in Requests, Announce(r) PROVE QueueStep
  BY <1>4, AnnounceKeeps DEF QueueStep, Announce, QueueInv, TypeOK
<1>5. ASSUME NEW r \in Requests, Ask(r) PROVE QueueStep
  BY <1>5, AskKeeps DEF QueueStep, Ask, QueueInv, TypeOK
<1>6. ASSUME NEW r \in Requests, NEW decision \in Decision, Answer(r, decision) PROVE QueueStep
  <2>1. QueueInv' /\ outcome' = outcome
    BY <1>6, AnswerKeeps DEF Answer
  <2>2. \A s \in Requests : at'[s] # "none" => at[s] # "none"
    BY <1>6 DEF Answer, QueueInv, TypeOK
  <2> QED
    BY <2>1, <2>2 DEF QueueStep
<1>7. ASSUME NEW r \in Requests, PresenterFails(r) PROVE QueueStep
  BY <1>7, PresenterFailsKeeps DEF QueueStep
<1>8. ASSUME NEW r \in Requests, Resolve(r) PROVE QueueStep
  <2>1. QueueInv' /\ outcome[r] = "none"
    BY <1>8, ResolveKeeps
  <2> QED
    BY <1>8, <2>1 DEF QueueStep, Resolve, QueueInv, TypeOK
<1>9. ASSUME NEW r \in Requests, Leave(r) PROVE QueueStep
  BY <1>9, LeaveKeeps DEF QueueStep, Leave
<1>10. ASSUME NEW r \in Requests, Retract(r) PROVE QueueStep
  BY <1>10, RetractKeeps DEF QueueStep, Retract
<1>11. ASSUME NEW r \in Requests, Abort(r) PROVE QueueStep
  BY <1>11, AbortKeeps DEF QueueStep
<1>12. CASE Close
  BY <1>12, CloseKeeps DEF QueueStep, Close
<1>13. CASE CloseEnds
  BY <1>13, CloseEndsKeeps DEF QueueStep, CloseEnds
<1>14. CASE UNCHANGED vars
  <2>1. QueueInv'
    BY <1>14 DEF vars, QueueInv, TypeOK, PlaceExact, StoryExact, Called
  <2> QED
    BY <1>14, <2>1 DEF vars, QueueStep
<1> QED
  BY <1>1, <1>2, <1>3, <1>4, <1>5, <1>6, <1>7, <1>8, <1>9, <1>10, <1>11, <1>12, <1>13, <1>14
     DEF Next

-----------------------------------------------------------------------------
(* The slot of the queue is exact, for any number of requests.              *)
THEOREM SlotKept == Spec => []SlotExact
<1>1. QueueInv => SlotExact
  <2> SUFFICES ASSUME QueueInv PROVE SlotExact
    OBVIOUS
  <2>1. DOMAIN pending = 1..Len(pending)
    BY LenProperties DEF QueueInv, TypeOK
  <2> QED
    BY <2>1 DEF QueueInv, PlaceExact, SlotExact, Members
<1> QED
  BY <1>1, InitQueue, NextQueue, PTL DEF Spec, QueueStep

(* Only an answer to the request itself approves it, and its observer is    *)
(* told a story that ends once and agrees with the promise.                 *)
THEOREM ApprovalIsAnAnswer == Spec => []ApprovedByAnswer
<1>1. QueueInv => ApprovedByAnswer
  <2> SUFFICES ASSUME QueueInv, NEW r \in Requests
               PROVE  /\ outcome[r] \in Decision =>
                           /\ answer[r] = outcome[r]
                           /\ r \notin retracting
                           /\ \A i \in DOMAIN events[r] : events[r][i] # "cancelled"
                      /\ events[r] # <<>> =>
                           /\ events[r] \in Story
                           /\ events[r][Len(events[r])] = "cancelled" => outcome[r] = "cancelled"
    BY DEF ApprovedByAnswer
  <2>1. StoryExact(r)
    BY DEF QueueInv
  <2>2. outcome[r] \in Decision => /\ answer[r] = outcome[r] /\ events[r] = GotAnswer
                                   /\ outcome[r] # "cancelled"
    BY <2>1 DEF StoryExact, Decision
  <2>3. r \in retracting => outcome[r] = "cancelled"
    BY <2>1 DEF StoryExact
  <2>4. events[r] # <<>> => events[r] \in Story
    BY <2>1, Stories DEF StoryExact
  <2>5. events[r] \in Withdrawn => outcome[r] = "cancelled"
    BY <2>1 DEF StoryExact
  <2> QED
    BY <2>2, <2>3, <2>4, <2>5, Stories
<1> QED
  BY <1>1, InitQueue, NextQueue, PTL DEF Spec, QueueStep

(* A promise settles once, close() leaves nobody unsettled, and the human   *)
(* is asked in the order of the calls.                                      *)
THEOREM SettlingIsFinal == Spec => SettledOnce
<1>1. QueueInv /\ QueueStep => SettlesOnce
  <2> SUFFICES ASSUME QueueInv, QueueStep PROVE SettlesOnce
    OBVIOUS
  <2>1. ASSUME closeEnded, NEW r \in Requests
        PROVE  /\ at[r] = "none" /\ at'[r] = "none"
               /\ events[r] # <<>> => outcome[r] # "none"
    <3>1. closed /\ active = Nobody /\ pending = <<>>
      BY <2>1 DEF QueueInv, PlaceExact
    <3>2. at[r] = "none" /\ at'[r] = "none"
      BY <3>1, RequestsAreNumbers DEF QueueInv, PlaceExact, QueueStep
    <3>3. events[r] # <<>> => r \in settled
      BY <3>1, EmptyQueue, RequestsAreNumbers DEF QueueInv, PlaceExact
    <3> QED
      BY <3>2, <3>3 DEF QueueInv, StoryExact, Decision
  <2>2. ASSUME NEW r \in Requests, NEW q \in Requests,
               q < r, at[r] = "none", at'[r] # "none", events[q] # <<>>
        PROVE  q \in settled \/ at[q] # "none"
    <3>1. \A p \in Members(pending) : r <= p
      BY <2>2 DEF QueueStep
    <3>2. q \in Nat /\ r \in Nat
      BY RequestsAreNumbers
    <3>3. q \notin Members(pending)
      BY <2>2, <3>1, <3>2
    <3> QED
      BY <2>2, <3>3 DEF QueueInv, PlaceExact
  <2>3. \A r \in Requests : outcome[r] # "none" => outcome'[r] = outcome[r]
    BY DEF QueueStep
  <2> QED
    BY <2>1, <2>2, <2>3 DEF SettlesOnce
<1>2. QueueInv /\ [Next]_vars => [SettlesOnce]_vars
  BY <1>1, NextQueue
<1>3. QueueStep => QueueInv'
  BY DEF QueueStep
<1> QED
  BY <1>2, <1>3, InitQueue, NextQueue, PTL DEF Spec, SettledOnce

-----------------------------------------------------------------------------
(* Whatever the number and the order of the policies: a denial, a failure   *)
(* or a missing opinion where one is required denies, and else a block      *)
(* blocks.                                                                  *)
LEMMA EvaluateStates ==
  ASSUME NEW heard \in Heard
  PROVE  Evaluate(heard) = IF Hard(heard) THEN "deny" ELSE IF Soft(heard) THEN "block" ELSE "allow"
<1> DEFINE told(p) == IF \E q \in 1..p : heard[q] \in {"deny", "failed"} THEN "deny"
                      ELSE IF \E q \in 1..p : heard[q] = "block" THEN "block"
                      ELSE IF \E q \in 1..p : heard[q] = "allow" THEN "allow"
                      ELSE "uncovered"
           turn(before, p) == IF p = 0 THEN "uncovered"
                              ELSE CASE before = "deny" \/ heard[p] \in {"deny", "failed"} -> "deny"
                                     [] heard[p] = "abstain" -> before
                                     [] OTHER -> IF before = "block" THEN "block" ELSE heard[p]
           Loop(f) == [p \in 0..NumPolicies |-> turn(f[p - 1], p)]
           after == CHOOSE f : f = Loop(f)
<1>0. NumPolicies \in Nat /\ requireCoverage \in BOOLEAN
  BY GateAssumption
<1>1. \A q \in 1..NumPolicies : heard[q] \in {"allow", "block", "deny", "abstain", "failed"}
  BY DEF Heard, Policies
<1>2. ASSUME NEW p \in 0..NumPolicies
      PROVE  told(p) = turn(told(p - 1), p)
  <2>1. CASE p = 0
    BY <2>1
  <2>2. CASE p # 0
    <3>1. p \in 1..NumPolicies /\ 1..p = (1..(p - 1)) \cup {p}
      BY <1>0, <2>2
    <3>2. heard[p] \in {"allow", "block", "deny", "abstain", "failed"}
      BY <1>1, <3>1
    <3> QED
      BY <2>2, <3>1, <3>2
  <2> QED
    BY <2>1, <2>2
<1>3. \E f : f = Loop(f)
  <2> DEFINE g == [p \in 0..NumPolicies |-> told(p)]
  <2>1. ASSUME NEW p \in 0..NumPolicies PROVE g[p] = turn(g[p - 1], p)
    <3>1. p # 0 => p - 1 \in 0..NumPolicies
      BY <1>0
    <3> HIDE DEF told
    <3> QED
      BY <1>2, <3>1
  <2>2. g = Loop(g)
    <3> HIDE DEF told, turn
    <3> QED
      BY <2>1
  <2> QED
    BY <2>2
<1>4. after = Loop(after)
  <2> HIDE DEF Loop
  <2> QED
    BY <1>3
<1>5. Evaluate(heard) = IF after[NumPolicies] # "uncovered" THEN after[NumPolicies]
                        ELSE IF requireCoverage THEN "deny" ELSE "allow"
  BY DEF Evaluate
<1> HIDE DEF after
<1>6. after[NumPolicies] = told(NumPolicies)
  <2> DEFINE Wrong == {p \in 0..NumPolicies : after[p] # told(p)}
  <2>1. \A p \in 0..NumPolicies : after[p] = turn(after[p - 1], p)
    <3> HIDE DEF turn
    <3> QED
      BY <1>4
  <2>2. ASSUME NEW p \in Wrong, \A q \in Wrong : p <= q
        PROVE  FALSE
    <3>1. after[p] # turn(told(p - 1), p)
      BY <1>2, <2>2
    <3>2. p # 0
      BY <2>1, <3>1
    <3>3. p - 1 \in 0..NumPolicies /\ p - 1 \notin Wrong
      BY <1>0, <2>2, <3>2
    <3>4. after[p - 1] = told(p - 1)
      BY <3>3
    <3> QED
      BY <2>1, <3>1, <3>4
  <2>3. Wrong \in SUBSET Nat
    OBVIOUS
  <2> HIDE DEF Wrong
  <2>4. Wrong = {}
    BY <2>2, <2>3, FirstPosition
  <2> QED
    BY <1>0, <2>4 DEF Wrong
<1> HIDE DEF turn, Loop
<1>7. CASE \A p \in Policies : heard[p] = "abstain"
  <2>1. told(NumPolicies) = "uncovered"
    BY <1>7 DEF Policies
  <2>2. ~Soft(heard) /\ (Hard(heard) <=> requireCoverage)
    BY <1>7 DEF Hard, Soft
  <2> HIDE DEF told
  <2> QED
    BY <1>5, <1>6, <2>1, <2>2
<1>8. CASE \E p \in Policies : heard[p] # "abstain"
  <2>1. told(NumPolicies) = IF Hard(heard) THEN "deny" ELSE IF Soft(heard) THEN "block" ELSE "allow"
    BY <1>1, <1>8 DEF Hard, Soft, Policies
  <2> HIDE DEF told
  <2> QED
    BY <1>5, <1>6, <2>1
<1> QED
  BY <1>7, <1>8

-----------------------------------------------------------------------------
(* The candidates are counted by due, and belong to this activation; a call *)
(* that waits for a human or runs with an approval points at its candidate, *)
(* and nothing touches the candidates while it does.                        *)
Elevatable == [action : offered \cap Sandboxed, source : Source]

CallExact ==
  /\ call.stage \in {"none", "waiting", "running"}
  /\ call.stage # "none" => running = {} /\ call.request \in Requests
  /\ call.stage # "none" /\ call.use # Transaction =>
       /\ call.index \in 1..Len(candidates)
       /\ candidates[call.index] = [action |-> call.use, source |-> call.source]
       /\ ~call.hard
  /\ call.stage = "running" => call.use # Transaction /\ outcome[call.request] = "approved"

GateInv ==
  /\ offered \subseteq Actions /\ running \subseteq offered /\ unlicensed = {}
  /\ candidates \in Seq(Elevatable)
  /\ due \in [Actions -> [Source -> Int]]
  /\ \A a \in Actions, s \in Source :
       due[a][s] = Count(candidates, [action |-> a, source |-> s])
  /\ CallExact

LEMMA GateInvImplies == QueueInv /\ GateInv => GateKept
<1> SUFFICES ASSUME QueueInv, GateInv PROVE GateKept
  OBVIOUS
<1>1. ASSUME NEW a \in Actions, NEW s \in Source
      PROVE  Cardinality({i \in DOMAIN candidates :
                            candidates[i] = [action |-> a, source |-> s]}) = due[a][s]
  <2>1. DOMAIN candidates = 1..Len(candidates)
    BY LenProperties DEF GateInv
  <2> QED
    BY <2>1 DEF GateInv, Count, Positions
<1>2. ASSUME call.stage = "running"
      PROVE  /\ outcome[call.request] = "approved" /\ answer[call.request] = "approved"
             /\ ~call.hard
             /\ call.use \in offered \cap Sandboxed
             /\ due[call.use][call.source] > 0
  <2>1. /\ call.request \in Requests /\ outcome[call.request] = "approved"
        /\ call.index \in 1..Len(candidates) /\ ~call.hard
        /\ candidates[call.index] = [action |-> call.use, source |-> call.source]
    BY <1>2 DEF GateInv, CallExact
  <2>2. answer[call.request] = "approved"
    BY <2>1 DEF QueueInv, StoryExact, Decision
  <2>3. [action |-> call.use, source |-> call.source] \in Elevatable
    BY <2>1, ElementOfSeq DEF GateInv
  <2>4. call.use \in offered \cap Sandboxed /\ call.source \in Source
    BY <2>3 DEF Elevatable
  <2>5. Count(candidates, [action |-> call.use, source |-> call.source]) > 0
    <3> DEFINE P == Positions(candidates, [action |-> call.use, source |-> call.source])
    <3>1. call.index \in P
      BY <2>1 DEF Positions
    <3>2. IsFiniteSet(P)
      BY CountType DEF GateInv
    <3>3. Cardinality(P) # 0 /\ Cardinality(P) \in Nat
      BY <3>1, <3>2, FS_EmptySet, FS_CardinalityType
    <3> QED
      BY <3>3 DEF Count
  <2> QED
    BY <2>1, <2>2, <2>4, <2>5 DEF GateInv
<1> QED
  BY <1>1, <1>2 DEF GateKept, GateInv

(* A candidate more.                                                        *)
LEMMA CandidateKeeps ==
  ASSUME GateInv, NEW a \in offered \cap Sandboxed, NEW s \in Source, Candidate(a, s),
         UNCHANGED offered
  PROVE  /\ candidates' \in Seq(Elevatable')
         /\ due' \in [Actions -> [Source -> Int]]
         /\ \A b \in Actions, t \in Source :
              due'[b][t] = Count(candidates', [action |-> b, source |-> t])
<1> DEFINE new == [action |-> a, source |-> s]
<1>1. /\ candidates' = Append(candidates, new)
      /\ due' = [due EXCEPT ![a][s] = @ + 1]
  BY DEF Candidate
<1>2. new \in Elevatable /\ Elevatable' = Elevatable /\ a \in Actions
  BY DEF Elevatable, GateInv
<1>3. candidates' \in Seq(Elevatable')
  BY <1>1, <1>2, AppendKeeps DEF GateInv
<1>4. due' \in [Actions -> [Source -> Int]]
  BY <1>1, <1>2 DEF GateInv
<1>5. ASSUME NEW b \in Actions, NEW t \in Source
      PROVE  due'[b][t] = Count(candidates', [action |-> b, source |-> t])
  <2> DEFINE old == [action |-> b, source |-> t]
  <2>1. old = new <=> b = a /\ t = s
    OBVIOUS
  <2> HIDE DEF new, old
  <2>2. Count(candidates', old) = IF old = new THEN Count(candidates, old) + 1
                                  ELSE Count(candidates, old)
    BY <1>1, <1>2, CountAppend DEF GateInv
  <2>3. due'[b][t] = IF b = a /\ t = s THEN due[b][t] + 1 ELSE due[b][t]
    BY <1>1, <1>2 DEF GateInv
  <2>4. due[b][t] = Count(candidates, old)
    BY DEF GateInv, old
  <2> QED
    BY <2>1, <2>2, <2>3, <2>4 DEF old
<1> QED
  BY <1>3, <1>4, <1>5

LEMMA ToolCallKeeps ==
  ASSUME GateInv, NEW a \in Actions, NEW heard \in Heard, ToolCall(a, heard), UNCHANGED vars
  PROVE  GateInv'
<1>1. call.stage = "none" /\ a \in offered /\ UNCHANGED <<offered, call>>
  BY DEF ToolCall
<1>2. CallExact'
  BY <1>1 DEF CallExact
<1>3. CASE Authorize(heard, FALSE) = "allowed"
  <2>1. /\ running' = running \cup {a} /\ UNCHANGED <<candidates, due>>
        /\ unlicensed' = IF Hard(heard) \/ Soft(heard) THEN unlicensed \cup {a} ELSE unlicensed
    BY <1>3 DEF ToolCall
  <2>2. ~Hard(heard) /\ ~Soft(heard)
    BY <1>3, EvaluateStates DEF Authorize
  <2>3. Elevatable' = Elevatable
    BY <1>1 DEF Elevatable
  <2> QED
    BY <1>1, <1>2, <2>1, <2>2, <2>3 DEF GateInv
<1>4. CASE Authorize(heard, FALSE) # "allowed"
  <2>1. UNCHANGED <<running, unlicensed>>
    BY <1>4 DEF ToolCall
  <2>2. CASE Authorize(heard, FALSE) = "elevatable" /\ a \in Sandboxed
    <3>1. Candidate(a, "policy-block")
      BY <1>4, <2>2 DEF ToolCall
    <3>2. /\ candidates' \in Seq(Elevatable')
          /\ due' \in [Actions -> [Source -> Int]]
          /\ \A b \in Actions, t \in Source :
               due'[b][t] = Count(candidates', [action |-> b, source |-> t])
      BY <1>1, <2>2, <3>1, CandidateKeeps DEF Source
    <3> QED
      BY <1>1, <1>2, <2>1, <3>2 DEF GateInv
  <2>3. CASE ~ (Authorize(heard, FALSE) = "elevatable" /\ a \in Sandboxed)
    <3>1. UNCHANGED <<candidates, due>>
      BY <1>4, <2>3 DEF ToolCall
    <3>2. Elevatable' = Elevatable
      BY <1>1 DEF Elevatable
    <3> QED
      BY <1>1, <1>2, <2>1, <3>1, <3>2 DEF GateInv
  <2> QED
    BY <2>2, <2>3
<1> QED
  BY <1>3, <1>4

LEMMA ToolEndsKeeps ==
  ASSUME GateInv, NEW a \in Actions, NEW isError \in BOOLEAN, ToolEnds(a, isError), UNCHANGED vars
  PROVE  GateInv'
<1>1. /\ a \in running /\ running' = running \ {a} /\ unlicensed' = unlicensed \ {a}
      /\ UNCHANGED <<offered, call>>
  BY DEF ToolEnds
<1>2. call.stage = "none" /\ a \in offered
  BY <1>1 DEF GateInv, CallExact
<1>3. CallExact'
  BY <1>1, <1>2 DEF CallExact
<1>4. CASE isError /\ a \in Sandboxed
  <2>1. Candidate(a, "sandbox-error")
    BY <1>4 DEF ToolEnds
  <2>2. /\ candidates' \in Seq(Elevatable')
        /\ due' \in [Actions -> [Source -> Int]]
        /\ \A b \in Actions, t \in Source :
             due'[b][t] = Count(candidates', [action |-> b, source |-> t])
    BY <1>1, <1>2, <1>4, <2>1, CandidateKeeps DEF Source
  <2> QED
    BY <1>1, <1>3, <2>2 DEF GateInv
<1>5. CASE ~ (isError /\ a \in Sandboxed)
  <2>1. UNCHANGED <<candidates, due>>
    BY <1>5 DEF ToolEnds
  <2>2. Elevatable' = Elevatable
    BY <1>1 DEF Elevatable
  <2> QED
    BY <1>1, <1>3, <2>1, <2>2 DEF GateInv
<1> QED
  BY <1>4, <1>5

(* Success uses up the candidate the call points at.                        *)
LEMMA ElevatedEndsKeeps ==
  ASSUME GateInv, NEW ok \in BOOLEAN, ElevatedEnds(ok), UNCHANGED vars
  PROVE  GateInv'
<1>1. call.stage = "running" /\ call' = NoCall /\ UNCHANGED <<offered, running, unlicensed>>
  BY DEF ElevatedEnds
<1>2. CallExact' /\ Elevatable' = Elevatable
  BY <1>1 DEF CallExact, NoCall, Elevatable
<1>3. CASE ok
  <2> DEFINE used == [action |-> call.use, source |-> call.source]
  <2>1. /\ candidates' = RemoveAt(candidates, call.index)
        /\ due' = [due EXCEPT ![call.use][call.source] = @ - 1]
    BY <1>3 DEF ElevatedEnds
  <2>2. /\ call.index \in 1..Len(candidates) /\ candidates[call.index] = used
        /\ candidates \in Seq(Elevatable)
    BY <1>1 DEF GateInv, CallExact
  <2>3. call.use \in Actions /\ call.source \in Source
    <3>1. used \in Elevatable
      BY <2>2, ElementOfSeq
    <3> QED
      BY <3>1 DEF Elevatable, GateInv
  <2>4. candidates' \in Seq(Elevatable')
    BY <1>2, <2>1, <2>2, SpliceOne DEF RemoveAt
  <2>5. due' \in [Actions -> [Source -> Int]]
    BY <2>1, <2>3 DEF GateInv
  <2>6. ASSUME NEW b \in Actions, NEW t \in Source
        PROVE  due'[b][t] = Count(candidates', [action |-> b, source |-> t])
    <3> DEFINE old == [action |-> b, source |-> t]
    <3>1. old = used <=> b = call.use /\ t = call.source
      OBVIOUS
    <3> HIDE DEF used, old
    <3>2. Count(candidates', old) = IF used = old THEN Count(candidates, old) - 1
                                    ELSE Count(candidates, old)
      BY <2>1, <2>2, CountRemoveAt
    <3>3. due'[b][t] = IF b = call.use /\ t = call.source THEN due[b][t] - 1 ELSE due[b][t]
      BY <2>1, <2>3 DEF GateInv
    <3>4. due[b][t] = Count(candidates, old)
      BY DEF GateInv, old
    <3> QED
      BY <3>1, <3>2, <3>3, <3>4 DEF old
  <2> QED
    BY <1>1, <1>2, <2>4, <2>5, <2>6 DEF GateInv
<1>4. CASE ~ok
  <2>1. UNCHANGED <<candidates, due>>
    BY <1>4 DEF ElevatedEnds
  <2> QED
    BY <1>1, <1>2, <2>1 DEF GateInv
<1> QED
  BY <1>3, <1>4

(* No candidate outlives its activation.                                    *)
LEMMA NextActivationKeeps ==
  ASSUME GateInv, NEW tools \in SUBSET Actions, NextActivation(tools), UNCHANGED vars
  PROVE  GateInv'
<1>1. /\ call.stage = "none" /\ running = {} /\ offered' = tools
      /\ candidates' = <<>> /\ due' = NothingDue
      /\ UNCHANGED <<running, call, unlicensed>>
  BY DEF NextActivation
<1>2. CallExact'
  BY <1>1 DEF CallExact
<1>3. \A a \in Actions, s \in Source :
        due'[a][s] = Count(candidates', [action |-> a, source |-> s])
  BY <1>1, CountEmpty DEF NothingDue
<1>4. due' \in [Actions -> [Source -> Int]]
  BY <1>1 DEF NothingDue
<1>5. candidates' \in Seq(Elevatable')
  BY <1>1, EmptyQueue
<1> QED
  BY <1>1, <1>2, <1>3, <1>4, <1>5 DEF GateInv

(* The elevated tool finds the newest candidate of the action, if any.      *)
LEMMA NewestCandidate ==
  ASSUME GateInv, NEW a,
         Newest(a) # 0
  PROVE  /\ Newest(a) \in 1..Len(candidates) /\ candidates[Newest(a)].source \in Source
         /\ candidates[Newest(a)] = [action |-> a, source |-> candidates[Newest(a)].source]
<1> DEFINE I == {i \in 1..Len(candidates) : candidates[i].action = a}
<1>1. Newest(a) = IF I # {} THEN Max(I) ELSE 0
  BY DEF Newest, SelectLastInSeq
<1>2. I # {} /\ Newest(a) = Max(I)
  BY <1>1
<1>3. I \in SUBSET (1..Len(candidates)) /\ Len(candidates) \in Nat
  BY LenProperties DEF GateInv
<1> HIDE DEF I
<1>4. \E i \in I : \A j \in I : j <= i
  BY <1>2, <1>3, LastPosition
<1>5. \E i \in I : \A j \in I : i >= j
  BY <1>3, <1>4
<1>6. Newest(a) \in I
  BY <1>2, <1>5 DEF Max
<1>7. Newest(a) \in 1..Len(candidates) /\ candidates[Newest(a)].action = a
  BY <1>6 DEF I
<1>8. candidates[Newest(a)] \in Elevatable
  BY <1>7, ElementOfSeq DEF GateInv
<1> QED
  BY <1>7, <1>8 DEF Elevatable

LEMMA SubmitKeeps ==
  ASSUME GateInv, NEW r \in Requests, NEW waiting, Submit(r, waiting),
         waiting \in [stage : {"none"}, use : Actions \cup {Transaction}, source : Source \cup {"none"},
                      index : Nat, request : {Nobody}, hard : BOOLEAN],
         waiting.use # Transaction =>
           /\ waiting.index \in 1..Len(candidates)
           /\ candidates[waiting.index] = [action |-> waiting.use, source |-> waiting.source]
           /\ ~waiting.hard
  PROVE  GateInv'
<1>1. call.stage = "none" /\ running = {}
      /\ UNCHANGED <<offered, candidates, running, due, unlicensed>>
  BY DEF Submit
<1>2. Elevatable' = Elevatable
  BY <1>1 DEF Elevatable
<1>3. CASE call' = [waiting EXCEPT !.stage = "waiting", !.request = r]
  <2>1. /\ call'.stage = "waiting" /\ call'.request = r /\ call'.use = waiting.use
        /\ call'.source = waiting.source /\ call'.index = waiting.index
        /\ call'.hard = waiting.hard
    BY <1>3
  <2>2. CallExact'
    BY <1>1, <2>1 DEF CallExact
  <2> QED
    BY <1>1, <1>2, <2>2 DEF GateInv
<1>4. CASE UNCHANGED call
  <2>1. CallExact'
    BY <1>1, <1>4 DEF CallExact
  <2> QED
    BY <1>1, <1>2, <2>1 DEF GateInv
<1> QED
  BY <1>3, <1>4 DEF Submit

LEMMA QueuedKeeps == ASSUME GateInv, Queued PROVE GateInv'
<1>1. ASSUME NEW r \in Requests, NEW a \in Actions, NEW heard \in Heard, Elevate(r, a, heard)
      PROVE  GateInv'
  <2> DEFINE index == Newest(a)
             waiting == Elevation(a, index, heard)
  <2>1. index # 0 /\ Authorize(heard, TRUE) = "ask" /\ Submit(r, waiting)
    BY <1>1 DEF Elevate
  <2>2. /\ index \in 1..Len(candidates) /\ candidates[index].source \in Source
        /\ candidates[index] = [action |-> a, source |-> candidates[index].source]
    BY <2>1, NewestCandidate
  <2>3. Hard(heard) = FALSE
    BY <2>1, EvaluateStates DEF Authorize, Hard
  <2> HIDE DEF index
  <2>4. index \in Nat
    BY <2>2
  <2>5. waiting = [stage |-> "none", use |-> a, source |-> candidates[index].source,
                   index |-> index, request |-> Nobody, hard |-> FALSE]
    <3>1. waiting = [NoCall EXCEPT !.use = a, !.source = candidates[index].source,
                                   !.index = index, !.hard = FALSE]
      BY <2>3 DEF Elevation
    <3> HIDE DEF waiting
    <3> QED
      BY <3>1 DEF NoCall
  <2> HIDE DEF waiting
  <2> QED
    BY <2>1, <2>2, <2>3, <2>4, <2>5, SubmitKeeps
<1>2. ASSUME NEW r \in Requests, RequestTransaction(r)
      PROVE  GateInv'
  <2>1. Submit(r, NoCall)
    BY <1>2 DEF RequestTransaction
  <2> QED
    BY <2>1, SubmitKeeps DEF NoCall
<1> QED
  BY <1>1, <1>2 DEF Queued

(* The promise has settled: an approved action runs.                        *)
LEMMA DecidedKeeps == ASSUME GateInv, Decided, UNCHANGED vars PROVE GateInv'
<1>1. /\ call.stage = "waiting"
      /\ call' = IF outcome[call.request] = "approved" /\ call.use # Transaction
                 THEN [call EXCEPT !.stage = "running"] ELSE NoCall
      /\ UNCHANGED <<offered, candidates, running, due, unlicensed>>
      /\ outcome' = outcome
  BY DEF Decided, vars
<1>2. Elevatable' = Elevatable
  BY <1>1 DEF Elevatable
<1> QED
  BY <1>1, <1>2 DEF GateInv, CallExact, NoCall

(* A step of the queue for other Agents: what this session was told stays.  *)
LEMMA OthersKeep == ASSUME QueueInv, GateInv, QueueStep, UNCHANGED gateVars PROVE GateInv'
<1>1. UNCHANGED <<offered, candidates, running, call, due, unlicensed>>
  BY DEF gateVars
<1>2. Elevatable' = Elevatable
  BY <1>1 DEF Elevatable
<1>3. CallExact'
  BY <1>1 DEF GateInv, CallExact, QueueStep
<1> QED
  BY <1>1, <1>2, <1>3 DEF GateInv

(* Every step of the gate is a step of the queue or leaves it alone.        *)
LEMMA GateStepsTheQueue == [GateNext]_<<vars, gateVars>> => [Next]_vars
<1>1. ASSUME NEW r \in Requests, NEW waiting, Submit(r, waiting)
      PROVE  Next
  BY <1>1 DEF Submit, Next
<1>2. Queued => Next
  BY <1>1 DEF Queued, Elevate, RequestTransaction
<1> QED
  BY <1>2 DEF GateNext

LEMMA GateStep ==
  QueueInv /\ GateInv /\ [GateNext]_<<vars, gateVars>> => QueueInv' /\ GateInv'
<1> SUFFICES ASSUME QueueInv, GateInv, [GateNext]_<<vars, gateVars>>
             PROVE  QueueInv' /\ GateInv'
  OBVIOUS
<1>1. QueueStep
  BY GateStepsTheQueue, NextQueue
<1>2. CASE Plain /\ UNCHANGED vars
  <2>1. GateInv'
    BY <1>2, ToolCallKeeps, ToolEndsKeeps, ElevatedEndsKeeps, NextActivationKeeps DEF Plain
  <2> QED
    BY <1>1, <2>1 DEF QueueStep
<1>3. CASE Queued
  BY <1>1, <1>3, QueuedKeeps DEF QueueStep
<1>4. CASE Decided /\ UNCHANGED vars
  BY <1>1, <1>4, DecidedKeeps DEF QueueStep
<1>5. CASE UNCHANGED gateVars
  BY <1>1, <1>5, OthersKeep DEF QueueStep
<1> QED
  BY <1>2, <1>3, <1>4, <1>5 DEF GateNext

LEMMA GateInitInv == GateInit => QueueInv /\ GateInv
<1> SUFFICES ASSUME GateInit PROVE QueueInv /\ GateInv
  OBVIOUS
<1>1. QueueInv
  BY InitQueue DEF GateInit
<1>2. /\ candidates = <<>> /\ running = {} /\ unlicensed = {} /\ offered = Actions
      /\ call = NoCall /\ due = NothingDue
  BY DEF GateInit
<1>3. \A a \in Actions, s \in Source : due[a][s] = Count(candidates, [action |-> a, source |-> s])
  BY <1>2, CountEmpty DEF NothingDue
<1>4. candidates \in Seq(Elevatable) /\ due \in [Actions -> [Source -> Int]]
  BY <1>2, EmptyQueue DEF NothingDue
<1> QED
  BY <1>1, <1>2, <1>3, <1>4 DEF GateInv, CallExact, NoCall

(* The queue of the composed system is the queue: whatever the gate does    *)
(* with it, the theorems above hold.                                        *)
THEOREM GateImplementsQueue == GateSpec => Spec
<1>1. GateInit => Init
  BY DEF GateInit
<1> QED
  BY <1>1, GateStepsTheQueue, PTL DEF GateSpec, Spec

(* Nothing runs on the host or against a policy without an approval of that *)
(* very request, for a call of this activation that is due.                 *)
THEOREM GateIsKept == GateSpec => []GateKept
BY GateInitInv, GateStep, GateInvImplies, PTL DEF GateSpec
=============================================================================
